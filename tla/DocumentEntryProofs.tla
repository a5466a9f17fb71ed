------------------------- MODULE DocumentEntryProofs -------------------------
(***************************************************************************)
(* What DocumentEntry keeps for every number of documents, tabs, vouchers, *)
(* workers and edits.                                                      *)
(***************************************************************************)
EXTENDS DocumentEntry, FiniteSetTheorems, TLAPS

-----------------------------------------------------------------------------
(* The inductive invariant, in named parts.  Those that only hold while no  *)
(* write was lost take the tables as parameters, to be stated before and    *)
(* after a write.                                                           *)

Moved(L, d, k) == {m \in L : m.doc = d /\ m.kind = k}

\* What a running request may rely on: its read was allowed, its document
\* exists, and a post that talks to Books has moved its stock.
RequestFits(r, D, L) ==
    /\ r.op = "deliver" => r.by \in Vouchers
    /\ r.op = "create" => r.by \in Tabs /\ r.doc = None
    /\ r.op \notin {"create", "deliver"} => r.doc # None
    /\ r.doc # None => D[r.doc].status # "none"
    /\ r.stage \in {"commit", "failing", "books", "remember"} => r.doc # None
    /\ r.stage \in {"insert", "remember"} => r.op = "deliver"
    /\ r.stage \in {"commit", "failing"} => Accepts(r.op, r.saw.status) /\ r.saw.gen <= D[r.doc].gen
    /\ r.stage = "failing" => r.op \in {"post", "deliver"}
    /\ r.stage = "commit" /\ r.op = "post" /\ approvalRequired => r.saw.status = "APPROVED"
    /\ r.op = "deliver" /\ r.doc # None => D[r.doc].by = r.by
    /\ r.stage = "books" => r.op \in {"post", "deliver"} /\ Moved(L, r.doc, "physical") # {}

\* What a request read of a document that only moves on.
ReadCurrent(r, D, A) ==
    r.stage = "commit" =>
        /\ r.saw.status = "POSTED" => D[r.doc].status \in {"POSTED", "REVERSED"}
        /\ r.saw.status = "APPROVED" /\ r.saw.gen = D[r.doc].gen => A[r.doc] = r.saw.gen

\* The movement of a document's present lines.
Now(d, D, k) == [doc |-> d, gen |-> D[d].gen, kind |-> k]

\* A document's movements are those of the lines it has, in and back out.
StockFits(d, D, L) ==
    LET phys == Moved(L, d, "physical")
        back == Moved(L, d, "reversal")
    IN
    /\ D[d].status \in {"POSTED", "REVERSED"} => phys = {Now(d, D, "physical")}
    /\ D[d].status \notin {"POSTED", "REVERSED"} => phys = {}
    /\ D[d].status = "REVERSED" => back = {Now(d, D, "reversal")}
    /\ D[d].status # "REVERSED" => back = {}

ApprovalFits(d, D, L, A) ==
    /\ D[d].status = "APPROVED" => A[d] = D[d].gen
    /\ approvalRequired /\ D[d].by \in Tabs => \A m \in Moved(L, d, "physical") : m.gen = A[d]

\* One live document per voucher, and no posted document without movements:
\* also after a lost write.
SourceUnique(D) ==
    \A d, e \in Docs : d # e /\ D[d].by \in Vouchers /\ D[e].by = D[d].by => ~(Live(D[d].status) /\ Live(D[e].status))
PostedMoved(D, L) ==
    \A d \in Docs : D[d].status = "POSTED" => Moved(L, d, "physical") # {}

\* What a tab shows and waits for.
TabFits(scr, snt, W, D, L, t) ==
    /\ scr.doc # None => D[scr.doc].status # "none"
    /\ scr.view = "page" => scr.doc # None
    /\ scr.told = "posted" => scr.view = "page" /\ Moved(L, scr.doc, "physical") # {}
    /\ scr.view = "form" => IF scr.doc = None THEN scr.shown = "none" ELSE scr.shown \in Editable
    /\ snt.call # None =>
          LET r == W[snt.call] IN
          /\ scr.told = "none"
          /\ r # None /\ r.by = t
          /\ r.op = "create" => snt.clicked = "none"
          /\ r.op \in Actions \cup {"update"} => Accepts(r.op, snt.clicked)

RequestsKept == \A w \in Workers : work[w] # None => RequestFits(work[w], doc, ledger)
TabsKept == \A t \in Tabs : TabFits(screen[t], sent[t], work, doc, ledger, t)
Kept ==
    /\ RequestsKept
    /\ TabsKept
    /\ SourceUnique(doc)
    /\ PostedMoved(doc, ledger)

ReadsKept == \A w \in Workers : work[w] # None => ReadCurrent(work[w], doc, approved)
Current ==
    /\ ReadsKept
    /\ \A d \in Docs : StockFits(d, doc, ledger) /\ ApprovalFits(d, doc, ledger, approved)

IInv == TypeOK /\ Kept /\ (lost = 0 => Current)

-----------------------------------------------------------------------------
(* Types.                                                                  *)

\* A new request, and the same request further on, are requests.
LEMMA RequestTypes ==
    /\ NoRow \in Row
    /\ \A o \in Ops, b \in Tabs \cup Vouchers, d \in Docs \cup {None} : NewRequest(o, b, d) \in Request
    /\ \A r \in Request, d \in Docs \cup {None}, s \in Stage, row \in Row : Ahead(r, d, s, row) \in Request
PROOF
<1>1. NoRow \in Row
  BY EntryAssumption DEF NoRow, Row, Status
<1>2. ASSUME NEW o \in Ops, NEW b \in Tabs \cup Vouchers, NEW d \in Docs \cup {None}
      PROVE  NewRequest(o, b, d) \in Request
  BY <1>1 DEF NewRequest, Request, Stage
<1>3. ASSUME NEW r \in Request, NEW d \in Docs \cup {None}, NEW s \in Stage, NEW row \in Row
      PROVE  Ahead(r, d, s, row) \in Request
  BY DEF Ahead, Request
<1> QED
  BY <1>1, <1>2, <1>3

RequestsTyped ==
    /\ work \in [Workers -> Request \cup {None}]
    /\ screen \in [Tabs -> Screen]
    /\ sent \in [Tabs -> Sent]

\* An answer leaves the workers, the screens and the waiting tabs typed.
LEMMA AnswerTypes ==
    ASSUME TypeOK, NEW w \in Workers, work[w] # None,
           NEW d \in Docs \cup {None}, NEW res \in Result, Answer(w, d, res)
    PROVE  RequestsTyped'
PROOF
<1>1. work[w] \in Request
  BY DEF TypeOK
<1>2. ASSUME NEW t \in Tabs, FormSaved(t, w, d)
      PROVE  RequestsTyped'
  <2>1. NewRequest("post", t, d) \in Request
    BY RequestTypes DEF Ops, Actions
  <2>2. screen[t] \in Screen /\ sent[t] \in Sent
    BY DEF TypeOK
  <2>3. /\ Showing(screen[t].view, SavedId(t, d), Drafted(screen[t].shown), "none") \in Screen
        /\ Showing("page", d, "none", "none") \in Screen
    BY <2>2 DEF Showing, SavedId, Drafted, Screen, Status, Told
  <2>4. Waiting("post", w, Drafted(sent[t].clicked)) \in Sent /\ Free \in Sent
    BY <2>2 DEF Waiting, Free, Drafted, Sent, Status
  <2>5. CASE sent[t].busy = "saveAndPost"
    BY <1>2, <2>1, <2>3, <2>4, <2>5 DEF FormSaved, Show, TypeOK, RequestsTyped
  <2>6. CASE sent[t].busy # "saveAndPost"
    BY <1>2, <2>3, <2>4, <2>6 DEF FormSaved, Show, TypeOK, RequestsTyped
  <2> QED
    BY <2>5, <2>6
<1>3. ASSUME NEW t \in Tabs, TabHears(t, w, work[w], res)
      PROVE  RequestsTyped'
  <2>1. screen[t] \in Screen
    BY DEF TypeOK
  <2>2. Message(t, work[w], res) \in Told
    BY DEF Message, Told
  <2>3. work[w].doc \in Docs \cup {None}
    BY <1>1 DEF Request
  <2>4. Free \in Sent
    BY DEF Free, Waiting, Sent, Status
  <2>5. CASE res \in {"ok", "duplicate"}
    BY <1>3, <2>1, <2>2, <2>3, <2>4, <2>5 DEF TabHears, Show, Showing, TypeOK, Screen, Status, RequestsTyped
  <2>6. CASE res \notin {"ok", "duplicate"}
    BY <1>3, <2>1, <2>2, <2>3, <2>4, <2>6 DEF TabHears, Show, Showing, TypeOK, Screen, RequestsTyped
  <2> QED
    BY <2>5, <2>6
<1>4. CASE \E t \in Tabs : Waits(t, w)
  <2>1. PICK t \in Tabs : \/ FormSaved(t, w, d)
                          \/ TabHears(t, w, work[w], res)
    BY <1>4 DEF Answer
  <2> QED
    BY <2>1, <1>2, <1>3
<1>5. CASE ~\E t \in Tabs : Waits(t, w)
  BY <1>5 DEF Answer, TypeOK, tab, RequestsTyped
<1> QED
  BY <1>4, <1>5

\* So does a step that keeps the request.
LEMMA ProceedTypes ==
    ASSUME TypeOK, NEW w \in Workers, NEW r \in Request, Proceed(w, r)
    PROVE  RequestsTyped'
BY DEF Proceed, TypeOK, tab, RequestsTyped

LEMMA ConcludeTypes ==
    ASSUME TypeOK, NEW w \in Workers, work[w] # None, NEW res \in Result, Conclude(w, res)
    PROVE  RequestsTyped'
PROOF
<1>1. work[w] \in Request
  BY DEF TypeOK
<1>2. work[w].doc \in Docs \cup {None} /\ work[w].saw \in Row
  BY <1>1 DEF Request
<1>3. Ahead(work[w], work[w].doc, "remember", work[w].saw) \in Request
  BY <1>1, <1>2, RequestTypes DEF Stage
<1>4. CASE Answer(w, work[w].doc, res)
  BY <1>2, <1>4, AnswerTypes
<1>5. CASE Proceed(w, Ahead(work[w], work[w].doc, "remember", work[w].saw))
  BY <1>3, <1>5, ProceedTypes
<1> QED
  BY <1>4, <1>5 DEF Conclude

\* A new row, and a document's row with another status.
LEMMA RowTypes ==
    ASSUME TypeOK, NEW d \in Docs
    PROVE  /\ doc[d].gen \in 0..MaxGen /\ doc[d].by \in Tabs \cup Vouchers \cup {None} /\ doc[d].status \in Status
           /\ \A s \in Status : SetStatus(d, s) => doc' \in [Docs -> Row]
           /\ \A r \in Request : Insert(r, d) => doc' \in [Docs -> Row]
PROOF
<1>1. doc[d] \in Row
  BY DEF TypeOK
<1>2. doc[d].gen \in 0..MaxGen /\ doc[d].by \in Tabs \cup Vouchers \cup {None} /\ doc[d].status \in Status
  BY <1>1 DEF Row
<1>3. ASSUME NEW s \in Status, SetStatus(d, s)
      PROVE  doc' \in [Docs -> Row]
  <2>1. [status |-> s, gen |-> doc[d].gen, by |-> doc[d].by] \in Row
    BY <1>2 DEF Row
  <2> QED
    BY <1>3, <2>1 DEF SetStatus, TypeOK
<1>4. ASSUME NEW r \in Request, Insert(r, d)
      PROVE  doc' \in [Docs -> Row]
  <2>1. [status |-> "DRAFT", gen |-> 1, by |-> r.by] \in Row
    BY EntryAssumption DEF Row, Request, Status
  <2> QED
    BY <1>4, <2>1 DEF Insert, TypeOK
<1> QED
  BY <1>2, <1>3, <1>4

\* Counting a write that was lost.
LEMMA OverwriteTypes ==
    ASSUME TypeOK, NEW w \in Workers, NEW o, Overwrites(w, o)
    PROVE  lost' \in 0..MaxLost /\ (lost' = 0 => lost = 0 /\ ~Undoes(o, work[w].saw, doc[work[w].doc]))
BY EntryAssumption DEF Overwrites, TypeOK

LEMMA SendTypes ==
    ASSUME TypeOK, NEW t \in Tabs, NEW w \in Workers, NEW o \in Ops, NEW d \in Docs \cup {None},
           NEW busy \in {"save", "saveAndPost", "post", "act"}, Send(t, w, NewRequest(o, t, d), busy)
    PROVE  RequestsTyped'
PROOF
<1>1. NewRequest(o, t, d) \in Request
  BY RequestTypes
<1>2. screen[t] \in Screen
  BY DEF TypeOK
<1>3. Showing(screen[t].view, screen[t].doc, screen[t].shown, "none") \in Screen /\ Waiting(busy, w, screen[t].shown) \in Sent
  BY <1>2 DEF Showing, Waiting, Screen, Sent, Told
<1> QED
  BY <1>1, <1>3 DEF Send, Show, RequestsTyped, TypeOK

-----------------------------------------------------------------------------
(* What a step of the server does to everybody else.                       *)

\* Documents do not vanish and change no owner, lines are only replaced and
\* movements only added.
Onward ==
    /\ UNCHANGED approvalRequired
    /\ ledger \subseteq ledger'
    /\ \A d \in Docs : doc[d].status # "none" =>
          /\ doc'[d].status # "none"
          /\ doc'[d].by = doc[d].by
          /\ doc[d].gen <= doc'[d].gen

\* A posted document stays posted or is reversed, and an approval of the
\* lines a document has stays theirs.
OnwardCurrent ==
    \A d \in Docs : doc[d].status # "none" =>
        /\ doc[d].status \in {"POSTED", "REVERSED"} => doc'[d].status \in {"POSTED", "REVERSED"}
        /\ approved[d] = doc[d].gen /\ doc'[d].gen = doc[d].gen => approved'[d] = approved[d]

LEMMA MovedGrows ==
    ASSUME Onward, NEW d, NEW k, Moved(ledger, d, k) # {}
    PROVE  Moved(ledger', d, k) # {}
BY DEF Onward, Moved

LEMMA Unwritten ==
    ASSUME TypeOK, UNCHANGED <<approvalRequired, doc, ledger, approved>>
    PROVE  Onward /\ OnwardCurrent
PROOF
<1>1. \A d \in Docs : doc[d].gen <= doc[d].gen
  BY RowTypes, EntryAssumption
<1> QED
  BY <1>1 DEF Onward, OnwardCurrent

\* A request that runs on meets the same conditions after the step.
LEMMA RequestStays ==
    ASSUME TypeOK, TypeOK', Onward, NEW r \in Request, RequestFits(r, doc, ledger)
    PROVE  RequestFits(r, doc', ledger')
PROOF
<1>1. r.doc \in Docs \cup {None} /\ r.saw \in Row
  BY DEF Request
<1>2. CASE r.doc = None
  BY <1>2 DEF RequestFits
<1>3. CASE r.doc # None
  <2>1. /\ doc[r.doc].status # "none" /\ doc'[r.doc].status # "none"
        /\ doc'[r.doc].by = doc[r.doc].by /\ doc[r.doc].gen <= doc'[r.doc].gen
    BY <1>1, <1>3 DEF RequestFits, Onward
  <2>2. doc[r.doc].gen \in Nat /\ doc'[r.doc].gen \in Nat /\ r.saw.gen \in Nat
    BY <1>1, <1>3, EntryAssumption DEF TypeOK, Row
  <2>3. r.stage \in {"commit", "failing"} => Accepts(r.op, r.saw.status) /\ r.saw.gen <= doc'[r.doc].gen
    BY <2>1, <2>2 DEF RequestFits
  <2>4. r.stage = "books" => r.op \in {"post", "deliver"} /\ Moved(ledger', r.doc, "physical") # {}
    BY MovedGrows DEF RequestFits
  <2> QED
    BY <2>1, <2>3, <2>4 DEF RequestFits
<1> QED
  BY <1>2, <1>3

LEMMA ReadStays ==
    ASSUME TypeOK, TypeOK', Onward, OnwardCurrent, NEW r \in Request,
           RequestFits(r, doc, ledger), ReadCurrent(r, doc, approved)
    PROVE  ReadCurrent(r, doc', approved')
PROOF
<1> SUFFICES ASSUME r.stage = "commit" PROVE ReadCurrent(r, doc', approved')
  BY DEF ReadCurrent
<1>1. r.doc \in Docs /\ r.saw \in Row /\ doc[r.doc].status # "none" /\ r.saw.gen <= doc[r.doc].gen
  BY DEF Request, RequestFits
<1>2. doc[r.doc].gen \in Nat /\ doc'[r.doc].gen \in Nat /\ r.saw.gen \in Nat
  BY <1>1, EntryAssumption DEF TypeOK, Row
<1>3. doc[r.doc].gen <= doc'[r.doc].gen
  BY <1>1 DEF Onward
<1>4. r.saw.status = "POSTED" => doc'[r.doc].status \in {"POSTED", "REVERSED"}
  BY <1>1 DEF OnwardCurrent, ReadCurrent
<1>5. ASSUME r.saw.status = "APPROVED", r.saw.gen = doc'[r.doc].gen
      PROVE  approved'[r.doc] = r.saw.gen
  <2>1. r.saw.gen = doc[r.doc].gen
    BY <1>1, <1>2, <1>3, <1>5
  <2> QED
    BY <1>1, <1>5, <2>1 DEF OnwardCurrent, ReadCurrent
<1> QED
  BY <1>4, <1>5 DEF ReadCurrent

\* A tab that hears nothing: what it shows stays true, and its request is
\* still its own.
LEMMA TabStays ==
    ASSUME TypeOK, Onward, NEW t \in Tabs,
           TabFits(screen[t], sent[t], work, doc, ledger, t),
           UNCHANGED <<screen[t], sent[t]>>,
           sent[t].call # None =>
               /\ work'[sent[t].call] # None
               /\ work'[sent[t].call].by = work[sent[t].call].by
               /\ work'[sent[t].call].op \in {work[sent[t].call].op, "undo"}
    PROVE  TabFits(screen'[t], sent'[t], work', doc', ledger', t)
PROOF
<1>1. screen[t] \in Screen /\ screen[t].doc \in Docs \cup {None}
  BY DEF TypeOK, Screen
<1>2. screen[t].doc # None => doc'[screen[t].doc].status # "none"
  BY <1>1 DEF TabFits, Onward
<1>3. screen[t].told = "posted" => screen[t].view = "page" /\ Moved(ledger', screen[t].doc, "physical") # {}
  BY MovedGrows DEF TabFits
<1>4. ASSUME sent[t].call # None
      PROVE  LET r == work'[sent[t].call] IN
             /\ screen[t].told = "none"
             /\ r # None /\ r.by = t
             /\ r.op = "create" => sent[t].clicked = "none"
             /\ r.op \in Actions \cup {"update"} => Accepts(r.op, sent[t].clicked)
  BY <1>4 DEF TabFits, Actions
<1> QED
  BY <1>2, <1>3, <1>4 DEF TabFits

-----------------------------------------------------------------------------
(* A step of one worker, seen by the other workers and by the tabs.         *)

OthersRun(w) == \A x \in Workers \ {w} : work'[x] = work[x]

LEMMA RequestsStay ==
    ASSUME TypeOK, TypeOK', Onward, RequestsKept, NEW w \in Workers, OthersRun(w),
           work'[w] # None => RequestFits(work'[w], doc', ledger')
    PROVE  RequestsKept'
PROOF
<1>1. ASSUME NEW x \in Workers, work'[x] # None
      PROVE  RequestFits(work'[x], doc', ledger')
  <2>1. CASE x = w
    BY <1>1, <2>1
  <2>2. CASE x # w
    <3>1. work'[x] = work[x] /\ work[x] \in Request
      BY <1>1, <2>2 DEF OthersRun, TypeOK
    <3>2. RequestFits(work[x], doc, ledger)
      BY <1>1, <3>1 DEF RequestsKept
    <3> QED
      BY <3>1, <3>2, RequestStays
  <2> QED
    BY <2>1, <2>2
<1>2. UNCHANGED approvalRequired
  BY DEF Onward
<1> QED
  BY <1>1, <1>2 DEF RequestsKept, RequestFits

LEMMA ReadsStay ==
    ASSUME TypeOK, TypeOK', Onward, OnwardCurrent, RequestsKept, ReadsKept,
           NEW w \in Workers, OthersRun(w),
           work'[w] # None => ReadCurrent(work'[w], doc', approved')
    PROVE  ReadsKept'
PROOF
<1>1. ASSUME NEW x \in Workers, work'[x] # None
      PROVE  ReadCurrent(work'[x], doc', approved')
  <2>1. CASE x = w
    BY <1>1, <2>1
  <2>2. CASE x # w
    <3>1. work'[x] = work[x] /\ work[x] \in Request
      BY <1>1, <2>2 DEF OthersRun, TypeOK
    <3>2. RequestFits(work[x], doc, ledger) /\ ReadCurrent(work[x], doc, approved)
      BY <1>1, <3>1 DEF RequestsKept, ReadsKept
    <3> QED
      BY <3>1, <3>2, ReadStays
  <2> QED
    BY <2>1, <2>2
<1> QED
  BY <1>1 DEF ReadsKept

\* A request that goes on is still its tab's.
LEMMA ProceedKeeps ==
    ASSUME TypeOK, TypeOK', Onward, RequestsKept, TabsKept,
           NEW w \in Workers, work[w] # None, NEW r \in Request, Proceed(w, r),
           r.by = work[w].by, r.op \in {work[w].op, "undo"}, RequestFits(r, doc', ledger')
    PROVE  RequestsKept' /\ TabsKept' /\ OthersRun(w) /\ work'[w] = r
PROOF
<1>1. OthersRun(w) /\ work'[w] = r
  BY DEF OthersRun, Proceed, TypeOK
<1>2. RequestsKept'
  BY <1>1, RequestsStay
<1>3. ASSUME NEW t \in Tabs
      PROVE  TabFits(screen'[t], sent'[t], work', doc', ledger', t)
  <2>1. UNCHANGED <<screen[t], sent[t]>>
    BY DEF Proceed, tab
  <2>2. TabFits(screen[t], sent[t], work, doc, ledger, t)
    BY DEF TabsKept
  <2>3. ASSUME sent[t].call # None
        PROVE  /\ work'[sent[t].call] # None
               /\ work'[sent[t].call].by = work[sent[t].call].by
               /\ work'[sent[t].call].op \in {work[sent[t].call].op, "undo"}
    <3>1. sent[t].call \in Workers /\ work[sent[t].call] # None
      BY <2>2, <2>3 DEF TabFits, TypeOK, Sent
    <3>2. r # None
      BY NoneAssumption
    <3> QED
      BY <1>1, <3>1, <3>2 DEF OthersRun
  <2> QED
    BY <2>1, <2>2, <2>3, TabStays
<1> QED
  BY <1>1, <1>2, <1>3 DEF TabsKept

\* Requests that end, seen by a tab that did not wait for them.
LEMMA OtherTabStays ==
    ASSUME TypeOK, TypeOK', Onward, NEW w \in Workers, OthersRun(w),
           NEW t \in Tabs, TabFits(screen[t], sent[t], work, doc, ledger, t),
           UNCHANGED <<screen[t], sent[t]>>, ~Waits(t, w)
    PROVE  TabFits(screen'[t], sent'[t], work', doc', ledger', t)
PROOF
<1>1. ASSUME sent[t].call # None
      PROVE  /\ work'[sent[t].call] # None
             /\ work'[sent[t].call].by = work[sent[t].call].by
             /\ work'[sent[t].call].op \in {work[sent[t].call].op, "undo"}
  <2>1. sent[t].call \in Workers /\ sent[t].call # w /\ work[sent[t].call] # None
    BY <1>1 DEF TabFits, TypeOK, Sent, Waits
  <2> QED
    BY <2>1 DEF OthersRun
<1> QED
  BY <1>1, TabStays

\* What an answer may say: a saved document exists, and a posted one has moved.
AnswerTrue(w, d, res) ==
    /\ work[w].op = "create" => res # "duplicate"
    /\ work[w].op \in {"create", "update"} /\ res = "ok" => d \in Docs /\ doc'[d].status # "none"
    /\ work[w].op = "post" /\ res \in {"ok", "duplicate"} => Moved(ledger', work[w].doc, "physical") # {}

\* The form's next request, and what the form and the page show.
LEMMA FormSavedKeeps ==
    ASSUME TypeOK, TypeOK', Onward, RequestsKept, TabsKept,
           NEW w \in Workers, work[w] # None, NEW d \in Docs, doc'[d].status # "none",
           work[w].op \in {"create", "update"}, NEW t \in Tabs, Waits(t, w), FormSaved(t, w, d)
    PROVE  /\ OthersRun(w)
           /\ work'[w] # None => work'[w].stage = "arrived" /\ RequestFits(work'[w], doc', ledger')
           /\ TabFits(screen'[t], sent'[t], work', doc', ledger', t)
PROOF
<1>1. /\ screen[t] \in Screen /\ sent[t] \in Sent /\ w # None /\ d # None
      /\ TabFits(screen[t], sent[t], work, doc, ledger, t)
  BY EntryAssumption DEF TypeOK, TabsKept
<1>2. OthersRun(w)
  BY DEF FormSaved, OthersRun, TypeOK
<1>3. CASE sent[t].busy = "saveAndPost"
  <2> DEFINE r == NewRequest("post", t, d)
  <2>1. work'[w] = r /\ r # None
    <3>1. r \in Request
      BY RequestTypes DEF Ops, Actions
    <3> QED
      BY <1>3, <3>1, NoneAssumption DEF FormSaved, TypeOK
  <2>2. r.stage = "arrived" /\ r.by = t /\ r.op = "post" /\ r.doc = d
    BY DEF NewRequest
  <2>3. RequestFits(r, doc', ledger')
    BY <1>1, <2>2 DEF RequestFits
  <2>4. screen'[t] = Showing(screen[t].view, d, Drafted(screen[t].shown), "none")
    BY <1>3 DEF FormSaved, Show, SavedId, TypeOK
  <2>5. sent'[t] = Waiting("post", w, Drafted(sent[t].clicked))
    BY <1>3 DEF FormSaved, TypeOK
  <2>6. screen[t].view = "form" => Drafted(screen[t].shown) \in Editable
    BY <1>1 DEF TabFits, Drafted, Editable
  <2>7. Accepts("post", Drafted(sent[t].clicked))
    <3>1. work[w].op = "create" => sent[t].clicked = "none"
      BY <1>1 DEF TabFits, Waits
    <3>2. work[w].op = "update" => Accepts("update", sent[t].clicked)
      BY <1>1 DEF TabFits, Waits
    <3> QED
      BY <3>1, <3>2 DEF Accepts, Drafted, Editable
  <2>8. TabFits(screen'[t], sent'[t], work', doc', ledger', t)
    BY <1>1, <2>1, <2>2, <2>4, <2>5, <2>6, <2>7 DEF TabFits, Showing, Waiting
  <2> QED
    BY <1>2, <2>1, <2>2, <2>3, <2>8
<1>4. CASE sent[t].busy # "saveAndPost"
  <2>1. work'[w] = None
    BY <1>4 DEF FormSaved, TypeOK
  <2>2. screen'[t] = Showing("page", d, "none", "none") /\ sent'[t] = Free
    BY <1>4 DEF FormSaved, Show, TypeOK
  <2>3. TabFits(screen'[t], sent'[t], work', doc', ledger', t)
    BY <1>1, <2>2 DEF TabFits, Showing, Free, Waiting
  <2> QED
    BY <1>2, <2>1, <2>3
<1> QED
  BY <1>3, <1>4

LEMMA TabHearsKeeps ==
    ASSUME TypeOK, TypeOK', Onward, RequestsKept, TabsKept,
           NEW w \in Workers, work[w] # None, NEW res \in Result,
           work[w].op = "post" /\ res \in {"ok", "duplicate"} => Moved(ledger', work[w].doc, "physical") # {},
           work[w].op = "create" => res \notin {"ok", "duplicate"},
           NEW t \in Tabs, Waits(t, w), TabHears(t, w, work[w], res)
    PROVE  /\ OthersRun(w)
           /\ work'[w] = None
           /\ TabFits(screen'[t], sent'[t], work', doc', ledger', t)
PROOF
<1>1. /\ screen[t] \in Screen /\ work[w] \in Request
      /\ TabFits(screen[t], sent[t], work, doc, ledger, t) /\ RequestFits(work[w], doc, ledger)
  BY DEF TypeOK, TabsKept, RequestsKept
<1>2. OthersRun(w) /\ work'[w] = None /\ sent'[t] = Free
  BY DEF TabHears, OthersRun, TypeOK
<1>3. CASE res \in {"ok", "duplicate"}
  <2> DEFINE s == IF screen[t].view = "form" THEN "none" ELSE screen[t].shown
  <2>1. screen'[t] = Showing("page", work[w].doc, s, Message(t, work[w], res))
    BY <1>3 DEF TabHears, Show, TypeOK
  <2>2. Message(t, work[w], res) = "posted" => work[w].op = "post"
    BY <1>3 DEF Message
  <2>3. work[w].doc # None => doc'[work[w].doc].status # "none"
    BY <1>1 DEF RequestFits, Onward, Request
  <2>4. work[w].doc # None
    <3>1. work[w].by = t /\ t \notin Vouchers
      BY <1>1, EntryAssumption DEF TabFits, Waits
    <3> QED
      BY <1>1, <1>3, <3>1 DEF RequestFits
  <2> QED
    BY <1>2, <1>3, <2>1, <2>2, <2>3, <2>4 DEF TabFits, Showing, Free, Waiting
<1>4. CASE res \notin {"ok", "duplicate"}
  <2>1. screen'[t] = Showing(screen[t].view, screen[t].doc, screen[t].shown, Message(t, work[w], res))
    BY <1>4 DEF TabHears, Show, TypeOK
  <2>2. Message(t, work[w], res) # "posted"
    BY <1>4 DEF Message
  <2>3. screen[t].doc # None => doc'[screen[t].doc].status # "none"
    BY <1>1 DEF TabFits, Onward, Screen
  <2> QED
    BY <1>1, <1>2, <2>1, <2>2, <2>3 DEF TabFits, Showing, Free, Waiting
<1> QED
  BY <1>3, <1>4

\* An answer is heard by the one tab whose request it was.
LEMMA AnswerKeeps ==
    ASSUME TypeOK, TypeOK', Onward, RequestsKept, TabsKept,
           NEW w \in Workers, work[w] # None, NEW d, NEW res \in Result,
           Answer(w, d, res), AnswerTrue(w, d, res)
    PROVE  /\ RequestsKept' /\ TabsKept' /\ OthersRun(w)
           /\ work'[w] # None => work'[w].stage = "arrived"
PROOF
<1>1. CASE \E t \in Tabs : Waits(t, w)
  <2>1. PICK t \in Tabs : /\ Waits(t, w)
                          /\ IF work[w].op \in {"create", "update"} /\ res = "ok"
                             THEN FormSaved(t, w, d) ELSE TabHears(t, w, work[w], res)
    BY <1>1 DEF Answer
  <2>2. /\ OthersRun(w)
        /\ work'[w] # None => work'[w].stage = "arrived" /\ RequestFits(work'[w], doc', ledger')
        /\ TabFits(screen'[t], sent'[t], work', doc', ledger', t)
    <3>1. CASE work[w].op \in {"create", "update"} /\ res = "ok"
      BY <2>1, <3>1, FormSavedKeeps DEF AnswerTrue
    <3>2. CASE ~(work[w].op \in {"create", "update"} /\ res = "ok")
      BY <2>1, <3>2, TabHearsKeeps DEF AnswerTrue
    <3> QED
      BY <3>1, <3>2
  <2>3. RequestsKept'
    BY <2>2, RequestsStay
  <2>4. ASSUME NEW u \in Tabs
        PROVE  TabFits(screen'[u], sent'[u], work', doc', ledger', u)
    <3>1. CASE u = t
      BY <2>2, <3>1
    <3>2. CASE u # t
      <4>1. UNCHANGED <<screen[u], sent[u]>>
        BY <2>1, <3>2 DEF FormSaved, TabHears, Show, TypeOK
      <4>2. TabFits(screen[u], sent[u], work, doc, ledger, u) /\ TabFits(screen[t], sent[t], work, doc, ledger, t)
        BY DEF TabsKept
      <4>3. ~Waits(u, w)
        BY <2>1, <3>2, <4>2, EntryAssumption DEF TabFits, Waits
      <4> QED
        BY <2>2, <4>1, <4>2, <4>3, OtherTabStays
    <3> QED
      BY <3>1, <3>2
  <2> QED
    BY <2>2, <2>3, <2>4 DEF TabsKept
<1>2. CASE ~\E t \in Tabs : Waits(t, w)
  <2>1. OthersRun(w) /\ work'[w] = None /\ UNCHANGED tab
    BY <1>2 DEF Answer, OthersRun, TypeOK
  <2>2. RequestsKept'
    BY <2>1, RequestsStay
  <2>3. ASSUME NEW u \in Tabs
        PROVE  TabFits(screen'[u], sent'[u], work', doc', ledger', u)
    <3>1. UNCHANGED <<screen[u], sent[u]>>
      BY <2>1 DEF tab
    <3>2. TabFits(screen[u], sent[u], work, doc, ledger, u)
      BY DEF TabsKept
    <3> QED
      BY <1>2, <2>1, <3>1, <3>2, OtherTabStays
  <2> QED
    BY <2>1, <2>2, <2>3 DEF TabsKept
<1> QED
  BY <1>1, <1>2

LEMMA ConcludeKeeps ==
    ASSUME TypeOK, TypeOK', Onward, RequestsKept, TabsKept,
           NEW w \in Workers, work[w] # None, work[w].doc \in Docs, NEW res \in Result, Conclude(w, res),
           work[w].op = "post" /\ res \in {"ok", "duplicate"} => Moved(ledger', work[w].doc, "physical") # {}
    PROVE  /\ RequestsKept' /\ TabsKept' /\ OthersRun(w)
           /\ work'[w] # None => work'[w].stage \in {"arrived", "remember"}
PROOF
<1>1. work[w] \in Request /\ RequestFits(work[w], doc, ledger) /\ work[w].doc # None
  BY EntryAssumption DEF TypeOK, RequestsKept
<1>2. doc'[work[w].doc].status # "none"
  BY <1>1 DEF RequestFits, Onward
<1>3. CASE Answer(w, work[w].doc, res)
  <2>1. AnswerTrue(w, work[w].doc, res)
    BY <1>1, <1>2 DEF AnswerTrue, RequestFits
  <2> QED
    BY <1>3, <2>1, AnswerKeeps
<1>4. CASE work[w].op = "deliver" /\ Proceed(w, Ahead(work[w], work[w].doc, "remember", work[w].saw))
  <2> DEFINE r == Ahead(work[w], work[w].doc, "remember", work[w].saw)
  <2>1. r \in Request
    BY <1>1, RequestTypes DEF Request, Stage
  <2>2. r.op = "deliver" /\ r.by = work[w].by /\ r.doc = work[w].doc /\ r.stage = "remember"
    BY <1>4 DEF Ahead
  <2>3. RequestFits(r, doc', ledger')
    BY <1>1, <1>2, <1>4, <2>2 DEF RequestFits, Onward
  <2>4. RequestsKept' /\ TabsKept' /\ OthersRun(w) /\ work'[w] = r
    BY <1>4, <2>1, <2>2, <2>3, ProceedKeeps
  <2> QED
    BY <2>2, <2>4
<1> QED
  BY <1>3, <1>4 DEF Conclude

\* A worker that holds nothing it read has nothing to hold against the row.
LEMMA FreshReads ==
    ASSUME TypeOK, TypeOK', Onward, OnwardCurrent, RequestsKept, ReadsKept, NEW w \in Workers, OthersRun(w),
           work'[w] # None => work'[w].stage # "commit"
    PROVE  ReadsKept'
BY ReadsStay DEF ReadCurrent

-----------------------------------------------------------------------------
(* Steps that write no document.                                           *)

Unwriting == UNCHANGED <<approvalRequired, doc, ledger, approved, lost>>

LEMMA QuietKeeps ==
    ASSUME IInv, TypeOK', Unwriting, RequestsKept', TabsKept', lost = 0 => ReadsKept'
    PROVE  IInv'
PROOF
<1>1. SourceUnique(doc)' /\ PostedMoved(doc, ledger)'
  BY DEF IInv, Kept, Unwriting, SourceUnique, PostedMoved
<1>2. ASSUME lost' = 0
      PROVE  Current'
  <2>1. Current /\ lost = 0
    BY <1>2 DEF IInv, Unwriting
  <2> QED
    BY <2>1 DEF Current, Unwriting, StockFits, ApprovalFits
<1> QED
  BY <1>1, <1>2 DEF IInv, Kept

\* A step of a worker that writes no document.
LEMMA WorkerKeeps ==
    ASSUME IInv, TypeOK', Unwriting, RequestsKept', TabsKept', NEW w \in Workers, OthersRun(w),
           work'[w] # None /\ work'[w].stage = "commit" /\ lost = 0 => ReadCurrent(work'[w], doc', approved')
    PROVE  IInv'
PROOF
<1>1. Onward /\ OnwardCurrent
  BY Unwritten DEF Unwriting, IInv
<1>2. ASSUME lost = 0
      PROVE  ReadsKept'
  <2>1. work'[w] # None => ReadCurrent(work'[w], doc', approved')
    BY <1>2 DEF ReadCurrent
  <2> QED
    BY <1>1, <1>2, <2>1, ReadsStay DEF IInv, Kept, Current
<1> QED
  BY <1>2, QuietKeeps

\* A step of one tab that leaves the workers alone.
LEMMA ScreenKeeps ==
    ASSUME IInv, NEW t \in Tabs, NEW s \in Screen, screen' = [screen EXCEPT ![t] = s],
           UNCHANGED <<server, work, sent, tries, faults>>,
           TabFits(s, sent[t], work, doc, ledger, t)
    PROVE  IInv'
PROOF
<1>1. TypeOK' /\ Unwriting
  BY DEF IInv, TypeOK, server, Unwriting
<1>2. RequestsKept' /\ (lost = 0 => ReadsKept')
  BY <1>1 DEF IInv, Kept, Current, Unwriting, RequestsKept, RequestFits, ReadsKept
<1>3. ASSUME NEW u \in Tabs
      PROVE  TabFits(screen'[u], sent'[u], work', doc', ledger', u)
  <2>1. TabFits(screen[u], sent[u], work, doc, ledger, u)
    BY DEF IInv, Kept, TabsKept
  <2>2. screen'[u] = IF u = t THEN s ELSE screen[u]
    BY DEF IInv, TypeOK
  <2>3. UNCHANGED <<doc, ledger, work, sent>>
    BY DEF server
  <2>4. TabFits(screen'[u], sent[u], work, doc, ledger, u)
    BY <2>1, <2>2
  <2> QED
    BY <2>3, <2>4
<1> QED
  BY <1>1, <1>2, <1>3, QuietKeeps DEF TabsKept

LEMMA OpenFormKeeps == ASSUME IInv, NEW t \in Tabs, OpenForm(t) PROVE IInv'
PROOF
<1> DEFINE s == Showing("form", None, "none", "none")
<1>1. s \in Screen
  BY DEF Showing, Screen, Status, Told
<1>2. TabFits(screen[t], sent[t], work, doc, ledger, t)
  BY DEF IInv, Kept, TabsKept
<1>3. TabFits(s, sent[t], work, doc, ledger, t)
  BY <1>2 DEF TabFits, Showing
<1> QED
  BY <1>1, <1>3, ScreenKeeps DEF OpenForm, Show

LEMMA OpenEditKeeps == ASSUME IInv, NEW t \in Tabs, OpenEdit(t) PROVE IInv'
PROOF
<1> DEFINE d == screen[t].doc
           s == Showing("form", d, doc[d].status, "none")
<1>1. screen[t] \in Screen /\ d \in Docs \cup {None} /\ TabFits(screen[t], sent[t], work, doc, ledger, t)
  BY DEF IInv, TypeOK, Screen, Kept, TabsKept
<1>2. d # None /\ doc[d].status \in Editable /\ sent[t].call = None
  BY <1>1 DEF OpenEdit, Offers, Editable, TabFits
<1>3. s \in Screen
  BY <1>1, <1>2 DEF Showing, Screen, Editable, Status, Told
<1>4. TabFits(s, sent[t], work, doc, ledger, t)
  BY <1>1, <1>2 DEF TabFits, Showing, OpenEdit
<1> QED
  BY <1>3, <1>4, ScreenKeeps DEF OpenEdit, Show

LEMMA LoadPageKeeps == ASSUME IInv, NEW t \in Tabs, NEW d \in Docs, LoadPage(t, d) PROVE IInv'
PROOF
<1> DEFINE s == Showing("page", d, doc[d].status, screen[t].told)
<1>1. screen[t] \in Screen /\ doc[d] \in Row /\ d # None /\ TabFits(screen[t], sent[t], work, doc, ledger, t)
  BY EntryAssumption DEF IInv, TypeOK, Kept, TabsKept
<1>2. s \in Screen
  BY <1>1 DEF Showing, Screen, Row
<1>3. TabFits(s, sent[t], work, doc, ledger, t)
  BY <1>1 DEF TabFits, Showing, LoadPage
<1> QED
  BY <1>2, <1>3, ScreenKeeps DEF LoadPage, Show

\* A tab sends a request that what it shows allows.
LEMMA SendKeeps ==
    ASSUME IInv, NEW t \in Tabs, NEW w \in Workers, NEW o \in Actions \cup {"create", "update"},
           NEW busy \in {"save", "saveAndPost", "post", "act"},
           Send(t, w, NewRequest(o, t, screen[t].doc), busy), UNCHANGED <<server, tries, faults>>,
           screen[t].view # "closed", o = "create" <=> screen[t].doc = None,
           o = "create" => screen[t].shown = "none",
           o # "create" => Accepts(o, screen[t].shown)
    PROVE  IInv'
PROOF
<1> DEFINE r == NewRequest(o, t, screen[t].doc)
<1>1. screen[t] \in Screen /\ sent[t] \in Sent /\ w # None /\ TabFits(screen[t], sent[t], work, doc, ledger, t)
  BY EntryAssumption DEF IInv, TypeOK, Kept, TabsKept
<1>2. r \in Request
  BY <1>1, RequestTypes DEF Screen, Ops
<1>3. /\ work' = [work EXCEPT ![w] = r] /\ work[w] = None
      /\ r # None /\ r.op = o /\ r.by = t /\ r.doc = screen[t].doc /\ r.stage = "arrived"
  BY <1>2, NoneAssumption DEF Send, NewRequest
<1>4. OthersRun(w) /\ work'[w] = r
  BY <1>3 DEF IInv, TypeOK, OthersRun
<1>5. RequestsTyped'
  <2>1. TypeOK /\ o \in Ops /\ screen[t].doc \in Docs \cup {None}
    BY <1>1 DEF IInv, Ops, Screen
  <2> QED
    BY <2>1, SendTypes
<1>6. TypeOK' /\ Unwriting
  BY <1>5 DEF IInv, TypeOK, server, RequestsTyped, Unwriting
<1>7. Onward
  BY <1>6, Unwritten DEF IInv, Unwriting
<1>8. RequestFits(r, doc', ledger')
  <2>1. doc' = doc
    BY <1>6 DEF Unwriting
  <2>2. o # "deliver" /\ o # "undo"
    BY DEF Actions
  <2> QED
    BY <1>1, <1>3, <2>1, <2>2 DEF RequestFits, TabFits
<1>9. RequestsKept'
  BY <1>4, <1>6, <1>7, <1>8, RequestsStay DEF IInv, Kept
<1>10. ASSUME NEW u \in Tabs
       PROVE  TabFits(screen'[u], sent'[u], work', doc', ledger', u)
  <2>1. TabFits(screen[u], sent[u], work, doc, ledger, u)
    BY DEF IInv, Kept, TabsKept
  <2>2. CASE u = t
    <3>1. screen'[t] = Showing(screen[t].view, screen[t].doc, screen[t].shown, "none") /\ sent'[t] = Waiting(busy, w, screen[t].shown)
      BY DEF Send, Show, IInv, TypeOK
    <3>2. UNCHANGED <<doc, ledger>>
      BY <1>6 DEF Unwriting
    <3>3. /\ screen'[t].view = screen[t].view /\ screen'[t].doc = screen[t].doc
          /\ screen'[t].shown = screen[t].shown /\ screen'[t].told = "none"
          /\ sent'[t].call = w /\ sent'[t].clicked = screen[t].shown
      BY <3>1 DEF Showing, Waiting
    <3>4. work'[sent'[t].call] = r
      BY <1>4, <3>3
    <3> HIDE DEF r
    <3>5. /\ work'[w] # None
          /\ r.op = "create" => screen[t].shown = "none"
          /\ r.op \in Actions \cup {"update"} => Accepts(r.op, screen[t].shown)
      BY <1>3, <1>4 DEF Actions
    <3>6. TabFits(screen'[t], sent'[t], work', doc, ledger, t)
      BY <1>1, <1>3, <1>4, <3>3, <3>4, <3>5 DEF TabFits
    <3> QED
      BY <2>2, <3>2, <3>6
  <2>3. CASE u # t
    <3>1. UNCHANGED <<screen[u], sent[u]>>
      BY <2>3 DEF Send, Show, IInv, TypeOK
    <3>2. ~Waits(u, w)
      BY <1>1, <1>3, <2>1 DEF TabFits, Waits
    <3> QED
      BY <1>4, <1>6, <1>7, <2>1, <3>1, <3>2, OtherTabStays DEF IInv
  <2> QED
    BY <2>2, <2>3
<1>11. TabsKept'
  BY <1>10 DEF TabsKept
<1> QED
  BY <1>3, <1>4, <1>6, <1>9, <1>11, WorkerKeeps

LEMMA SaveKeeps == ASSUME IInv, NEW t \in Tabs, NEW w \in Workers, NEW p \in BOOLEAN, Save(t, w, p) PROVE IInv'
PROOF
<1> DEFINE d == screen[t].doc
           busy == IF p THEN "saveAndPost" ELSE "save"
<1>1. TabFits(screen[t], sent[t], work, doc, ledger, t)
  BY DEF IInv, Kept, TabsKept
<1>2. Send(t, w, NewRequest(SaveOp(d), t, d), busy) /\ UNCHANGED <<server, tries, faults>>
  BY DEF Save
<1>3. SaveOp(d) \in Actions \cup {"create", "update"} /\ (SaveOp(d) = "create" <=> d = None)
  BY DEF SaveOp
<1>4. SaveOp(d) = "create" => screen[t].shown = "none"
  BY <1>1, <1>3 DEF Save, TabFits
<1>5. SaveOp(d) # "create" => Accepts(SaveOp(d), screen[t].shown)
  BY <1>1 DEF Save, SaveOp, TabFits, Accepts
<1>6. busy \in {"save", "saveAndPost", "post", "act"} /\ screen[t].view # "closed"
  BY DEF Save
<1> QED
  BY <1>2, <1>3, <1>4, <1>5, <1>6, SendKeeps

LEMMA ActKeeps == ASSUME IInv, NEW t \in Tabs, NEW w \in Workers, NEW a \in Actions, Act(t, w, a) PROVE IInv'
PROOF
<1>1. TabFits(screen[t], sent[t], work, doc, ledger, t)
  BY DEF IInv, Kept, TabsKept
<1>2. Send(t, w, NewRequest(a, t, screen[t].doc), "act") /\ UNCHANGED <<server, tries, faults>>
  BY DEF Act
<1>3. screen[t].view # "closed" /\ screen[t].doc # None /\ a # "create"
  BY <1>1 DEF Act, TabFits, Actions
<1>4. Accepts(a, screen[t].shown)
  BY DEF Act, Offers, Accepts, Editable
<1> QED
  BY <1>2, <1>3, <1>4, SendKeeps

\* Three ways for a worker to go on without writing a document.
CountersTyped ==
    /\ key \in [Vouchers -> Docs \cup {None}]
    /\ tries \in [Vouchers -> 0..MaxTries]
    /\ faults \in 0..MaxFaults

LEMMA QuietTypes ==
    ASSUME TypeOK, Unwriting, RequestsTyped', CountersTyped'
    PROVE  TypeOK'
BY DEF TypeOK, Unwriting, RequestsTyped, CountersTyped

LEMMA QuietAnswer ==
    ASSUME IInv, NEW w \in Workers, work[w] # None, NEW d \in Docs \cup {None}, NEW res \in Result,
           Answer(w, d, res), AnswerTrue(w, d, res), Unwriting, CountersTyped'
    PROVE  IInv'
PROOF
<1>1. TypeOK'
  BY AnswerTypes, QuietTypes DEF IInv
<1>2. Onward
  BY Unwritten DEF IInv, Unwriting
<1>3. /\ RequestsKept' /\ TabsKept' /\ OthersRun(w)
      /\ work'[w] # None => work'[w].stage = "arrived"
  BY <1>1, <1>2, AnswerKeeps DEF IInv, Kept
<1> QED
  BY <1>1, <1>3, WorkerKeeps

LEMMA QuietConclude ==
    ASSUME IInv, NEW w \in Workers, work[w] # None, work[w].doc \in Docs, NEW res \in Result, Conclude(w, res),
           work[w].op = "post" /\ res \in {"ok", "duplicate"} => Moved(ledger, work[w].doc, "physical") # {},
           Unwriting, CountersTyped'
    PROVE  IInv'
PROOF
<1>1. TypeOK'
  BY ConcludeTypes, QuietTypes DEF IInv
<1>2. Onward /\ ledger' = ledger
  BY Unwritten DEF IInv, Unwriting
<1>3. /\ RequestsKept' /\ TabsKept' /\ OthersRun(w)
      /\ work'[w] # None => work'[w].stage \in {"arrived", "remember"}
  BY <1>1, <1>2, ConcludeKeeps DEF IInv, Kept
<1> QED
  BY <1>1, <1>3, WorkerKeeps

LEMMA QuietProceed ==
    ASSUME IInv, NEW w \in Workers, work[w] # None, NEW r \in Request, Proceed(w, r),
           r.by = work[w].by, r.op \in {work[w].op, "undo"}, RequestFits(r, doc, ledger),
           r.stage = "commit" /\ lost = 0 => ReadCurrent(r, doc, approved),
           Unwriting, CountersTyped'
    PROVE  IInv'
PROOF
<1>1. TypeOK'
  BY ProceedTypes, QuietTypes DEF IInv
<1>2. Onward /\ UNCHANGED <<doc, ledger, approved>>
  BY Unwritten DEF IInv, Unwriting
<1>3. RequestsKept' /\ TabsKept' /\ OthersRun(w) /\ work'[w] = r
  BY <1>1, <1>2, ProceedKeeps DEF IInv, Kept
<1> QED
  BY <1>1, <1>2, <1>3, WorkerKeeps

LEMMA SteadyCounters ==
    ASSUME TypeOK, UNCHANGED <<key, tries, faults>>
    PROVE  CountersTyped'
BY DEF TypeOK, CountersTyped

LEMMA FaultCounters ==
    ASSUME TypeOK, Fault, UNCHANGED <<key, tries>>
    PROVE  CountersTyped'
BY EntryAssumption DEF TypeOK, CountersTyped, Fault

LEMMA LookUpKeeps == ASSUME IInv, NEW w \in Workers, LookUp(w) PROVE IInv'
PROOF
<1> DEFINE r == work[w]
<1>1. /\ r \in Request /\ r # None /\ RequestFits(r, doc, ledger) /\ r.op = "deliver" /\ r.by \in Vouchers
      /\ r.saw \in Row /\ r.stage = "arrived"
  BY DEF IInv, TypeOK, Kept, RequestsKept, LookUp, At, RequestFits, Request
<1>2. Unwriting /\ CountersTyped'
  BY SteadyCounters DEF IInv, LookUp, server, Unwriting
<1>3. CASE Answer(w, key[r.by], "duplicate")
  <2>1. AnswerTrue(w, key[r.by], "duplicate")
    BY <1>1 DEF AnswerTrue
  <2>2. key[r.by] \in Docs \cup {None} /\ "duplicate" \in Result
    BY <1>1 DEF IInv, TypeOK, Result
  <2> QED
    BY <1>1, <1>2, <1>3, <2>1, <2>2, QuietAnswer
<1>4. ASSUME NEW d \in Docs, doc[d].by = r.by, Live(doc[d].status), Proceed(w, Ahead(r, d, "remember", r.saw))
      PROVE  IInv'
  <2> DEFINE q == Ahead(r, d, "remember", r.saw)
  <2>1. q \in Request
    BY <1>1, RequestTypes DEF Stage
  <2>2. q.op = "deliver" /\ q.by = r.by /\ q.doc = d /\ q.stage = "remember"
    BY <1>1 DEF Ahead
  <2>3. RequestFits(q, doc, ledger)
    BY <1>1, <1>4, <2>2, EntryAssumption DEF RequestFits, Live
  <2> QED
    BY <1>1, <1>2, <1>4, <2>1, <2>2, <2>3, QuietProceed
<1>5. CASE Proceed(w, Ahead(r, None, "insert", r.saw))
  <2> DEFINE q == Ahead(r, None, "insert", r.saw)
  <2>1. q \in Request
    BY <1>1, RequestTypes DEF Stage
  <2>2. q.op = "deliver" /\ q.by = r.by /\ q.doc = None /\ q.stage = "insert"
    BY <1>1 DEF Ahead
  <2>3. RequestFits(q, doc, ledger)
    BY <1>1, <2>2 DEF RequestFits
  <2> QED
    BY <1>1, <1>2, <1>5, <2>1, <2>2, <2>3, QuietProceed
<1> QED
  BY <1>3, <1>4, <1>5 DEF LookUp

LEMMA RememberKeeps == ASSUME IInv, NEW w \in Workers, Remember(w) PROVE IInv'
PROOF
<1>1. /\ work[w] \in Request /\ work[w] # None /\ work[w].op = "deliver" /\ work[w].by \in Vouchers
      /\ work[w].doc \in Docs \cup {None}
  BY DEF IInv, TypeOK, Kept, RequestsKept, Remember, At, RequestFits, Request
<1>2. CountersTyped'
  BY <1>1 DEF IInv, TypeOK, CountersTyped, Remember
<1>3. AnswerTrue(w, work[w].doc, "ok") /\ "ok" \in Result
  BY <1>1 DEF AnswerTrue, Result
<1>4. Unwriting
  BY DEF Remember, Unwriting
<1> QED
  BY <1>1, <1>2, <1>3, <1>4, QuietAnswer DEF Remember

\* The read, and the checks that allow the write.
LEMMA ReadKeeps == ASSUME IInv, NEW w \in Workers, Read(w) PROVE IInv'
PROOF
<1> DEFINE r == work[w]
           row == doc[r.doc]
<1>1. /\ r \in Request /\ r # None /\ RequestFits(r, doc, ledger) /\ r.doc \in Docs /\ r.doc # None
      /\ row \in Row /\ r.stage = "arrived"
  BY DEF IInv, TypeOK, Kept, RequestsKept, Read, At, Request
<1>2. Unwriting /\ CountersTyped'
  BY SteadyCounters DEF IInv, Read, server, Unwriting
<1>3. CASE AlreadyDone(r.op, row.status)
  <2>1. Conclude(w, Undoing(r, "undone", "duplicate"))
    BY <1>3 DEF Read
  <2>2. Undoing(r, "undone", "duplicate") \in Result
    BY DEF Undoing, Result
  <2>3. r.op = "post" => Moved(ledger, r.doc, "physical") # {}
    BY <1>1, <1>3 DEF AlreadyDone, IInv, Kept, PostedMoved
  <2> QED
    BY <1>1, <1>2, <2>1, <2>2, <2>3, QuietConclude
<1>4. CASE ~AlreadyDone(r.op, row.status) /\ (~Accepts(r.op, row.status) \/ NeedsApproval(r, row.status))
  <2>1. Conclude(w, Undoing(r, "unresolved", "refused"))
    BY <1>4 DEF Read
  <2>2. Undoing(r, "unresolved", "refused") \in Result \ {"ok", "duplicate"}
    BY DEF Undoing, Result
  <2> QED
    BY <1>1, <1>2, <2>1, <2>2, QuietConclude
<1>5. CASE Accepts(r.op, row.status) /\ ~NeedsApproval(r, row.status) /\ Proceed(w, Ahead(r, r.doc, "commit", row))
  <2> DEFINE q == Ahead(r, r.doc, "commit", row)
  <2>1. q \in Request
    BY <1>1, RequestTypes DEF Stage
  <2>2. q.op = r.op /\ q.by = r.by /\ q.doc = r.doc /\ q.stage = "commit" /\ q.saw = row
    BY DEF Ahead
  <2>3. row.gen <= row.gen
    BY <1>1, EntryAssumption DEF Row
  <2>4. RequestFits(q, doc, ledger)
    BY <1>1, <1>5, <2>2, <2>3 DEF RequestFits, NeedsApproval
  <2>5. lost = 0 => ReadCurrent(q, doc, approved)
    BY <1>1, <2>2 DEF IInv, Current, ReadCurrent, ApprovalFits
  <2> QED
    BY <1>1, <1>2, <1>5, <2>1, <2>2, <2>4, <2>5, QuietProceed
<1> QED
  BY <1>3, <1>4, <1>5 DEF Read

LEMMA PostFailsKeeps == ASSUME IInv, NEW w \in Workers, PostFails(w) PROVE IInv'
PROOF
<1> DEFINE r == work[w]
<1>1. /\ r \in Request /\ r # None /\ RequestFits(r, doc, ledger) /\ r.stage = "commit" /\ r.doc \in Docs /\ r.doc # None
      /\ r.op \in {"post", "deliver"} /\ r.saw \in Row
  BY DEF IInv, TypeOK, Kept, RequestsKept, PostFails, At, Request, RequestFits
<1>2. Unwriting /\ CountersTyped'
  BY SteadyCounters DEF IInv, PostFails, server, Unwriting
<1> DEFINE q == Ahead(r, r.doc, "failing", r.saw)
<1>3. Proceed(w, q)
  BY DEF PostFails
<1>4. q \in Request
  BY <1>1, RequestTypes DEF Stage
<1>5. q.op = r.op /\ q.by = r.by /\ q.doc = r.doc /\ q.stage = "failing" /\ q.saw = r.saw
  BY DEF Ahead
<1>6. RequestFits(q, doc, ledger)
  BY <1>1, <1>5 DEF RequestFits
<1> QED
  BY <1>1, <1>2, <1>3, <1>4, <1>5, <1>6, QuietProceed

LEMMA BooksAnswersKeeps == ASSUME IInv, NEW w \in Workers, BooksAnswers(w) PROVE IInv'
PROOF
<1> DEFINE r == work[w]
<1>1. /\ r \in Request /\ r # None /\ RequestFits(r, doc, ledger) /\ r.stage = "books" /\ r.doc \in Docs /\ r.doc # None
      /\ r.op \in {"post", "deliver"} /\ r.by \in Tabs \cup Vouchers
  BY DEF IInv, TypeOK, Kept, RequestsKept, BooksAnswers, At, Request, RequestFits
<1>2. Unwriting /\ CountersTyped'
  BY SteadyCounters DEF IInv, BooksAnswers, server, Unwriting
<1>3. CASE Conclude(w, "ok")
  <2>1. Moved(ledger, r.doc, "physical") # {} /\ "ok" \in Result
    BY <1>1 DEF RequestFits, Result
  <2> QED
    BY <1>1, <1>2, <1>3, <2>1, QuietConclude
<1>4. CASE Proceed(w, NewRequest("undo", r.by, r.doc))
  <2> DEFINE q == NewRequest("undo", r.by, r.doc)
  <2>1. q \in Request
    BY <1>1, RequestTypes DEF Ops
  <2>2. q.op = "undo" /\ q.by = r.by /\ q.doc = r.doc /\ q.stage = "arrived"
    BY DEF NewRequest
  <2>3. RequestFits(q, doc, ledger)
    BY <1>1, <2>2 DEF RequestFits
  <2> QED
    BY <1>1, <1>2, <1>4, <2>1, <2>2, <2>3, QuietProceed
<1> QED
  BY <1>3, <1>4 DEF BooksAnswers

LEMMA ReverseFailsKeeps == ASSUME IInv, NEW w \in Workers, ReverseFails(w) PROVE IInv'
PROOF
<1>1. work[w] # None /\ work[w].doc \in Docs
  BY DEF IInv, TypeOK, Kept, RequestsKept, ReverseFails, At, Request, RequestFits
<1>2. Unwriting /\ CountersTyped'
  BY SteadyCounters DEF IInv, ReverseFails, server, Unwriting
<1>3. Undoing(work[w], "unresolved", "error") \in Result \ {"ok", "duplicate"}
  BY DEF Undoing, Result
<1> QED
  BY <1>1, <1>2, <1>3, QuietConclude DEF ReverseFails

LEMMA CrashKeeps == ASSUME IInv, NEW w \in Workers, Crash(w) PROVE IInv'
PROOF
<1>1. Unwriting /\ CountersTyped'
  BY FaultCounters DEF IInv, Crash, server, Unwriting
<1>2. AnswerTrue(w, None, "error") /\ "error" \in Result
  BY DEF AnswerTrue, Result
<1> QED
  BY <1>1, <1>2, QuietAnswer DEF Crash

\* A tab stops waiting; its request may never have arrived.
LEMMA GiveUpKeeps == ASSUME IInv, NEW t \in Tabs, GiveUp(t) PROVE IInv'
PROOF
<1> DEFINE w == sent[t].call
<1>1. w \in Workers /\ w # None /\ work[w] # None /\ TabFits(screen[t], sent[t], work, doc, ledger, t)
  BY DEF IInv, TypeOK, Sent, Kept, TabsKept, GiveUp, TabFits
<1>2. Unwriting /\ CountersTyped' /\ UNCHANGED screen
  BY FaultCounters DEF IInv, GiveUp, server, Unwriting
<1>3. sent' = [sent EXCEPT ![t] = Free] /\ Free \in Sent /\ Free.call = None
  BY DEF GiveUp, Free, Waiting, Sent, Status
<1>4. OthersRun(w) /\ work'[w] \in {work[w], None}
  BY <1>1 DEF GiveUp, OthersRun, IInv, TypeOK
<1>5. work' \in [Workers -> Request \cup {None}]
  BY <1>1 DEF GiveUp, IInv, TypeOK
<1>6. TypeOK'
  BY <1>2, <1>3, <1>5, QuietTypes DEF RequestsTyped, IInv, TypeOK
<1>7. Onward /\ UNCHANGED <<doc, ledger, approved>>
  BY <1>2, Unwritten DEF IInv, Unwriting
<1>8. RequestsKept'
  BY <1>1, <1>4, <1>6, <1>7, RequestsStay DEF IInv, Kept, RequestsKept
<1>9. ASSUME NEW u \in Tabs
      PROVE  TabFits(screen'[u], sent'[u], work', doc', ledger', u)
  <2>1. TabFits(screen[u], sent[u], work, doc, ledger, u)
    BY DEF IInv, Kept, TabsKept
  <2>2. CASE u = t
    <3>1. sent'[u].call = None /\ screen'[u] = screen[u]
      BY <1>2, <1>3, <2>2 DEF IInv, TypeOK
    <3> QED
      BY <1>7, <2>1, <3>1 DEF TabFits
  <2>3. CASE u # t
    <3>1. UNCHANGED <<screen[u], sent[u]>>
      BY <1>2, <1>3, <2>3 DEF IInv, TypeOK
    <3>2. ~Waits(u, w)
      BY <1>1, <2>1, <2>3 DEF TabFits, Waits
    <3>3. TypeOK
      BY DEF IInv
    <3> HIDE DEF w
    <3> QED
      BY <1>1, <1>4, <1>6, <1>7, <2>1, <3>1, <3>2, <3>3, OtherTabStays
  <2> QED
    BY <2>2, <2>3
<1>10. work'[w] # None /\ work'[w].stage = "commit" /\ lost = 0 => ReadCurrent(work'[w], doc', approved')
  BY <1>1, <1>4, <1>7 DEF IInv, Current, ReadsKept
<1> QED
  BY <1>1, <1>2, <1>4, <1>6, <1>8, <1>9, <1>10, WorkerKeeps DEF TabsKept

LEMMA SendVoucherKeeps == ASSUME IInv, NEW v \in Vouchers, NEW w \in Workers, SendVoucher(v, w) PROVE IInv'
PROOF
<1> DEFINE r == NewRequest("deliver", v, None)
<1>1. r \in Request /\ r # None
  BY RequestTypes, NoneAssumption DEF Ops
<1>2. r.op = "deliver" /\ r.by = v /\ r.doc = None /\ r.stage = "arrived"
  BY DEF NewRequest
<1>3. work[w] = None /\ OthersRun(w) /\ work'[w] = r /\ work' \in [Workers -> Request \cup {None}]
  BY <1>1 DEF SendVoucher, OthersRun, IInv, TypeOK
<1>4. Unwriting /\ UNCHANGED <<screen, sent, key, faults>>
  BY DEF SendVoucher, server, tab, Unwriting
<1>5. tries' \in [Vouchers -> 0..MaxTries]
  BY EntryAssumption DEF SendVoucher, IInv, TypeOK
<1>6. TypeOK'
  BY <1>3, <1>4, <1>5, QuietTypes DEF RequestsTyped, CountersTyped, IInv, TypeOK
<1>7. Onward /\ UNCHANGED <<doc, ledger, approved>>
  BY <1>4, Unwritten DEF IInv, Unwriting
<1>8. RequestFits(r, doc', ledger')
  BY <1>2 DEF RequestFits
<1>9. RequestsKept'
  BY <1>3, <1>6, <1>7, <1>8, RequestsStay DEF IInv, Kept
<1>10. ASSUME NEW u \in Tabs
       PROVE  TabFits(screen'[u], sent'[u], work', doc', ledger', u)
  <2>1. TabFits(screen[u], sent[u], work, doc, ledger, u)
    BY DEF IInv, Kept, TabsKept
  <2>2. ~Waits(u, w) /\ UNCHANGED <<screen[u], sent[u]>>
    BY <1>3, <1>4, <2>1, EntryAssumption DEF TabFits, Waits
  <2> QED
    BY <1>3, <1>6, <1>7, <2>1, <2>2, OtherTabStays DEF IInv
<1>11. TabsKept'
  BY <1>10 DEF TabsKept
<1> QED
  BY <1>2, <1>3, <1>4, <1>6, <1>9, <1>11, WorkerKeeps

-----------------------------------------------------------------------------
(* Steps that write one document.                                          *)

\* Every other document, its movements and its approval are left alone.
RowWritten(d) ==
    /\ UNCHANGED approvalRequired
    /\ ledger \subseteq ledger'
    /\ \A e \in Docs \ {d} :
          /\ doc'[e] = doc[e] /\ approved'[e] = approved[e]
          /\ \A k \in {"physical", "reversal"} : Moved(ledger', e, k) = Moved(ledger, e, k)

RowOnward(d) ==
    /\ doc'[d].status # "none"
    /\ doc[d].status # "none" => doc'[d].by = doc[d].by /\ doc[d].gen <= doc'[d].gen

RowUnique(d) ==
    /\ Live(doc'[d].status) => SourceFree(doc'[d].by, d)
    /\ doc'[d].status = "POSTED" => Moved(ledger', d, "physical") # {}

RowCurrent(d) ==
    /\ StockFits(d, doc', ledger')
    /\ ApprovalFits(d, doc', ledger', approved')
    /\ doc[d].status \in {"POSTED", "REVERSED"} => doc'[d].status \in {"POSTED", "REVERSED"}
    /\ doc[d].status # "none" /\ approved[d] = doc[d].gen /\ doc'[d].gen = doc[d].gen => approved'[d] = approved[d]

LEMMA RowMovesOn ==
    ASSUME TypeOK, NEW d \in Docs, RowWritten(d), RowOnward(d)
    PROVE  Onward
PROOF
<1>1. \A e \in Docs : doc[e].gen <= doc[e].gen
  BY RowTypes, EntryAssumption
<1> QED
  BY <1>1 DEF RowWritten, RowOnward, Onward

LEMMA OneRowKeeps ==
    ASSUME IInv, TypeOK', NEW d \in Docs, RowWritten(d), RowOnward(d), RowUnique(d),
           lost' = 0 => lost = 0 /\ RowCurrent(d),
           NEW w \in Workers, OthersRun(w), work'[w] # None => work'[w].stage # "commit",
           RequestsKept', TabsKept'
    PROVE  IInv'
PROOF
<1>1. Onward
  BY RowMovesOn DEF IInv
<1>2. SourceUnique(doc)'
  <2>1. SourceUnique(doc) /\ \A e \in Docs \ {d} : doc'[e] = doc[e]
    BY DEF IInv, Kept, RowWritten
  <2> QED
    BY <2>1 DEF SourceUnique, RowUnique, SourceFree
<1>3. PostedMoved(doc, ledger)'
  <2>1. PostedMoved(doc, ledger) /\ \A e \in Docs \ {d} : doc'[e] = doc[e]
    BY DEF IInv, Kept, RowWritten
  <2>2. \A e \in Docs \ {d} : Moved(ledger', e, "physical") = Moved(ledger, e, "physical")
    BY DEF RowWritten
  <2> QED
    BY <2>1, <2>2 DEF PostedMoved, RowUnique
<1>4. ASSUME lost' = 0
      PROVE  Current'
  <2>1. lost = 0 /\ RowCurrent(d) /\ Current
    BY <1>4 DEF IInv
  <2>2. OnwardCurrent
    BY <2>1 DEF RowCurrent, OnwardCurrent, RowWritten
  <2>3. ReadsKept'
    BY <1>1, <2>1, <2>2, FreshReads DEF IInv, Kept, Current
  <2>4. ASSUME NEW e \in Docs
        PROVE  StockFits(e, doc', ledger') /\ ApprovalFits(e, doc', ledger', approved')
    <3>1. CASE e = d
      BY <2>1, <3>1 DEF RowCurrent
    <3>2. CASE e # d
      <4>1. /\ doc'[e] = doc[e] /\ approved'[e] = approved[e]
            /\ Moved(ledger', e, "physical") = Moved(ledger, e, "physical")
            /\ Moved(ledger', e, "reversal") = Moved(ledger, e, "reversal")
        BY <3>2 DEF RowWritten
      <4>2. StockFits(e, doc, ledger) /\ ApprovalFits(e, doc, ledger, approved)
        BY <2>1 DEF Current
      <4>3. StockFits(e, doc', ledger')
        BY <4>1, <4>2 DEF StockFits, Now
      <4>4. ApprovalFits(e, doc', ledger', approved')
        BY <4>1, <4>2 DEF ApprovalFits
      <4> QED
        BY <4>3, <4>4
    <3> QED
      BY <3>1, <3>2
  <2>5. approvalRequired' = approvalRequired
    BY DEF RowWritten
  <2> QED
    BY <2>3, <2>4, <2>5 DEF Current, ApprovalFits
<1> QED
  BY <1>2, <1>3, <1>4 DEF IInv, Kept

\* The rows of the three ways to write: a new row, another status, an edit.
LEMMA WrittenRow ==
    ASSUME TypeOK, NEW d \in Docs, NEW row, doc' = [doc EXCEPT ![d] = row],
           UNCHANGED <<approvalRequired, ledger>>, \A e \in Docs \ {d} : approved'[e] = approved[e]
    PROVE  doc'[d] = row /\ RowWritten(d)
BY DEF TypeOK, RowWritten

LEMMA WrittenStatus ==
    ASSUME TypeOK, NEW d \in Docs, NEW s, SetStatus(d, s)
    PROVE  /\ doc'[d].status = s /\ doc'[d].gen = doc[d].gen /\ doc'[d].by = doc[d].by
           /\ \A e \in Docs \ {d} : doc'[e] = doc[e]
           /\ doc[d].gen <= doc'[d].gen
PROOF
<1>1. doc[d].gen <= doc[d].gen
  BY RowTypes, EntryAssumption
<1> QED
  BY <1>1 DEF SetStatus, TypeOK

LEMMA InsertKeeps ==
    ASSUME TypeOK, NEW r \in Request, NEW d \in Docs, Insert(r, d),
           UNCHANGED <<approvalRequired, ledger, approved, lost>>,
           r.by \in Vouchers => SourceFree(r.by, d), IInv
    PROVE  /\ doc'[d].status = "DRAFT" /\ doc'[d].by = r.by
           /\ RowWritten(d) /\ RowOnward(d) /\ RowUnique(d) /\ (lost' = 0 => lost = 0 /\ RowCurrent(d))
PROOF
<1>1. doc'[d] = [status |-> "DRAFT", gen |-> 1, by |-> r.by] /\ RowWritten(d)
  BY WrittenRow DEF Insert
<1>2. doc[d].status = "none" /\ doc'[d].status = "DRAFT" /\ doc'[d].by = r.by
  BY <1>1 DEF Insert
<1>3. RowOnward(d) /\ RowUnique(d)
  BY <1>2 DEF RowOnward, RowUnique, SourceFree
<1>4. ASSUME lost = 0
      PROVE  RowCurrent(d)
  <2>1. StockFits(d, doc, ledger)
    BY <1>4 DEF IInv, Current
  <2>2. Moved(ledger', d, "physical") = {} /\ Moved(ledger', d, "reversal") = {}
    BY <1>2, <2>1 DEF StockFits
  <2> QED
    BY <1>2, <2>2 DEF RowCurrent, StockFits, ApprovalFits
<1> QED
  BY <1>1, <1>2, <1>3, <1>4

LEMMA CreateKeeps == ASSUME IInv, NEW w \in Workers, Create(w) PROVE IInv'
PROOF
<1> DEFINE r == work[w]
<1>1. r \in Request /\ r # None /\ r.op = "create" /\ r.by \in Tabs /\ r.by \notin Vouchers
  BY EntryAssumption DEF IInv, TypeOK, Kept, RequestsKept, Create, At, RequestFits
<1>2. PICK d \in Docs : Insert(r, d) /\ Answer(w, d, "ok")
  BY DEF Create
<1>3. TypeOK /\ UNCHANGED <<approvalRequired, ledger, approved, key, lost, tries, faults>>
  BY DEF IInv, Create
<1>4. /\ doc'[d].status = "DRAFT" /\ RowWritten(d) /\ RowOnward(d) /\ RowUnique(d)
      /\ lost' = 0 => lost = 0 /\ RowCurrent(d)
  BY <1>1, <1>2, <1>3, InsertKeeps
<1>5. TypeOK'
  <2>1. RequestsTyped'
    BY <1>1, <1>2, <1>3, AnswerTypes DEF Result
  <2>2. doc' \in [Docs -> Row]
    BY <1>1, <1>2, <1>3, RowTypes
  <2> QED
    BY <1>3, <2>1, <2>2 DEF RequestsTyped, TypeOK
<1>6. Onward
  BY <1>3, <1>4, RowMovesOn
<1>7. AnswerTrue(w, d, "ok")
  BY <1>1, <1>4 DEF AnswerTrue
<1>8. RequestsKept' /\ TabsKept' /\ OthersRun(w) /\ (work'[w] # None => work'[w].stage # "commit")
  BY <1>1, <1>2, <1>3, <1>5, <1>6, <1>7, AnswerKeeps DEF IInv, Kept, Result
<1> QED
  BY <1>4, <1>5, <1>8, OneRowKeeps

LEMMA InsertVoucherKeeps == ASSUME IInv, NEW w \in Workers, InsertVoucher(w) PROVE IInv'
PROOF
<1> DEFINE r == work[w]
<1>1. r \in Request /\ r # None /\ r.op = "deliver" /\ r.by \in Vouchers /\ r.saw \in Row /\ r.stage = "insert"
  BY DEF IInv, TypeOK, Kept, RequestsKept, InsertVoucher, At, RequestFits, Request
<1>2. TypeOK /\ UNCHANGED <<approvalRequired, ledger, approved, key, lost, tries, faults>>
  BY DEF IInv, InsertVoucher
<1>3. ASSUME NEW d \in Docs, SourceFree(r.by, d), Insert(r, d), Proceed(w, Ahead(r, d, "arrived", r.saw))
      PROVE  IInv'
  <2> DEFINE q == Ahead(r, d, "arrived", r.saw)
  <2>1. q \in Request /\ q.op = "deliver" /\ q.by = r.by /\ q.doc = d /\ q.stage = "arrived"
    BY <1>1, RequestTypes DEF Ahead, Stage
  <2>2. /\ doc'[d].status = "DRAFT" /\ doc'[d].by = r.by /\ RowWritten(d) /\ RowOnward(d) /\ RowUnique(d)
        /\ lost' = 0 => lost = 0 /\ RowCurrent(d)
    BY <1>1, <1>2, <1>3, InsertKeeps
  <2>3. TypeOK'
    <3>1. RequestsTyped'
      BY <1>2, <1>3, <2>1, ProceedTypes
    <3>2. doc' \in [Docs -> Row]
      BY <1>1, <1>2, <1>3, RowTypes
    <3> QED
      BY <1>2, <3>1, <3>2 DEF RequestsTyped, TypeOK
  <2>4. Onward
    BY <1>2, <2>2, RowMovesOn
  <2>5. RequestFits(q, doc', ledger')
    BY <1>1, <2>1, <2>2, EntryAssumption DEF RequestFits
  <2>6. RequestsKept' /\ TabsKept' /\ OthersRun(w) /\ work'[w] = q
    BY <1>1, <1>2, <1>3, <2>1, <2>3, <2>4, <2>5, ProceedKeeps DEF IInv, Kept
  <2> QED
    BY <2>1, <2>2, <2>3, <2>6, OneRowKeeps
<1>4. CASE Answer(w, None, "error") /\ UNCHANGED doc
  <2>1. AnswerTrue(w, None, "error") /\ "error" \in Result
    BY DEF AnswerTrue, Result
  <2>2. Unwriting /\ CountersTyped'
    BY <1>2, <1>4, SteadyCounters DEF Unwriting
  <2> QED
    BY <1>1, <1>4, <2>1, <2>2, QuietAnswer
<1> QED
  BY <1>3, <1>4 DEF InsertVoucher

\* A worker about to write: its read allowed the write, and a read of an
\* open document that no write was lost to means that it is open still.
LEMMA AboutToWrite ==
    ASSUME IInv, NEW w \in Workers, At(w, "commit") \/ At(w, "failing")
    PROVE  LET r == work[w] IN
           /\ r \in Request /\ r # None /\ r.doc \in Docs /\ r.doc # None /\ r.saw \in Row
           /\ RequestFits(r, doc, ledger) /\ doc[r.doc].status # "none"
           /\ Accepts(r.op, r.saw.status)
BY DEF IInv, TypeOK, Kept, RequestsKept, At, RequestFits, Request

LEMMA OpenStill ==
    ASSUME IInv, NEW w \in Workers, At(w, "commit"), work[w].op \in {"submit", "approve", "reject", "cancel", "update"},
           Overwrites(w, work[w].op), lost' = 0
    PROVE  /\ lost = 0 /\ doc[work[w].doc].status \notin {"POSTED", "REVERSED"}
           /\ Moved(ledger, work[w].doc, "physical") = {} /\ Moved(ledger, work[w].doc, "reversal") = {}
           /\ work[w].op = "approve" => doc[work[w].doc].gen = work[w].saw.gen
PROOF
<1> DEFINE r == work[w]
<1>1. lost = 0 /\ ~Undoes(r.op, r.saw, doc[r.doc])
  BY OverwriteTypes DEF IInv
<1>2. r.saw.status \in Editable /\ r.doc \in Docs
  BY AboutToWrite DEF Accepts, Editable
<1>3. doc[r.doc].status \notin {"POSTED", "REVERSED"} /\ (r.op = "approve" => doc[r.doc].gen = r.saw.gen)
  BY <1>1, <1>2 DEF Undoes, Editable
<1>4. StockFits(r.doc, doc, ledger)
  BY <1>1, <1>2 DEF IInv, Current
<1> QED
  BY <1>1, <1>3, <1>4 DEF StockFits

\* A write whose worker then answers.
LEMMA ConcludedWrite ==
    ASSUME IInv, NEW w \in Workers, At(w, "commit") \/ At(w, "failing"), NEW res \in Result, Conclude(w, res),
           work[w].op = "post" => res \notin {"ok", "duplicate"},
           doc' \in [Docs -> Row], ledger' \subseteq Movement, approved' \in [Docs -> 0..MaxGen], lost' \in 0..MaxLost,
           UNCHANGED <<approvalRequired, key, tries, faults>>,
           RowWritten(work[w].doc), RowOnward(work[w].doc), RowUnique(work[w].doc),
           lost' = 0 => lost = 0 /\ RowCurrent(work[w].doc)
    PROVE  IInv'
PROOF
<1> DEFINE r == work[w]
<1>1. r # None /\ r.doc \in Docs
  BY AboutToWrite
<1>2. TypeOK'
  <2>1. RequestsTyped'
    BY <1>1, ConcludeTypes DEF IInv
  <2> QED
    BY <2>1 DEF RequestsTyped, IInv, TypeOK
<1>3. Onward
  BY <1>1, RowMovesOn DEF IInv
<1>4. /\ RequestsKept' /\ TabsKept' /\ OthersRun(w)
      /\ work'[w] # None => work'[w].stage \in {"arrived", "remember"}
  BY <1>1, <1>2, <1>3, ConcludeKeeps DEF IInv, Kept
<1> QED
  BY <1>1, <1>2, <1>4, OneRowKeeps

LEMMA TransitionKeeps == ASSUME IInv, NEW w \in Workers, Transition(w) PROVE IInv'
PROOF
<1> DEFINE r == work[w]
           d == r.doc
           s == NextStatus(r.op)
<1>1. /\ At(w, "commit") /\ r.op \in {"submit", "approve", "reject", "cancel"}
      /\ UNCHANGED <<approvalRequired, ledger, key, tries, faults>>
  BY DEF Transition
<1>2. /\ r \in Request /\ r # None /\ d \in Docs /\ r.saw \in Row /\ doc[d].status # "none" /\ TypeOK
      /\ RequestFits(r, doc, ledger)
  BY <1>1, AboutToWrite DEF IInv
<1>3. s \in {"PENDING_APPROVAL", "APPROVED", "DRAFT", "CANCELLED"} /\ s \in Status /\ (s = "APPROVED" <=> r.op = "approve")
  BY <1>1 DEF NextStatus, Status
<1>4. CASE UNCHANGED <<doc, approved, lost>> /\ Conclude(w, "ok")
  <2>1. Unwriting /\ CountersTyped'
    BY <1>1, <1>2, <1>4, SteadyCounters DEF Unwriting
  <2> QED
    BY <1>1, <1>2, <1>4, <2>1, QuietConclude DEF Result
<1>5. CASE /\ Live(s) => SourceFree(doc[d].by, d)
           /\ Overwrites(w, r.op) /\ SetStatus(d, s)
           /\ approved' = IF r.op = "approve" THEN [approved EXCEPT ![d] = r.saw.gen] ELSE approved
           /\ Conclude(w, "ok")
  <2>1. /\ doc'[d].status = s /\ doc'[d].gen = doc[d].gen /\ doc'[d].by = doc[d].by
        /\ \A e \in Docs \ {d} : doc'[e] = doc[e]
        /\ doc[d].gen <= doc'[d].gen
    BY <1>2, <1>5, WrittenStatus
  <2>2. /\ \A e \in Docs \ {d} : approved'[e] = approved[e]
        /\ approved'[d] = IF r.op = "approve" THEN r.saw.gen ELSE approved[d]
        /\ approved' \in [Docs -> 0..MaxGen]
    BY <1>2, <1>5 DEF TypeOK, Row
  <2>3. doc' \in [Docs -> Row] /\ lost' \in 0..MaxLost /\ ledger' \subseteq Movement
    BY <1>1, <1>2, <1>3, <1>5, RowTypes, OverwriteTypes DEF TypeOK
  <2>4. RowWritten(d)
    BY <1>1, <2>1, <2>2 DEF RowWritten
  <2>5. RowOnward(d) /\ RowUnique(d)
    BY <1>2, <1>3, <1>5, <2>1 DEF RowOnward, RowUnique
  <2>6. ASSUME lost' = 0
        PROVE  lost = 0 /\ RowCurrent(d)
    <3>1. /\ lost = 0 /\ doc[d].status \notin {"POSTED", "REVERSED"}
          /\ Moved(ledger, d, "physical") = {} /\ Moved(ledger, d, "reversal") = {}
          /\ r.op = "approve" => doc[d].gen = r.saw.gen
      BY <1>1, <1>5, <2>6, OpenStill
    <3>2. StockFits(d, doc', ledger')
      BY <1>1, <1>3, <2>1, <3>1 DEF StockFits
    <3>3. ApprovalFits(d, doc', ledger', approved')
      BY <1>1, <1>3, <2>1, <2>2, <3>1 DEF ApprovalFits
    <3> QED
      BY <2>1, <2>2, <3>1, <3>2, <3>3 DEF RowCurrent
  <2> QED
    BY <1>1, <1>5, <2>2, <2>3, <2>4, <2>5, <2>6, ConcludedWrite DEF Result
<1> QED
  BY <1>4, <1>5 DEF Transition

LEMMA UpdateKeeps == ASSUME IInv, NEW w \in Workers, Update(w) PROVE IInv'
PROOF
<1> DEFINE r == work[w]
           d == r.doc
           s == StatusAfterEdit(r.saw.status, doc[d].status)
           row == [status |-> s, gen |-> doc[d].gen + 1, by |-> doc[d].by]
<1>1. /\ At(w, "commit") /\ r.op = "update" /\ doc[d].gen < MaxGen
      /\ UNCHANGED <<approvalRequired, ledger, approved, key, tries, faults>>
  BY DEF Update
<1>2. r \in Request /\ r # None /\ d \in Docs /\ doc[d].status # "none" /\ TypeOK
  BY <1>1, AboutToWrite DEF IInv
<1>3. doc[d].gen \in 0..MaxGen /\ doc[d].by \in Tabs \cup Vouchers \cup {None} /\ doc[d].status \in Status
  BY <1>2, RowTypes
<1>4. s \in {"DRAFT", doc[d].status} /\ s \in Status /\ s # "none"
  BY <1>2, <1>3 DEF StatusAfterEdit, Status
<1>5. CASE UNCHANGED <<doc, lost>> /\ Conclude(w, "error")
  <2>1. Unwriting /\ CountersTyped'
    BY <1>1, <1>2, <1>5, SteadyCounters DEF Unwriting
  <2> QED
    BY <1>1, <1>2, <1>5, <2>1, QuietConclude DEF Result
<1>6. CASE /\ Live(s) => SourceFree(doc[d].by, d)
           /\ Overwrites(w, r.op) /\ doc' = [doc EXCEPT ![d] = row] /\ Conclude(w, "ok")
  <2>1. doc'[d] = row /\ RowWritten(d)
    <3> HIDE DEF row
    <3> QED
      BY <1>1, <1>2, <1>6, WrittenRow
  <2>2. doc'[d].status = s /\ doc'[d].gen = doc[d].gen + 1 /\ doc'[d].by = doc[d].by
    BY <2>1
  <2>3. doc[d].gen <= doc[d].gen + 1 /\ doc[d].gen + 1 \in 0..MaxGen /\ doc[d].gen # doc[d].gen + 1
    BY <1>1, <1>3, EntryAssumption
  <2>4. doc' \in [Docs -> Row]
    <3>1. row \in Row
      BY <1>3, <1>4, <2>3 DEF Row
    <3> QED
      BY <1>2, <1>6, <3>1 DEF TypeOK
  <2>5. lost' \in 0..MaxLost /\ ledger' \subseteq Movement /\ approved' \in [Docs -> 0..MaxGen]
    BY <1>1, <1>2, <1>6, OverwriteTypes DEF TypeOK
  <2>6. RowOnward(d)
    BY <1>4, <2>2, <2>3 DEF RowOnward
  <2>7. RowUnique(d)
    <3>1. doc[d].status = "POSTED" => Moved(ledger', d, "physical") # {}
      BY <1>1, <1>2 DEF IInv, Kept, PostedMoved
    <3> QED
      BY <1>4, <1>6, <2>2, <3>1 DEF RowUnique
  <2>8. ASSUME lost' = 0
        PROVE  lost = 0 /\ RowCurrent(d)
    <3>1. /\ lost = 0 /\ doc[d].status \notin {"POSTED", "REVERSED"}
          /\ Moved(ledger, d, "physical") = {} /\ Moved(ledger, d, "reversal") = {}
      BY <1>1, <1>6, <2>8, OpenStill
    <3>2. s # "APPROVED"
      <4>1. ~Undoes("update", r.saw, doc[d])
        BY <1>1, <1>2, <1>6, <2>8, OverwriteTypes
      <4> QED
        BY <4>1 DEF Undoes, StatusAfterEdit
    <3>3. StockFits(d, doc', ledger')
      BY <1>1, <1>4, <2>2, <3>1 DEF StockFits
    <3>4. ApprovalFits(d, doc', ledger', approved')
      BY <1>1, <2>2, <3>1, <3>2 DEF ApprovalFits
    <3> QED
      BY <2>2, <2>3, <3>1, <3>3, <3>4 DEF RowCurrent
  <2> QED
    BY <1>1, <1>6, <2>1, <2>4, <2>5, <2>6, <2>7, <2>8, ConcludedWrite DEF Result
<1> QED
  BY <1>5, <1>6 DEF Update

\* The catch block writes over what was read as open.
LEMMA MarkFailedKeeps == ASSUME IInv, NEW w \in Workers, MarkFailed(w) PROVE IInv'
PROOF
<1> DEFINE r == work[w]
           d == r.doc
<1>1. /\ At(w, "failing") /\ Overwrites(w, "fail") /\ SetStatus(d, "FAILED") /\ Conclude(w, "error")
      /\ UNCHANGED <<approvalRequired, ledger, approved, key, tries, faults>>
  BY DEF MarkFailed
<1>2. /\ r \in Request /\ r # None /\ d \in Docs /\ r.saw \in Row /\ doc[d].status # "none" /\ TypeOK
      /\ r.op \in {"post", "deliver"} /\ Accepts(r.op, r.saw.status)
  BY <1>1, AboutToWrite DEF IInv, At, RequestFits
<1>3. /\ doc'[d].status = "FAILED" /\ doc'[d].gen = doc[d].gen /\ doc'[d].by = doc[d].by
      /\ \A e \in Docs \ {d} : doc'[e] = doc[e]
      /\ doc[d].gen <= doc'[d].gen
  BY <1>1, <1>2, WrittenStatus
<1>4. doc' \in [Docs -> Row] /\ lost' \in 0..MaxLost /\ ledger' \subseteq Movement /\ approved' \in [Docs -> 0..MaxGen]
  BY <1>1, <1>2, RowTypes, OverwriteTypes DEF TypeOK, Status
<1>5. RowWritten(d) /\ RowOnward(d) /\ RowUnique(d)
  BY <1>1, <1>3 DEF RowWritten, RowOnward, RowUnique, Live
<1>6. ASSUME lost' = 0
      PROVE  lost = 0 /\ RowCurrent(d)
  <2>1. lost = 0 /\ ~Undoes("fail", r.saw, doc[d])
    BY <1>1, <1>2, <1>6, OverwriteTypes
  <2>2. r.saw.status \in Editable
    BY <1>2 DEF Accepts, Editable
  <2>3. doc[d].status \notin {"POSTED", "REVERSED"}
    BY <2>1, <2>2 DEF Undoes, Editable
  <2>4. StockFits(d, doc, ledger)
    BY <1>2, <2>1 DEF IInv, Current
  <2> QED
    BY <1>1, <1>3, <2>1, <2>3, <2>4 DEF RowCurrent, StockFits, ApprovalFits
<1> QED
  BY <1>1, <1>2, <1>4, <1>5, <1>6, ConcludedWrite DEF Result

LEMMA PostKeeps == ASSUME IInv, NEW w \in Workers, Post(w) PROVE IInv'
PROOF
<1> DEFINE r == work[w]
           d == r.doc
           move == [doc |-> d, gen |-> r.saw.gen, kind |-> "physical"]
           q == Ahead(r, d, "books", r.saw)
<1>1. /\ At(w, "commit") /\ r.op \in {"post", "deliver"} /\ Unmoved(d, r.saw.gen, "physical") /\ SourceFree(doc[d].by, d)
      /\ Overwrites(w, r.op) /\ SetStatus(d, "POSTED") /\ ledger' = ledger \cup {move} /\ Proceed(w, q)
      /\ UNCHANGED <<approvalRequired, approved, key, tries, faults>>
  BY DEF Post
<1>2. /\ r \in Request /\ r # None /\ d \in Docs /\ d # None /\ r.saw \in Row /\ doc[d].status # "none" /\ TypeOK
      /\ RequestFits(r, doc, ledger) /\ Accepts(r.op, r.saw.status) /\ r.stage = "commit"
  BY <1>1, AboutToWrite DEF IInv, At
<1>3. /\ doc'[d].status = "POSTED" /\ doc'[d].gen = doc[d].gen /\ doc'[d].by = doc[d].by
      /\ \A e \in Docs \ {d} : doc'[e] = doc[e]
      /\ doc[d].gen <= doc'[d].gen
  BY <1>1, <1>2, WrittenStatus
<1>4. move.doc = d /\ move.kind = "physical" /\ move.gen = r.saw.gen /\ move \in Movement
  BY <1>2 DEF Movement, Row
<1>5. /\ Moved(ledger', d, "physical") = Moved(ledger, d, "physical") \cup {move}
      /\ Moved(ledger', d, "reversal") = Moved(ledger, d, "reversal")
      /\ \A e \in Docs \ {d}, k \in {"physical", "reversal"} : Moved(ledger', e, k) = Moved(ledger, e, k)
  <2> HIDE DEF move, d, r
  <2>1. move.doc = d /\ move.kind = "physical"
    BY <1>4
  <2>2. ledger' = ledger \cup {move}
    BY <1>1
  <2>3. Moved(ledger', d, "physical") = Moved(ledger, d, "physical") \cup {move}
    BY <2>1, <2>2 DEF Moved
  <2>4. \A e, k : e # d \/ k # "physical" => Moved(ledger', e, k) = Moved(ledger, e, k)
    BY <2>1, <2>2 DEF Moved
  <2> QED
    BY <2>3, <2>4
<1>6. q \in Request /\ q.op = r.op /\ q.by = r.by /\ q.doc = d /\ q.stage = "books"
  BY <1>2, RequestTypes DEF Ahead, Stage
<1>7. TypeOK'
  <2>1. RequestsTyped'
    BY <1>1, <1>2, <1>6, ProceedTypes
  <2>2. doc' \in [Docs -> Row] /\ lost' \in 0..MaxLost
    BY <1>1, <1>2, RowTypes, OverwriteTypes DEF Status
  <2>3. ledger' \subseteq Movement
    BY <1>1, <1>2, <1>4 DEF TypeOK
  <2> QED
    BY <1>1, <1>2, <2>1, <2>2, <2>3 DEF RequestsTyped, TypeOK
<1>8. RowWritten(d) /\ RowOnward(d) /\ RowUnique(d)
  BY <1>1, <1>3, <1>5 DEF RowWritten, RowOnward, RowUnique
<1>9. Onward
  BY <1>2, <1>8, RowMovesOn
<1>10. RequestFits(q, doc', ledger')
  BY <1>1, <1>2, <1>3, <1>5, <1>6 DEF RequestFits
<1>11. RequestsKept' /\ TabsKept' /\ OthersRun(w) /\ work'[w] = q
  BY <1>1, <1>2, <1>6, <1>7, <1>9, <1>10, ProceedKeeps DEF IInv, Kept
<1>12. ASSUME lost' = 0
       PROVE  lost = 0 /\ RowCurrent(d)
  <2>1. lost = 0 /\ doc[d].gen = r.saw.gen
    BY <1>1, <1>2, <1>12, OverwriteTypes DEF Undoes
  <2>2. StockFits(d, doc, ledger) /\ (r.saw.status = "APPROVED" => approved[d] = r.saw.gen)
    BY <1>2, <2>1 DEF IInv, Current, ReadsKept, ReadCurrent
  <2>3. doc[d].status \notin {"POSTED", "REVERSED"}
    <3>1. Now(d, doc, "physical") \notin ledger
      BY <1>1, <2>1 DEF Unmoved, Now
    <3>2. Moved(ledger, d, "physical") # {Now(d, doc, "physical")}
      BY <3>1 DEF Moved
    <3> QED
      BY <2>2, <3>2 DEF StockFits
  <2>4. Moved(ledger', d, "physical") = {Now(d, doc', "physical")} /\ Moved(ledger', d, "reversal") = {}
    BY <1>3, <1>5, <2>1, <2>2, <2>3 DEF StockFits, Now
  <2>5. approvalRequired /\ doc[d].by \in Tabs => approved[d] = r.saw.gen
    <3>1. ASSUME doc[d].by \in Tabs
          PROVE  r.op = "post"
      BY <1>1, <1>2, <3>1, EntryAssumption DEF RequestFits
    <3> QED
      BY <1>2, <2>2, <3>1 DEF RequestFits
  <2>6. StockFits(d, doc', ledger')
    BY <1>3, <2>4 DEF StockFits
  <2>7. ApprovalFits(d, doc', ledger', approved')
    BY <1>1, <1>3, <2>1, <2>4, <2>5 DEF ApprovalFits, Now
  <2> QED
    BY <1>1, <1>3, <2>1, <2>6, <2>7 DEF RowCurrent
<1> QED
  BY <1>2, <1>6, <1>7, <1>8, <1>11, <1>12, OneRowKeeps

LEMMA ReverseKeeps == ASSUME IInv, NEW w \in Workers, Reverse(w) PROVE IInv'
PROOF
<1> DEFINE r == work[w]
           d == r.doc
           moves == Moved(ledger, d, "physical")
           back == {[doc |-> d, gen |-> m.gen, kind |-> "reversal"] : m \in moves}
           res == Undoing(r, "undone", "ok")
<1>1. /\ At(w, "commit") /\ r.op \in {"reverse", "undo"} /\ \A m \in moves : Unmoved(d, m.gen, "reversal")
      /\ Overwrites(w, r.op) /\ SetStatus(d, "REVERSED") /\ ledger' = ledger \cup back /\ Conclude(w, res)
      /\ UNCHANGED <<approvalRequired, approved, key, tries, faults>>
  BY DEF Reverse, Moved
<1>2. /\ r \in Request /\ r # None /\ d \in Docs /\ d # None /\ r.saw \in Row /\ doc[d].status # "none" /\ TypeOK
      /\ RequestFits(r, doc, ledger) /\ Accepts(r.op, r.saw.status) /\ r.stage = "commit"
  BY <1>1, AboutToWrite DEF IInv, At
<1>3. /\ doc'[d].status = "REVERSED" /\ doc'[d].gen = doc[d].gen /\ doc'[d].by = doc[d].by
      /\ \A e \in Docs \ {d} : doc'[e] = doc[e]
      /\ doc[d].gen <= doc'[d].gen
  BY <1>1, <1>2, WrittenStatus
<1>4. /\ Moved(ledger', d, "reversal") = Moved(ledger, d, "reversal") \cup back
      /\ Moved(ledger', d, "physical") = moves
      /\ \A e \in Docs \ {d}, k \in {"physical", "reversal"} : Moved(ledger', e, k) = Moved(ledger, e, k)
  <2>1. \A m \in back : m.doc = d /\ m.kind = "reversal"
    OBVIOUS
  <2>2. ledger' = ledger \cup back
    BY <1>1
  <2> HIDE DEF back, d, r
  <2>3. Moved(ledger', d, "reversal") = Moved(ledger, d, "reversal") \cup back
    BY <2>1, <2>2 DEF Moved
  <2>4. \A e, k : e # d \/ k # "reversal" => Moved(ledger', e, k) = Moved(ledger, e, k)
    BY <2>1, <2>2 DEF Moved
  <2> QED
    BY <2>3, <2>4
<1>5. ledger' \subseteq Movement
  <2>1. \A m \in moves : m \in Movement
    BY <1>2 DEF Moved, TypeOK
  <2>2. back \subseteq Movement
    BY <1>2, <2>1 DEF Movement
  <2> QED
    BY <1>1, <1>2, <2>2 DEF TypeOK
<1>6. doc' \in [Docs -> Row] /\ lost' \in 0..MaxLost /\ approved' \in [Docs -> 0..MaxGen]
  BY <1>1, <1>2, RowTypes, OverwriteTypes DEF TypeOK, Status
<1>7. RowWritten(d) /\ RowOnward(d) /\ RowUnique(d)
  BY <1>1, <1>3, <1>4 DEF RowWritten, RowOnward, RowUnique, Live
<1>8. ASSUME lost' = 0
      PROVE  lost = 0 /\ RowCurrent(d)
  <2>1. lost = 0
    BY <1>1, <1>2, <1>8, OverwriteTypes
  <2>2. StockFits(d, doc, ledger) /\ ApprovalFits(d, doc, ledger, approved) /\ ReadCurrent(r, doc, approved)
    BY <1>2, <2>1 DEF IInv, Current, ReadsKept
  <2>3. doc[d].status \in {"POSTED", "REVERSED"}
    BY <1>1, <1>2, <2>2 DEF ReadCurrent, Accepts, Editable
  <2>4. moves = {Now(d, doc, "physical")}
    BY <2>2, <2>3 DEF StockFits
  <2>5. back = {Now(d, doc, "reversal")} /\ \A m \in moves : m.gen = doc[d].gen
    <3> HIDE DEF moves
    <3> QED
      BY <2>4 DEF Now
  <2>6. doc[d].status = "POSTED"
    <3>1. Now(d, doc, "reversal") \notin ledger
      <4> HIDE DEF moves
      <4>1. Now(d, doc, "physical") \in moves
        BY <2>4
      <4>2. Unmoved(d, doc[d].gen, "reversal")
        BY <1>1, <2>5, <4>1
      <4> QED
        BY <4>2 DEF Unmoved, Now
    <3>2. Moved(ledger, d, "reversal") # {Now(d, doc, "reversal")}
      BY <3>1 DEF Moved
    <3> QED
      BY <2>2, <2>3, <3>2 DEF StockFits
  <2>7. Moved(ledger', d, "reversal") = {Now(d, doc', "reversal")} /\ Moved(ledger', d, "physical") = {Now(d, doc', "physical")}
    BY <1>3, <1>4, <2>2, <2>4, <2>5, <2>6 DEF StockFits, Now
  <2>8. StockFits(d, doc', ledger')
    BY <1>3, <2>7 DEF StockFits
  <2>9. ApprovalFits(d, doc', ledger', approved')
    BY <1>1, <1>3, <1>4, <2>2 DEF ApprovalFits
  <2> QED
    BY <1>1, <1>3, <2>1, <2>8, <2>9 DEF RowCurrent
<1>9. res \in Result /\ (r.op = "post" => res \notin {"ok", "duplicate"})
  BY <1>1 DEF Undoing, Result
<1> QED
  BY <1>1, <1>5, <1>6, <1>7, <1>8, <1>9, ConcludedWrite

-----------------------------------------------------------------------------
(* The theorems.                                                           *)

LEMMA InitKeeps == Init => IInv
PROOF
<1> SUFFICES ASSUME Init PROVE IInv
  OBVIOUS
<1>1. TypeOK
  <2>1. NoRow \in Row
    BY RequestTypes
  <2>2. Showing("closed", None, "none", "none") \in Screen /\ Free \in Sent
    BY DEF Showing, Screen, Free, Waiting, Sent, Status, Told
  <2>3. 0 \in 0..MaxGen /\ 0 \in 0..MaxTries /\ 0 \in 0..MaxLost /\ 0 \in 0..MaxFaults
    BY EntryAssumption
  <2> QED
    BY <2>1, <2>2, <2>3 DEF Init, TypeOK
<1>2. RequestsKept /\ ReadsKept
  BY DEF Init, RequestsKept, ReadsKept
<1>3. TabsKept
  BY DEF Init, TabsKept, TabFits, Showing, Free, Waiting
<1>4. \A d \in Docs : doc[d].status = "none"
  BY DEF Init, NoRow
<1>5. SourceUnique(doc) /\ PostedMoved(doc, ledger)
  BY <1>4 DEF SourceUnique, PostedMoved, Live
<1>6. \A d \in Docs : Moved(ledger, d, "physical") = {} /\ Moved(ledger, d, "reversal") = {}
  BY DEF Init, Moved
<1>7. \A d \in Docs : StockFits(d, doc, ledger) /\ ApprovalFits(d, doc, ledger, approved)
  BY <1>4, <1>6 DEF StockFits, ApprovalFits
<1> QED
  BY <1>1, <1>2, <1>3, <1>5, <1>7 DEF IInv, Kept, Current

LEMMA StutterKeeps == ASSUME IInv, UNCHANGED vars PROVE IInv'
PROOF
<1>1. TypeOK' /\ Unwriting
  BY DEF IInv, TypeOK, vars, tab, Unwriting
<1>2. RequestsKept' /\ TabsKept' /\ (lost = 0 => ReadsKept')
  BY DEF IInv, Kept, Current, vars, tab, RequestsKept, RequestFits, TabsKept, ReadsKept
<1> QED
  BY <1>1, <1>2, QuietKeeps

LEMMA NextKeeps == IInv /\ [Next]_vars => IInv'
PROOF
<1> SUFFICES ASSUME IInv, [Next]_vars PROVE IInv'
  OBVIOUS
<1>1. ASSUME NEW t \in Tabs, TabStep(t)
      PROVE  IInv'
  BY <1>1, OpenFormKeeps, OpenEditKeeps, LoadPageKeeps, SaveKeeps, ActKeeps, GiveUpKeeps DEF TabStep
<1>2. ASSUME NEW v \in Vouchers, NEW w \in Workers, SendVoucher(v, w)
      PROVE  IInv'
  BY <1>2, SendVoucherKeeps
<1>3. ASSUME NEW w \in Workers, ServerStep(w)
      PROVE  IInv'
  BY <1>3, CreateKeeps, LookUpKeeps, InsertVoucherKeeps, RememberKeeps, ReadKeeps, TransitionKeeps, UpdateKeeps,
     PostKeeps, PostFailsKeeps, MarkFailedKeeps, BooksAnswersKeeps, ReverseKeeps, ReverseFailsKeeps DEF ServerStep
<1>4. ASSUME NEW w \in Workers, Crash(w)
      PROVE  IInv'
  BY <1>4, CrashKeeps
<1>5. CASE UNCHANGED vars
  BY <1>5, StutterKeeps
<1> QED
  BY <1>1, <1>2, <1>3, <1>4, <1>5 DEF Next

(***************************************************************************)
(* The inductive invariant: whatever the tabs, the other product and the   *)
(* workers do, a running request relies on what its read allowed, a tab    *)
(* shows what is so, at most one document of a voucher is live and a       *)
(* posted document has moved its stock; and while no write was lost, every *)
(* document's movements and approval are those of the lines it shows.      *)
(***************************************************************************)
THEOREM Invariant == Spec => []IInv
PROOF
<1> QED
  BY InitKeeps, NextKeeps, PTL DEF Spec

(***************************************************************************)
(* Every variable has its type (DocumentService, DocumentPostingService,   *)
(* DocumentFormPage and DocumentDetailPage).                               *)
(***************************************************************************)
THEOREM TypeCorrect == Spec => []TypeOK
PROOF
<1>1. IInv => TypeOK
  BY DEF IInv
<1> QED
  BY <1>1, Invariant, PTL

\* A tab that says "posted" speaks of a document that moved its stock: post()
\* answers so only after its commit, or of a document it read as posted.
THEOREM ToldPosted == Spec => []ToldPostedMovedStock
PROOF
<1>1. IInv => ToldPostedMovedStock
  BY DEF IInv, Kept, TabsKept, TabFits, ToldPostedMovedStock, Moves, Moved
<1> QED
  BY <1>1, Invariant, PTL

\* What a document holds, counted.
LEMMA StockCounted ==
    ASSUME NEW d, StockFits(d, doc, ledger)
    PROVE  /\ doc[d].status = "POSTED" <=> Holds(d)
           /\ doc[d].status \in {"POSTED", "REVERSED"} <=> Moves(d, "physical") # {}
           /\ \A m \in Moves(d, "physical") : m.gen = doc[d].gen
PROOF
<1> DEFINE phys == Moves(d, "physical")
           back == Moves(d, "reversal")
<1>1. /\ doc[d].status \in {"POSTED", "REVERSED"} => phys = {Now(d, doc, "physical")}
      /\ doc[d].status \notin {"POSTED", "REVERSED"} => phys = {}
      /\ doc[d].status = "REVERSED" => back = {Now(d, doc, "reversal")}
      /\ doc[d].status # "REVERSED" => back = {}
  BY DEF StockFits, Moves, Moved
<1>2. Now(d, doc, "physical").gen = doc[d].gen
  BY DEF Now
<1>3. Holds(d) <=> Cardinality(phys) > Cardinality(back)
  BY DEF Holds
<1> HIDE DEF phys, back
<1>4. CASE doc[d].status = "POSTED"
  <2>1. phys = {Now(d, doc, "physical")} /\ back = {}
    BY <1>1, <1>4
  <2>2. Cardinality(phys) = 1 /\ Cardinality(back) = 0
    BY <2>1, FS_Singleton, FS_EmptySet
  <2>3. Holds(d)
    BY <1>3, <2>2
  <2> QED
    BY <1>2, <1>4, <2>1, <2>3 DEF phys
<1>5. CASE doc[d].status = "REVERSED"
  <2>1. phys = {Now(d, doc, "physical")} /\ back = {Now(d, doc, "reversal")}
    BY <1>1, <1>5
  <2>2. Cardinality(phys) = 1 /\ Cardinality(back) = 1
    BY <2>1, FS_Singleton
  <2>3. ~Holds(d)
    BY <1>3, <2>2
  <2> QED
    BY <1>2, <1>5, <2>1, <2>3 DEF phys
<1>6. CASE doc[d].status \notin {"POSTED", "REVERSED"}
  <2>1. phys = {} /\ back = {}
    BY <1>1, <1>6
  <2>2. Cardinality(phys) = 0 /\ Cardinality(back) = 0
    BY <2>1, FS_EmptySet
  <2>3. ~Holds(d)
    BY <1>3, <2>2
  <2> QED
    BY <1>6, <2>1, <2>3 DEF phys
<1> QED
  BY <1>4, <1>5, <1>6

\* While no write of transition(), update(), post() or reverse() was lost, a
\* document's status says what its stock did.
THEOREM StatusFits == Spec => []StatusMatchesStock
PROOF
<1>1. ASSUME IInv
      PROVE  StatusMatchesStock
  <2>1. lost = 0 => \A d \in Docs : StockFits(d, doc, ledger)
    BY <1>1 DEF IInv, Current
  <2> QED
    BY <2>1, StockCounted DEF StatusMatchesStock
<1> QED
  BY <1>1, Invariant, PTL

\* While no write was lost, what was approved is what an approved document
\* holds and, where approval is required, what a posted one moved.
THEOREM ApprovalCovers == Spec => []ApprovalCoversLines
PROOF
<1>1. ASSUME IInv
      PROVE  ApprovalCoversLines
  <2>1. lost = 0 => \A d \in Docs : ApprovalFits(d, doc, ledger, approved)
    BY <1>1 DEF IInv, Current
  <2> QED
    BY <2>1 DEF ApprovalCoversLines, ApprovalFits, Moves, Moved
<1> QED
  BY <1>1, Invariant, PTL

\* createAndPost() may be called with a voucher any number of times: at most
\* one document of it holds stock while no write was lost.
THEOREM VoucherOnce == Spec => []VoucherMovesOnce
PROOF
<1>1. ASSUME IInv
      PROVE  VoucherMovesOnce
  <2> SUFFICES ASSUME lost = 0, NEW v \in Vouchers
               PROVE  Cardinality({d \in Docs : doc[d].by = v /\ Holds(d)}) <= 1
    BY DEF VoucherMovesOnce
  <2> DEFINE H == {d \in Docs : doc[d].by = v /\ Holds(d)}
  <2>1. \A d \in H : doc[d].status = "POSTED"
    BY <1>1, StockCounted DEF IInv, Current
  <2>2. \A d, e \in H : d = e
    BY <1>1, <2>1 DEF IInv, Kept, SourceUnique, Live
  <2> HIDE DEF H
  <2>3. CASE H = {}
    <3>1. Cardinality(H) = 0
      BY <2>3, FS_EmptySet
    <3> QED
      BY <3>1 DEF H
  <2>4. CASE H # {}
    <3>1. PICK d \in H : H = {d}
      BY <2>2, <2>4
    <3>2. Cardinality(H) = 1
      BY <3>1, FS_Singleton
    <3> QED
      BY <3>2 DEF H
  <2> QED
    BY <2>3, <2>4
<1> QED
  BY <1>1, Invariant, PTL

\* A step that tells no waiting tab that its request was refused.
Calm == \A t \in Tabs : screen'[t].told = "refused" => screen[t].told = "refused" \/ sent[t].call = None

LEMMA AnswerCalm ==
    ASSUME TypeOK, NEW w, NEW d, NEW res, res # "refused", Answer(w, d, res)
    PROVE  Calm
PROOF
<1>1. CASE UNCHANGED tab
  BY <1>1 DEF tab, Calm
<1>2. ASSUME NEW t \in Tabs, FormSaved(t, w, d)
      PROVE  Calm
  BY <1>2 DEF FormSaved, Show, Showing, TypeOK, Calm
<1>3. ASSUME NEW t \in Tabs, TabHears(t, w, work[w], res)
      PROVE  Calm
  <2>1. Message(t, work[w], res) # "refused"
    BY DEF Message
  <2> QED
    BY <1>3, <2>1 DEF TabHears, Show, Showing, TypeOK, Calm
<1> QED
  BY <1>1, <1>2, <1>3 DEF Answer

LEMMA ConcludeCalm ==
    ASSUME TypeOK, NEW w, NEW res, res # "refused", Conclude(w, res)
    PROVE  Calm
BY AnswerCalm DEF Conclude, Proceed, tab, Calm

LEMMA TabCalm == ASSUME TypeOK, NEW t \in Tabs, TabStep(t) PROVE Calm
PROOF
<1>1. CASE OpenForm(t)
  BY <1>1 DEF OpenForm, Show, Showing, TypeOK, Calm
<1>2. CASE OpenEdit(t)
  BY <1>2 DEF OpenEdit, Show, Showing, TypeOK, Calm
<1>3. CASE \E d \in Docs : LoadPage(t, d)
  BY <1>3 DEF LoadPage, Show, Showing, TypeOK, Calm
<1>4. CASE \E w \in Workers, p \in BOOLEAN : Save(t, w, p)
  BY <1>4 DEF Save, Send, Show, Showing, TypeOK, Calm
<1>5. CASE \E w \in Workers, a \in Actions : Act(t, w, a)
  BY <1>5 DEF Act, Send, Show, Showing, TypeOK, Calm
<1>6. CASE GiveUp(t)
  BY <1>6 DEF GiveUp, Calm
<1> QED
  BY <1>1, <1>2, <1>3, <1>4, <1>5, <1>6 DEF TabStep

LEMMA ServerCalm == ASSUME TypeOK, NEW w \in Workers, ServerStep(w), ~Read(w) PROVE Calm
PROOF
<1>1. CASE Create(w)
  BY <1>1, AnswerCalm DEF Create
<1>2. CASE LookUp(w)
  <2>1. CASE Answer(w, key[work[w].by], "duplicate")
    BY <2>1, AnswerCalm
  <2>2. CASE UNCHANGED tab
    BY <2>2 DEF tab, Calm
  <2> QED
    BY <1>2, <2>1, <2>2 DEF LookUp, Proceed
<1>3. CASE InsertVoucher(w)
  <2>1. CASE Answer(w, None, "error")
    BY <2>1, AnswerCalm
  <2>2. CASE UNCHANGED tab
    BY <2>2 DEF tab, Calm
  <2> QED
    BY <1>3, <2>1, <2>2 DEF InsertVoucher, Proceed
<1>4. CASE Remember(w)
  BY <1>4, AnswerCalm DEF Remember
<1>5. CASE Transition(w)
  BY <1>5, ConcludeCalm DEF Transition
<1>6. CASE Update(w)
  BY <1>6, ConcludeCalm DEF Update
<1>7. CASE Post(w)
  BY <1>7 DEF Post, Proceed, tab, Calm
<1>8. CASE PostFails(w)
  BY <1>8 DEF PostFails, Proceed, tab, Calm
<1>9. CASE MarkFailed(w)
  BY <1>9, ConcludeCalm DEF MarkFailed
<1>10. CASE BooksAnswers(w)
  <2>1. CASE UNCHANGED tab
    BY <2>1 DEF tab, Calm
  <2>2. CASE Conclude(w, "ok")
    BY <2>2, ConcludeCalm
  <2> QED
    BY <1>10, <2>1, <2>2 DEF BooksAnswers, Proceed
<1>11. CASE Reverse(w)
  <2>1. Undoing(work[w], "undone", "ok") # "refused"
    BY DEF Undoing
  <2> QED
    BY <1>11, <2>1, ConcludeCalm DEF Reverse
<1>12. CASE ReverseFails(w)
  <2>1. Undoing(work[w], "unresolved", "error") # "refused"
    BY DEF Undoing
  <2> QED
    BY <1>12, <2>1, ConcludeCalm DEF ReverseFails
<1> QED
  BY <1>1, <1>2, <1>3, <1>4, <1>5, <1>6, <1>7, <1>8, <1>9, <1>10, <1>11, <1>12 DEF ServerStep

\* The refusal that is left: the tab's request met another status than the
\* one it was offered for, or an approval that is missing.
Stale(t) ==
    LET r == work[sent[t].call] IN
    sent[t].clicked # doc[r.doc].status \/ NeedsApproval(r, doc[r.doc].status)

LEMMA ReadRefusesStale ==
    ASSUME IInv, NEW w \in Workers, Read(w), NEW t \in Tabs, screen'[t].told = "refused", sent[t].call # None
    PROVE  Stale(t)
PROOF
<1> DEFINE r == work[w]
           row == doc[r.doc]
<1>1. TypeOK /\ r # None /\ r.doc # None /\ RequestFits(r, doc, ledger) /\ r \in Request
  BY DEF IInv, TypeOK, Kept, RequestsKept, Read, At
<1>2. screen[t].told = "none"
  BY DEF IInv, Kept, TabsKept, TabFits
<1>3. ~Calm
  BY <1>2 DEF Calm
<1>4. ~AlreadyDone(r.op, row.status)
  <2>1. Undoing(r, "undone", "duplicate") # "refused"
    BY DEF Undoing
  <2> QED
    BY <1>1, <1>3, <2>1, ConcludeCalm DEF Read
<1>5. ~Accepts(r.op, row.status) \/ NeedsApproval(r, row.status)
  <2>1. UNCHANGED tab => Calm
    BY DEF tab, Calm
  <2> QED
    BY <1>3, <1>4, <2>1 DEF Read, Proceed
<1>6. r.op # "undo" /\ Conclude(w, "refused")
  <2>1. Conclude(w, Undoing(r, "unresolved", "refused"))
    BY <1>4, <1>5 DEF Read
  <2>2. Undoing(r, "unresolved", "refused") = "refused"
    BY <1>1, <1>3, <2>1, ConcludeCalm
  <2> QED
    BY <2>1, <2>2 DEF Undoing
<1>7. Waits(t, w)
  <2>1. Answer(w, r.doc, "refused")
    BY <1>6 DEF Conclude
  <2>2. UNCHANGED tab => Calm
    BY DEF tab, Calm
  <2>3. PICK u \in Tabs : Waits(u, w) /\ TabHears(u, w, r, "refused")
    BY <1>3, <2>1, <2>2 DEF Answer
  <2>4. u # t => screen'[t] = screen[t]
    BY <1>1, <2>3 DEF TabHears, Show, TypeOK
  <2> QED
    BY <1>2, <2>3, <2>4
<1>8. r.by = t /\ (r.op \in Actions \cup {"update"} => Accepts(r.op, sent[t].clicked))
  BY <1>7 DEF IInv, Kept, TabsKept, TabFits, Waits
<1>9. r.op \in Actions \cup {"update"}
  BY <1>1, <1>6, <1>8, EntryAssumption DEF RequestFits, Request, Ops
<1> QED
  BY <1>5, <1>7, <1>8, <1>9 DEF Stale, Waits

\* The server refuses an action a tab offered (actions.ts, STATUS_GATES) only
\* when the document changed status since, or must be approved first.
THEOREM OnlyStale == Spec => OnlyStaleRefused
PROOF
<1> DEFINE A == \A t \in Tabs : screen'[t].told = "refused" /\ sent[t].call # None =>
                    LET r == work[sent[t].call] IN
                    sent[t].clicked # doc[r.doc].status \/ NeedsApproval(r, doc[r.doc].status)
<1>1. ASSUME IInv, Next
      PROVE  A
  <2> SUFFICES ASSUME NEW t \in Tabs, screen'[t].told = "refused", sent[t].call # None
               PROVE  Stale(t)
    BY DEF Stale
  <2>1. ~Calm /\ TypeOK
    BY <1>1 DEF IInv, Kept, TabsKept, TabFits, Calm
  <2>2. PICK w \in Workers : Read(w)
    <3>1. ASSUME NEW v \in Vouchers, NEW w \in Workers, SendVoucher(v, w)
          PROVE  Calm
      BY <3>1 DEF SendVoucher, tab, Calm
    <3>2. ASSUME NEW w \in Workers, Crash(w)
          PROVE  Calm
      BY <2>1, <3>2, AnswerCalm DEF Crash
    <3> QED
      BY <1>1, <2>1, <3>1, <3>2, TabCalm, ServerCalm DEF Next
  <2> QED
    BY <1>1, <2>2, ReadRefusesStale
<1>2. IInv /\ [Next]_vars => [A]_vars
  BY <1>1
<1>3. Spec => [][A]_vars
  BY <1>2, Invariant, PTL DEF Spec
<1> QED
  BY <1>3 DEF OnlyStaleRefused

-----------------------------------------------------------------------------
(* One document per entry.  The documents of a tab, the creates it has       *)
(* under way and the one it may still send are one more than the faults.     *)

Entries(t) == {d \in Docs : doc[d].by = t}
Creating(t) == {w \in Workers : work[w] # None /\ work[w].op = "create" /\ work[w].by = t}
MayCreate(t) == screen[t].doc = None /\ sent[t].call = None

\* A tab without a document waits for nothing but its create.
FormFits(t) ==
    /\ screen[t].view = "closed" => screen[t].doc = None
    /\ sent[t].call # None =>
          /\ screen[t].view # "closed"
          /\ work[sent[t].call].op # "create" => screen[t].doc # None

Counted(t) ==
    /\ IsFiniteSet(Entries(t)) /\ IsFiniteSet(Creating(t))
    /\ Cardinality(Entries(t)) + Cardinality(Creating(t)) + (IF MayCreate(t) THEN 1 ELSE 0) <= 1 + faults

FormsFit == \A t \in Tabs : FormFits(t)
EntriesKept == FormsFit /\ \A t \in Tabs : Counted(t)
EInv == IInv /\ EntriesKept

\* A step that starts nothing, loses an answer, sends a create or carries one out.
StartsNothing(t) ==
    /\ Entries(t)' \subseteq Entries(t) /\ Creating(t)' \subseteq Creating(t)
    /\ (MayCreate(t)' => MayCreate(t)) \/ faults' = faults + 1
    /\ faults <= faults'
Sends(t, w) ==
    /\ Entries(t)' \subseteq Entries(t) /\ Creating(t)' \subseteq Creating(t) \cup {w}
    /\ MayCreate(t) /\ ~MayCreate(t)'
    /\ faults' = faults
CarriesOut(t, w, d) ==
    /\ Entries(t)' \subseteq Entries(t) \cup {d}
    /\ w \in Creating(t) /\ Creating(t)' \subseteq Creating(t) \ {w}
    /\ MayCreate(t)' => MayCreate(t)
    /\ faults' = faults

LEMMA StillCounted ==
    ASSUME TypeOK, TypeOK', NEW t \in Tabs, Counted(t),
           \/ StartsNothing(t)
           \/ \E w \in Workers : Sends(t, w)
           \/ \E w \in Workers, d \in Docs : CarriesOut(t, w, d)
    PROVE  Counted(t)'
PROOF
<1> DEFINE E == Entries(t)
           F == Entries(t)'
           C == Creating(t)
           B == Creating(t)'
<1>1. IsFiniteSet(E) /\ IsFiniteSet(C) /\ Cardinality(E) \in Nat /\ Cardinality(C) \in Nat
  BY FS_CardinalityType DEF Counted
<1>2. faults \in Nat /\ faults' \in Nat
  BY EntryAssumption DEF TypeOK
<1>3. Cardinality(E) + Cardinality(C) + (IF MayCreate(t) THEN 1 ELSE 0) <= 1 + faults
  BY DEF Counted
<1>4. SUFFICES /\ IsFiniteSet(F) /\ IsFiniteSet(B)
               /\ Cardinality(F) + Cardinality(B) + (IF MayCreate(t)' THEN 1 ELSE 0) <= 1 + faults'
  BY DEF Counted
<1>5. CASE StartsNothing(t)
  <2>1. F \subseteq E /\ B \subseteq C
    BY <1>5 DEF StartsNothing
  <2> HIDE DEF E, F, C, B
  <2>2. /\ IsFiniteSet(F) /\ IsFiniteSet(B) /\ Cardinality(F) \in Nat /\ Cardinality(B) \in Nat
        /\ Cardinality(F) <= Cardinality(E) /\ Cardinality(B) <= Cardinality(C)
    BY <1>1, <2>1, FS_Subset, FS_CardinalityType
  <2> QED
    BY <1>1, <1>2, <1>3, <1>5, <2>2 DEF StartsNothing
<1>6. ASSUME NEW w \in Workers, Sends(t, w)
      PROVE  /\ IsFiniteSet(F) /\ IsFiniteSet(B)
             /\ Cardinality(F) + Cardinality(B) + (IF MayCreate(t)' THEN 1 ELSE 0) <= 1 + faults'
  <2>1. F \subseteq E /\ B \subseteq C \cup {w}
    BY <1>6 DEF Sends
  <2> HIDE DEF E, F, C, B
  <2>2. IsFiniteSet(C \cup {w}) /\ Cardinality(C \cup {w}) <= Cardinality(C) + 1 /\ Cardinality(C \cup {w}) \in Nat
    <3>1. IsFiniteSet(C \cup {w}) /\ Cardinality(C \cup {w}) = IF w \in C THEN Cardinality(C) ELSE Cardinality(C) + 1
      BY <1>1, FS_AddElement
    <3> QED
      BY <1>1, <3>1
  <2>3. /\ IsFiniteSet(F) /\ Cardinality(F) \in Nat /\ Cardinality(F) <= Cardinality(E)
        /\ IsFiniteSet(B) /\ Cardinality(B) \in Nat /\ Cardinality(B) <= Cardinality(C \cup {w})
    BY <1>1, <2>1, <2>2, FS_Subset, FS_CardinalityType
  <2> QED
    BY <1>1, <1>2, <1>3, <1>6, <2>2, <2>3 DEF Sends
<1>7. ASSUME NEW w \in Workers, NEW d \in Docs, CarriesOut(t, w, d)
      PROVE  /\ IsFiniteSet(F) /\ IsFiniteSet(B)
             /\ Cardinality(F) + Cardinality(B) + (IF MayCreate(t)' THEN 1 ELSE 0) <= 1 + faults'
  <2>1. F \subseteq E \cup {d} /\ w \in C /\ B \subseteq C \ {w}
    BY <1>7 DEF CarriesOut
  <2> HIDE DEF E, F, C, B
  <2>2. IsFiniteSet(E \cup {d}) /\ Cardinality(E \cup {d}) <= Cardinality(E) + 1 /\ Cardinality(E \cup {d}) \in Nat
    <3>1. IsFiniteSet(E \cup {d}) /\ Cardinality(E \cup {d}) = IF d \in E THEN Cardinality(E) ELSE Cardinality(E) + 1
      BY <1>1, FS_AddElement
    <3> QED
      BY <1>1, <3>1
  <2>3. IsFiniteSet(C \ {w}) /\ Cardinality(C \ {w}) = Cardinality(C) - 1 /\ Cardinality(C \ {w}) \in Nat
    BY <1>1, <2>1, FS_RemoveElement, FS_CardinalityType
  <2>4. /\ IsFiniteSet(F) /\ Cardinality(F) \in Nat /\ Cardinality(F) <= Cardinality(E \cup {d})
        /\ IsFiniteSet(B) /\ Cardinality(B) \in Nat /\ Cardinality(B) <= Cardinality(C \ {w})
    BY <1>1, <2>1, <2>2, <2>3, FS_Subset, FS_CardinalityType
  <2> QED
    BY <1>1, <1>2, <1>3, <1>7, <2>2, <2>3, <2>4 DEF CarriesOut
<1> QED
  BY <1>5, <1>6, <1>7

\* What the end of a request, or its next step, leaves to the tabs.
Begins(t) ==
    /\ FormFits(t)'
    /\ Creating(t)' \subseteq Creating(t)
    /\ MayCreate(t)' => MayCreate(t)

LEMMA AnswerBegins ==
    ASSUME IInv, TypeOK', FormsFit, NEW w \in Workers, work[w] # None, NEW d \in Docs \cup {None}, NEW res \in Result,
           Answer(w, d, res), work[w].op \in {"create", "update"} /\ res = "ok" => d \in Docs,
           NEW t \in Tabs
    PROVE  /\ FormFits(t)'
           /\ Creating(t)' \subseteq Creating(t) \ {w}
           /\ (work[w].op = "create" => res = "ok") => (MayCreate(t)' => MayCreate(t))
PROOF
<1> DEFINE r == work[w]
           G == /\ FormFits(t)'
                /\ Creating(t)' \subseteq Creating(t) \ {w}
                /\ (r.op = "create" => res = "ok") => (MayCreate(t)' => MayCreate(t))
<1>1. TypeOK /\ RequestFits(r, doc, ledger) /\ TabFits(screen[t], sent[t], work, doc, ledger, t) /\ FormFits(t)
  BY DEF IInv, Kept, RequestsKept, TabsKept, FormsFit
<1>2. /\ work \in [Workers -> Request \cup {None}] /\ screen[t] \in Screen /\ sent[t] \in Sent /\ r \in Request
      /\ screen \in [Tabs -> Screen] /\ sent \in [Tabs -> Sent]
  BY <1>1 DEF TypeOK
<1>3. None \notin Docs /\ None \notin Workers /\ w # None
  BY EntryAssumption
<1>4. CASE ~\E u \in Tabs : Waits(u, w)
  <2>1. work' = [work EXCEPT ![w] = None] /\ UNCHANGED tab
    BY <1>4 DEF Answer
  <2>2. Creating(t)' \subseteq Creating(t) \ {w}
    BY <1>2, <2>1 DEF Creating
  <2>3. FormFits(t)' /\ (MayCreate(t)' => MayCreate(t))
    BY <1>1, <1>2, <1>4, <2>1 DEF FormFits, MayCreate, tab, Waits, Sent
  <2> QED
    BY <2>2, <2>3
<1>5. ASSUME NEW u \in Tabs, Waits(u, w), r.op \in {"create", "update"}, res = "ok", FormSaved(u, w, d)
      PROVE  G
  <2>1. d \in Docs
    BY <1>5
  <2>2. work' = [work EXCEPT ![w] = NewRequest("post", u, d)] \/ work' = [work EXCEPT ![w] = None]
    BY <1>5 DEF FormSaved
  <2>3. Creating(t)' \subseteq Creating(t) \ {w}
    BY <1>2, <2>2 DEF Creating, NewRequest
  <2>4. CASE u = t
    <3>1. screen'[t].doc = d /\ screen'[t].view # "closed"
      BY <1>1, <1>2, <1>5, <2>4, <1>3 DEF FormSaved, Show, Showing, SavedId, FormFits, Waits
    <3> QED
      BY <1>3, <2>1, <2>3, <3>1 DEF FormFits, MayCreate
  <2>5. CASE u # t
    <3>1. sent[t].call # w
      BY <1>1, <1>5, <2>5, <1>3 DEF IInv, Kept, TabsKept, TabFits, Waits
    <3>2. screen'[t] = screen[t] /\ sent'[t] = sent[t]
      BY <1>2, <1>5, <2>5 DEF FormSaved, Show
    <3>3. sent[t].call # None => sent[t].call \in Workers /\ work'[sent[t].call] = work[sent[t].call]
      BY <1>2, <2>2, <3>1 DEF Sent
    <3> QED
      BY <1>1, <2>3, <3>2, <3>3 DEF FormFits, MayCreate
  <2> QED
    BY <2>4, <2>5
<1>6. ASSUME NEW u \in Tabs, Waits(u, w), ~(r.op \in {"create", "update"} /\ res = "ok"), TabHears(u, w, r, res)
      PROVE  G
  <2>1. work' = [work EXCEPT ![w] = None]
    BY <1>6 DEF TabHears
  <2>2. Creating(t)' \subseteq Creating(t) \ {w}
    BY <1>2, <2>1 DEF Creating
  <2>3. CASE u = t
    <3>1. sent'[t].call = None
      BY <1>2, <1>6, <2>3 DEF TabHears, Free, Waiting
    <3>2. (screen[t].view # "closed" /\ screen[t].doc # None) \/ r.op = "create"
      BY <1>1, <1>6, <2>3, <1>3 DEF FormFits, Waits
    <3>3. \/ screen'[t].view = "page" /\ screen'[t].doc = r.doc
          \/ screen'[t].view = screen[t].view /\ screen'[t].doc = screen[t].doc
      <4> DEFINE m == Message(t, r, res)
                 s == IF screen[t].view = "form" THEN "none" ELSE screen[t].shown
      <4>1. \/ Show(t, "page", r.doc, s, m)
            \/ Show(t, screen[t].view, screen[t].doc, screen[t].shown, m)
        BY <1>6, <2>3 DEF TabHears
      <4> HIDE DEF m, s, r
      <4> QED
        BY <1>2, <4>1 DEF Show, Showing
    <3>4. r.op # "create" => r.doc # None
      <4>1. r.by = t
        BY <1>1, <1>6, <2>3, <1>3 DEF TabFits, Waits
      <4> QED
        BY <1>1, <4>1, EntryAssumption DEF RequestFits
    <3>5. screen[t].view # "closed"
      BY <1>1, <1>6, <2>3, <1>3 DEF FormFits, Waits
    <3> QED
      BY <1>6, <2>2, <3>1, <3>2, <3>3, <3>4, <3>5 DEF FormFits, MayCreate
  <2>4. CASE u # t
    <3>1. sent[t].call # w
      BY <1>1, <1>6, <2>4, <1>3 DEF IInv, Kept, TabsKept, TabFits, Waits
    <3>2. screen'[t] = screen[t] /\ sent'[t] = sent[t]
      BY <1>2, <1>6, <2>4 DEF TabHears, Show
    <3>3. sent[t].call # None => sent[t].call \in Workers /\ work'[sent[t].call] = work[sent[t].call]
      BY <1>2, <2>1, <3>1 DEF Sent
    <3> QED
      BY <1>1, <2>2, <3>2, <3>3 DEF FormFits, MayCreate
  <2> QED
    BY <2>3, <2>4
<1> QED
  BY <1>4, <1>5, <1>6 DEF Answer

LEMMA ProceedBegins ==
    ASSUME IInv, FormsFit, NEW w \in Workers, work[w] # None, work[w].op # "create",
           NEW r, r.op # "create", Proceed(w, r), NEW t \in Tabs
    PROVE  Begins(t)
PROOF
<1>1. work \in [Workers -> Request \cup {None}] /\ sent[t] \in Sent /\ FormFits(t)
  BY DEF IInv, TypeOK, FormsFit
<1>2. work' = [work EXCEPT ![w] = r] /\ screen' = screen /\ sent' = sent
  BY DEF Proceed, tab
<1>3. Creating(t)' \subseteq Creating(t)
  BY <1>1, <1>2 DEF Creating
<1>4. sent[t].call # None => sent[t].call \in Workers /\ (work'[sent[t].call].op # "create" => work[sent[t].call].op # "create")
  BY <1>1, <1>2 DEF Sent
<1> QED
  BY <1>1, <1>2, <1>3, <1>4 DEF Begins, FormFits, MayCreate

LEMMA ConcludeBegins ==
    ASSUME IInv, TypeOK', FormsFit, NEW w \in Workers, work[w] # None, work[w].op # "create", work[w].doc # None,
           NEW res \in Result, Conclude(w, res), NEW t \in Tabs
    PROVE  Begins(t)
PROOF
<1>1. work[w] \in Request /\ work[w].doc \in Docs
  BY DEF IInv, TypeOK, Request
<1>2. CASE Answer(w, work[w].doc, res)
  BY <1>1, <1>2, AnswerBegins DEF Begins
<1>3. CASE Proceed(w, Ahead(work[w], work[w].doc, "remember", work[w].saw))
  BY <1>3, ProceedBegins DEF Ahead
<1> QED
  BY <1>2, <1>3 DEF Conclude

-----------------------------------------------------------------------------
\* Who entered a document: only an insert says.
OwnersStay == \A d \in Docs : doc'[d].by = doc[d].by

LEMMA BeginsCounts ==
    ASSUME EInv, TypeOK', \A t \in Tabs : Begins(t),
           \A d \in Docs : doc'[d].by = doc[d].by \/ doc'[d].by \in Vouchers,
           faults <= faults'
    PROVE  EntriesKept'
PROOF
<1>1. ASSUME NEW t \in Tabs
      PROVE  FormFits(t)' /\ Counted(t)'
  <2>1. Entries(t)' \subseteq Entries(t)
    BY EntryAssumption DEF Entries
  <2>2. StartsNothing(t)
    BY <2>1 DEF Begins, StartsNothing
  <2> QED
    BY <2>2, StillCounted DEF Begins, EInv, IInv, EntriesKept
<1> QED
  BY <1>1 DEF EntriesKept, FormsFit

LEMMA FaultsStay == ASSUME TypeOK, UNCHANGED faults PROVE faults <= faults'
BY EntryAssumption DEF TypeOK

\* A worker that keeps or concludes its request, and writes no new document.
LEMMA WorkCounts ==
    ASSUME EInv, TypeOK', NEW w \in Workers, work[w] # None, work[w].op # "create",
           \/ work[w].doc # None /\ \E res \in Result : Conclude(w, res)
           \/ \E r : r.op # "create" /\ Proceed(w, r),
           \A d \in Docs : doc'[d].by = doc[d].by \/ doc'[d].by \in Vouchers,
           UNCHANGED faults
    PROVE  EntriesKept'
PROOF
<1>1. IInv /\ FormsFit /\ TypeOK
  BY DEF EInv, IInv, EntriesKept
<1>2. \A t \in Tabs : Begins(t)
  BY <1>1, ConcludeBegins, ProceedBegins
<1> QED
  BY <1>1, <1>2, BeginsCounts, FaultsStay

LEMMA StatusOwners ==
    ASSUME TypeOK, NEW d, NEW s, SetStatus(d, s)
    PROVE  OwnersStay
BY DEF TypeOK, SetStatus, OwnersStay

LEMMA ServerCounts ==
    ASSUME EInv, TypeOK', NEW w \in Workers, ServerStep(w), ~Create(w)
    PROVE  EntriesKept'
PROOF
<1> DEFINE r == work[w]
<1>1. TypeOK /\ IInv /\ FormsFit
  BY DEF EInv, IInv, EntriesKept
<1>2. ASSUME r # None
      PROVE  RequestFits(r, doc, ledger) /\ r \in Request
  BY <1>1, <1>2 DEF IInv, Kept, RequestsKept, TypeOK
<1>3. CASE LookUp(w)
  <2>1. r # None /\ r.op = "deliver" /\ UNCHANGED <<doc, faults>>
    BY <1>3 DEF LookUp, At, server
  <2>2. key[r.by] \in Docs \cup {None} /\ r.by \in Vouchers
    BY <1>1, <1>2, <2>1 DEF RequestFits, TypeOK
  <2>3. ASSUME Answer(w, key[r.by], "duplicate"), NEW t \in Tabs
        PROVE  Begins(t)
    BY <1>1, <2>1, <2>2, <2>3, AnswerBegins DEF Begins, Result
  <2>4. ASSUME NEW d, NEW s, Proceed(w, Ahead(r, d, s, r.saw)), NEW t \in Tabs
        PROVE  Begins(t)
    BY <1>1, <2>1, <2>4, ProceedBegins DEF Ahead
  <2>5. \A t \in Tabs : Begins(t)
    BY <1>3, <2>3, <2>4 DEF LookUp
  <2> QED
    BY <1>1, <2>1, <2>5, BeginsCounts, FaultsStay
<1>4. CASE InsertVoucher(w)
  <2>1. r # None /\ r.op = "deliver" /\ r.by \in Vouchers /\ UNCHANGED faults
    BY <1>2, <1>4 DEF InsertVoucher, At, RequestFits
  <2>2. ASSUME NEW d \in Docs, Insert(r, d), Proceed(w, Ahead(r, d, "arrived", r.saw))
        PROVE  EntriesKept'
    <3>1. \A e \in Docs : doc'[e].by = doc[e].by \/ doc'[e].by \in Vouchers
      BY <1>1, <2>1, <2>2 DEF Insert, TypeOK
    <3> QED
      BY <2>1, <2>2, <3>1, WorkCounts DEF Ahead
  <2>3. ASSUME Answer(w, None, "error"), UNCHANGED doc
        PROVE  EntriesKept'
    <3>1. \A t \in Tabs : Begins(t)
      BY <1>1, <2>1, <2>3, AnswerBegins DEF Begins, Result
    <3> QED
      BY <1>1, <2>1, <2>3, <3>1, BeginsCounts, FaultsStay
  <2> QED
    BY <1>4, <2>2, <2>3 DEF InsertVoucher
<1>5. CASE Remember(w)
  <2>1. r # None /\ r.op = "deliver" /\ UNCHANGED <<doc, faults>> /\ r.doc \in Docs \cup {None}
    BY <1>2, <1>5 DEF Remember, At, RequestFits, Request
  <2>2. \A t \in Tabs : Begins(t)
    BY <1>1, <1>5, <2>1, AnswerBegins DEF Remember, Begins, Result
  <2> QED
    BY <1>1, <2>1, <2>2, BeginsCounts, FaultsStay
<1>6. CASE Read(w)
  <2>1. r # None /\ r.doc # None /\ UNCHANGED <<doc, faults>> /\ r.op # "create"
    BY <1>2, <1>6 DEF Read, At, server, RequestFits
  <2>2. Undoing(r, "undone", "duplicate") \in Result /\ Undoing(r, "unresolved", "refused") \in Result
    BY DEF Undoing, Result
  <2>3. (\E res \in Result : Conclude(w, res)) \/ Proceed(w, Ahead(r, r.doc, "commit", doc[r.doc]))
    BY <1>6, <2>2 DEF Read
  <2>4. Ahead(r, r.doc, "commit", doc[r.doc]).op # "create"
    BY <2>1 DEF Ahead
  <2> QED
    BY <2>1, <2>3, <2>4, WorkCounts
<1>7. CASE Transition(w)
  <2>1. r # None /\ r.doc # None /\ r.op # "create" /\ UNCHANGED faults
    BY <1>2, <1>7 DEF Transition, At, RequestFits
  <2>2. \E res \in Result : Conclude(w, res)
    BY <1>7 DEF Transition, Result
  <2>3. \A d \in Docs : doc'[d].by = doc[d].by
    BY <1>1, <1>7, StatusOwners DEF Transition, OwnersStay
  <2> QED
    BY <2>1, <2>2, <2>3, WorkCounts
<1>8. CASE Update(w)
  <2>1. r # None /\ r.doc # None /\ r.op # "create" /\ UNCHANGED faults
    BY <1>2, <1>8 DEF Update, At, RequestFits
  <2>2. \E res \in Result : Conclude(w, res)
    BY <1>8 DEF Update, Result
  <2>3. \A d \in Docs : doc'[d].by = doc[d].by
    BY <1>1, <1>8 DEF Update, TypeOK
  <2> QED
    BY <2>1, <2>2, <2>3, WorkCounts
<1>9. CASE Post(w)
  <2>1. r # None /\ r.op # "create" /\ UNCHANGED faults
    BY <1>9 DEF Post, At
  <2>2. \A d \in Docs : doc'[d].by = doc[d].by
    BY <1>1, <1>9, StatusOwners DEF Post, OwnersStay
  <2>3. Proceed(w, Ahead(r, r.doc, "books", r.saw)) /\ Ahead(r, r.doc, "books", r.saw).op # "create"
    BY <1>9, <2>1 DEF Post, Ahead
  <2> QED
    BY <2>1, <2>2, <2>3, WorkCounts
<1>10. CASE PostFails(w)
  <2>1. r # None /\ r.doc # None /\ r.op # "create" /\ UNCHANGED <<doc, faults>>
    BY <1>2, <1>10 DEF PostFails, At, server, RequestFits
  <2>2. Proceed(w, Ahead(r, r.doc, "failing", r.saw)) /\ Ahead(r, r.doc, "failing", r.saw).op # "create"
    BY <1>10, <2>1 DEF PostFails, Ahead
  <2> QED
    BY <2>1, <2>2, WorkCounts
<1>11. CASE MarkFailed(w)
  <2>1. r # None /\ r.doc # None /\ r.op # "create" /\ UNCHANGED faults
    BY <1>2, <1>11 DEF MarkFailed, At, RequestFits
  <2>2. \A d \in Docs : doc'[d].by = doc[d].by
    BY <1>1, <1>11, StatusOwners DEF MarkFailed, OwnersStay
  <2>3. Conclude(w, "error") /\ "error" \in Result
    BY <1>11 DEF MarkFailed, Result
  <2> QED
    BY <2>1, <2>2, <2>3, WorkCounts
<1>12. CASE BooksAnswers(w)
  <2>1. r # None /\ r.doc # None /\ r.op # "create" /\ UNCHANGED <<doc, faults>>
    BY <1>2, <1>12 DEF BooksAnswers, At, server, RequestFits
  <2>2. NewRequest("undo", r.by, r.doc).op # "create" /\ "ok" \in Result
    BY DEF NewRequest, Result
  <2> QED
    BY <1>12, <2>1, <2>2, WorkCounts DEF BooksAnswers
<1>13. CASE Reverse(w)
  <2>1. r # None /\ r.doc # None /\ r.op # "create" /\ UNCHANGED faults
    BY <1>2, <1>13 DEF Reverse, At, RequestFits
  <2>2. \A d \in Docs : doc'[d].by = doc[d].by
    BY <1>1, <1>13, StatusOwners DEF Reverse, OwnersStay
  <2>3. Conclude(w, Undoing(r, "undone", "ok")) /\ Undoing(r, "undone", "ok") \in Result
    BY <1>13 DEF Reverse, Undoing, Result
  <2> QED
    BY <2>1, <2>2, <2>3, WorkCounts
<1>14. CASE ReverseFails(w)
  <2>1. r # None /\ r.doc # None /\ r.op # "create" /\ UNCHANGED <<doc, faults>>
    BY <1>2, <1>14 DEF ReverseFails, At, server, RequestFits
  <2>2. Conclude(w, Undoing(r, "unresolved", "error")) /\ Undoing(r, "unresolved", "error") \in Result
    BY <1>14 DEF ReverseFails, Undoing, Result
  <2> QED
    BY <2>1, <2>2, WorkCounts
<1> QED
  BY <1>3, <1>4, <1>5, <1>6, <1>7, <1>8, <1>9, <1>10, <1>11, <1>12, <1>13, <1>14 DEF ServerStep

\* create(): the one step that makes a document of a tab.
LEMMA CreateCounts ==
    ASSUME EInv, TypeOK', NEW w \in Workers, Create(w)
    PROVE  EntriesKept'
PROOF
<1> DEFINE r == work[w]
<1>1. TypeOK /\ IInv /\ FormsFit
  BY DEF EInv, IInv, EntriesKept
<1>2. r # None /\ r.op = "create" /\ UNCHANGED faults
  BY DEF Create, At
<1>3. PICK d \in Docs : Insert(r, d) /\ Answer(w, d, "ok")
  BY DEF Create
<1>4. \A e \in Docs : doc'[e].by = doc[e].by \/ (e = d /\ doc'[e].by = r.by)
  BY <1>1, <1>3 DEF Insert, TypeOK
<1>5. ASSUME NEW t \in Tabs
      PROVE  FormFits(t)' /\ Counted(t)'
  <2>1. FormFits(t)' /\ Creating(t)' \subseteq Creating(t) \ {w} /\ (MayCreate(t)' => MayCreate(t))
    BY <1>1, <1>2, <1>3, AnswerBegins DEF Result
  <2>2. Counted(t)
    BY DEF EInv, EntriesKept
  <2>3. CASE r.by = t
    <3>1. w \in Creating(t)
      BY <1>2, <2>3 DEF Creating
    <3>2. Entries(t)' \subseteq Entries(t) \cup {d}
      BY <1>4 DEF Entries
    <3>3. CarriesOut(t, w, d)
      BY <1>2, <2>1, <3>1, <3>2 DEF CarriesOut
    <3> QED
      BY <1>1, <2>1, <2>2, <3>3, StillCounted
  <2>4. CASE r.by # t
    <3>1. Entries(t)' \subseteq Entries(t)
      BY <1>4, <2>4 DEF Entries
    <3>2. StartsNothing(t)
      BY <1>1, <1>2, <2>1, <3>1, FaultsStay DEF StartsNothing
    <3> QED
      BY <1>1, <2>1, <2>2, <3>2, StillCounted
  <2> QED
    BY <2>3, <2>4
<1> QED
  BY <1>5 DEF EntriesKept, FormsFit

\* An answer that is lost lets the tab create again, and is a fault.
LEMMA CrashCounts ==
    ASSUME EInv, TypeOK', NEW w \in Workers, Crash(w)
    PROVE  EntriesKept'
PROOF
<1>1. TypeOK /\ IInv /\ FormsFit
  BY DEF EInv, IInv, EntriesKept
<1>2. work[w] # None /\ Answer(w, None, "error") /\ UNCHANGED doc /\ faults' = faults + 1 /\ faults <= faults'
  BY <1>1, EntryAssumption DEF Crash, Fault, server, TypeOK
<1>3. ASSUME NEW t \in Tabs
      PROVE  FormFits(t)' /\ Counted(t)'
  <2>1. FormFits(t)' /\ Creating(t)' \subseteq Creating(t)
    BY <1>1, <1>2, AnswerBegins DEF Result
  <2>2. StartsNothing(t)
    BY <1>2, <2>1 DEF StartsNothing, Entries
  <2> QED
    BY <1>1, <2>1, <2>2, StillCounted DEF EInv, EntriesKept
<1> QED
  BY <1>3 DEF EntriesKept, FormsFit

LEMMA GiveUpCounts ==
    ASSUME EInv, TypeOK', NEW u \in Tabs, GiveUp(u)
    PROVE  EntriesKept'
PROOF
<1>1. TypeOK /\ IInv /\ FormsFit
  BY DEF EInv, IInv, EntriesKept
<1>2. /\ UNCHANGED <<doc, screen>> /\ faults' = faults + 1 /\ faults <= faults' /\ sent[u].call # None
      /\ sent' = [sent EXCEPT ![u] = Free]
      /\ work' = [work EXCEPT ![sent[u].call] = None] \/ work' = work
  BY <1>1, EntryAssumption DEF GiveUp, Fault, server, TypeOK
<1>3. ASSUME NEW t \in Tabs
      PROVE  FormFits(t)' /\ Counted(t)'
  <2>1. work \in [Workers -> Request \cup {None}] /\ sent \in [Tabs -> Sent] /\ sent[t] \in Sent /\ FormFits(t)
    BY <1>1 DEF TypeOK, FormsFit
  <2>2. Creating(t)' \subseteq Creating(t)
    BY <1>2, <2>1 DEF Creating
  <2>3. FormFits(t)'
    <3>1. CASE t = u
      <4>1. sent'[t].call = None
        BY <1>2, <2>1, <3>1 DEF Free, Waiting
      <4> QED
        BY <1>2, <2>1, <4>1 DEF FormFits
    <3>2. CASE t # u
      <4>1. sent'[t] = sent[t]
        BY <1>2, <2>1, <3>2
      <4>2. sent[t].call # None => sent[t].call # sent[u].call
        BY <1>1, <1>2, <3>2 DEF IInv, Kept, TabsKept, TabFits
      <4>3. sent[t].call # None => work'[sent[t].call] = work[sent[t].call]
        BY <1>2, <2>1, <4>2 DEF Sent
      <4> QED
        BY <1>2, <2>1, <4>1, <4>3 DEF FormFits
    <3> QED
      BY <3>1, <3>2
  <2>4. StartsNothing(t)
    BY <1>2, <2>2 DEF StartsNothing, Entries
  <2> QED
    BY <1>1, <2>3, <2>4, StillCounted DEF EInv, EntriesKept
<1> QED
  BY <1>3 DEF EntriesKept, FormsFit

\* A tab that only changes what it shows, and keeps or loads its document.
LEMMA ShowCounts ==
    ASSUME EInv, TypeOK', NEW u \in Tabs, NEW v, NEW d, NEW s, NEW m, Show(u, v, d, s, m),
           v # "closed", screen[u].doc = d \/ d # None,
           UNCHANGED <<server, work, sent, tries, faults>>
    PROVE  EntriesKept'
PROOF
<1>1. TypeOK
  BY DEF EInv, IInv
<1>2. ASSUME NEW t \in Tabs
      PROVE  Begins(t)
  <2>1. FormFits(t)
    BY DEF EInv, EntriesKept, FormsFit
  <2>2. Creating(t)' = Creating(t)
    BY DEF Creating
  <2>3. CASE t = u
    <3>1. screen'[t].view = v /\ screen'[t].doc = d
      BY <1>1, <2>3 DEF Show, Showing, TypeOK
    <3> QED
      BY <2>1, <2>2, <2>3, <3>1 DEF Begins, FormFits, MayCreate
  <2>4. CASE t # u
    <3>1. screen'[t] = screen[t]
      BY <1>1, <2>4 DEF Show, TypeOK
    <3> QED
      BY <2>1, <2>2, <3>1 DEF Begins, FormFits, MayCreate
  <2> QED
    BY <2>3, <2>4
<1> QED
  BY <1>1, <1>2, BeginsCounts, FaultsStay DEF server

\* A tab that sends: a create when it has no document, anything else with one.
LEMMA SendCounts ==
    ASSUME EInv, TypeOK', NEW u \in Tabs, NEW w \in Workers, NEW o, NEW busy,
           Send(u, w, NewRequest(o, u, screen[u].doc), busy),
           sent[u].call = None, screen[u].view # "closed",
           o = "create" <=> screen[u].doc = None,
           UNCHANGED <<server, tries, faults>>
    PROVE  EntriesKept'
PROOF
<1>1. TypeOK /\ IInv /\ None \notin Workers
  BY EntryAssumption DEF EInv, IInv
<1>2. /\ work[w] = None /\ work' = [work EXCEPT ![w] = NewRequest(o, u, screen[u].doc)]
      /\ sent' = [sent EXCEPT ![u] = Waiting(busy, w, screen[u].shown)]
      /\ screen' = [screen EXCEPT ![u] = Showing(screen[u].view, screen[u].doc, screen[u].shown, "none")]
      /\ UNCHANGED <<doc, faults>>
  BY DEF Send, Show, server
<1>3. ASSUME NEW t \in Tabs
      PROVE  FormFits(t)' /\ Counted(t)'
  <2>1. work \in [Workers -> Request \cup {None}] /\ sent \in [Tabs -> Sent] /\ screen \in [Tabs -> Screen] /\ sent[t] \in Sent
    BY <1>1 DEF TypeOK
  <2>2. FormFits(t) /\ Counted(t)
    BY DEF EInv, EntriesKept, FormsFit
  <2>3. Entries(t)' = Entries(t)
    BY <1>2 DEF Entries
  <2>4. work'[w].op = o /\ work'[w].by = u
    BY <1>2, <2>1 DEF NewRequest
  <2>5. CASE t = u
    <3>1. sent'[t].call = w /\ screen'[t].doc = screen[t].doc /\ screen'[t].view = screen[t].view
      BY <1>2, <2>1, <2>5 DEF Waiting, Showing
    <3>2. FormFits(t)' /\ ~MayCreate(t)'
      BY <1>1, <2>2, <2>4, <2>5, <3>1 DEF FormFits, MayCreate
    <3>3. CASE o = "create"
      <4>1. Creating(t)' \subseteq Creating(t) \cup {w}
        BY <1>2, <2>1 DEF Creating
      <4>2. Sends(t, w)
        BY <1>2, <2>3, <2>5, <3>2, <3>3, <4>1 DEF Sends, MayCreate
      <4> QED
        BY <1>1, <2>2, <3>2, <4>2, StillCounted
    <3>4. CASE o # "create"
      <4>1. Creating(t)' \subseteq Creating(t)
        BY <1>2, <2>1, <2>4, <3>4 DEF Creating
      <4>2. StartsNothing(t)
        BY <1>1, <1>2, <2>3, <3>2, <4>1, FaultsStay DEF StartsNothing
      <4> QED
        BY <1>1, <2>2, <3>2, <4>2, StillCounted
    <3> QED
      BY <3>3, <3>4
  <2>6. CASE t # u
    <3>1. sent'[t] = sent[t] /\ screen'[t] = screen[t]
      BY <1>2, <2>1, <2>6
    <3>2. Creating(t)' \subseteq Creating(t)
      BY <1>2, <2>1, <2>4, <2>6 DEF Creating
    <3>3. sent[t].call # None => sent[t].call # w /\ sent[t].call \in Workers
      BY <1>1, <1>2, <2>1 DEF IInv, Kept, TabsKept, TabFits, Sent
    <3>4. sent[t].call # None => work'[sent[t].call] = work[sent[t].call]
      BY <1>2, <2>1, <3>3
    <3>5. FormFits(t)' /\ (MayCreate(t)' => MayCreate(t))
      BY <2>2, <3>1, <3>4 DEF FormFits, MayCreate
    <3>6. StartsNothing(t)
      BY <1>1, <1>2, <2>3, <3>2, <3>5, FaultsStay DEF StartsNothing
    <3> QED
      BY <1>1, <2>2, <3>5, <3>6, StillCounted
  <2> QED
    BY <2>5, <2>6
<1> QED
  BY <1>3 DEF EntriesKept, FormsFit

LEMMA TabCounts == ASSUME EInv, TypeOK', NEW t \in Tabs, TabStep(t) PROVE EntriesKept'
PROOF
<1>1. TypeOK /\ TabFits(screen[t], sent[t], work, doc, ledger, t) /\ FormFits(t)
  BY DEF EInv, IInv, Kept, TabsKept, EntriesKept, FormsFit
<1>2. CASE OpenForm(t)
  <2>1. screen[t].doc = None
    BY <1>1, <1>2 DEF OpenForm, FormFits
  <2> QED
    BY <1>2, <2>1, ShowCounts DEF OpenForm
<1>3. CASE OpenEdit(t)
  BY <1>3, ShowCounts DEF OpenEdit
<1>4. ASSUME NEW d \in Docs, LoadPage(t, d)
      PROVE  EntriesKept'
  BY <1>4, ShowCounts, EntryAssumption DEF LoadPage
<1>5. ASSUME NEW w \in Workers, NEW p \in BOOLEAN, Save(t, w, p)
      PROVE  EntriesKept'
  BY <1>5, SendCounts DEF Save, SaveOp
<1>6. ASSUME NEW w \in Workers, NEW a \in Actions, Act(t, w, a)
      PROVE  EntriesKept'
  <2>1. a # "create" /\ screen[t].doc # None
    BY <1>1, <1>6 DEF Act, TabFits, Actions
  <2> QED
    BY <1>6, <2>1, SendCounts DEF Act
<1>7. CASE GiveUp(t)
  BY <1>7, GiveUpCounts
<1> QED
  BY <1>2, <1>3, <1>4, <1>5, <1>6, <1>7 DEF TabStep

LEMMA VoucherCounts ==
    ASSUME EInv, TypeOK', NEW v \in Vouchers, NEW w \in Workers, SendVoucher(v, w)
    PROVE  EntriesKept'
PROOF
<1>1. TypeOK /\ IInv
  BY DEF EInv, IInv
<1>2. /\ work[w] = None /\ work' = [work EXCEPT ![w] = NewRequest("deliver", v, None)]
      /\ UNCHANGED <<doc, screen, sent, faults>>
  BY DEF SendVoucher, server, tab
<1>3. ASSUME NEW t \in Tabs
      PROVE  Begins(t)
  <2>1. work \in [Workers -> Request \cup {None}] /\ sent[t] \in Sent /\ FormFits(t)
    BY <1>1 DEF TypeOK, EInv, EntriesKept, FormsFit
  <2>2. Creating(t)' \subseteq Creating(t)
    BY <1>2, <2>1 DEF Creating, NewRequest
  <2>3. sent[t].call # None => sent[t].call # w /\ sent[t].call \in Workers
    BY <1>1, <1>2, <2>1 DEF IInv, Kept, TabsKept, TabFits, Sent
  <2>4. sent[t].call # None => work'[sent[t].call] = work[sent[t].call]
    BY <1>2, <2>1, <2>3
  <2> QED
    BY <1>2, <2>1, <2>2, <2>4 DEF Begins, FormFits, MayCreate
<1> QED
  BY <1>1, <1>2, <1>3, BeginsCounts, FaultsStay

LEMMA InitCounts == Init => EInv
PROOF
<1> SUFFICES ASSUME Init PROVE EntriesKept
  BY InitKeeps DEF EInv
<1>1. ASSUME NEW t \in Tabs
      PROVE  FormFits(t) /\ Counted(t)
  <2>1. FormFits(t)
    BY <1>1 DEF Init, FormFits, Showing, Free, Waiting
  <2>2. Entries(t) = {} /\ Creating(t) = {}
    BY EntryAssumption DEF Init, Entries, Creating, NoRow
  <2>3. Cardinality(Entries(t)) = 0 /\ Cardinality(Creating(t)) = 0 /\ IsFiniteSet(Entries(t)) /\ IsFiniteSet(Creating(t))
    BY <2>2, FS_EmptySet
  <2>4. faults = 0
    BY DEF Init
  <2> QED
    BY <2>1, <2>3, <2>4 DEF Counted
<1> QED
  BY <1>1 DEF EntriesKept, FormsFit

LEMMA NextCounts == EInv /\ [Next]_vars => EInv'
PROOF
<1> SUFFICES ASSUME EInv, [Next]_vars PROVE EInv'
  OBVIOUS
<1>1. IInv' /\ TypeOK'
  BY NextKeeps DEF EInv, IInv
<1>2. EntriesKept'
  <2>1. CASE UNCHANGED vars
    <3>1. FormsFit'
      BY <2>1 DEF EInv, EntriesKept, FormsFit, FormFits, vars, tab
    <3>2. \A t \in Tabs : Counted(t)'
      BY <2>1 DEF EInv, EntriesKept, Counted, Entries, Creating, MayCreate, vars, tab
    <3> QED
      BY <3>1, <3>2 DEF EntriesKept
  <2> QED
    BY <1>1, <2>1, TabCounts, VoucherCounts, ServerCounts, CreateCounts, CrashCounts DEF Next
<1> QED
  BY <1>1, <1>2 DEF EInv

\* A form whose post is refused, undone or answered with an error saves the
\* same document again (DocumentFormPage, submit()): a tab makes one document
\* and one more for every answer that was lost.
THEOREM OneDocument == Spec => []OneDocumentPerEntry
PROOF
<1>1. ASSUME EInv
      PROVE  OneDocumentPerEntry
  <2>1. ASSUME NEW t \in Tabs
        PROVE  Cardinality(Entries(t)) <= 1 + faults
    <3>1. IsFiniteSet(Entries(t)) /\ Cardinality(Entries(t)) \in Nat /\ Cardinality(Creating(t)) \in Nat /\ faults \in Nat
      BY <1>1, FS_CardinalityType, EntryAssumption DEF EInv, EntriesKept, Counted, IInv, TypeOK
    <3>2. Cardinality(Entries(t)) + Cardinality(Creating(t)) + (IF MayCreate(t) THEN 1 ELSE 0) <= 1 + faults
      BY <1>1 DEF EInv, EntriesKept, Counted
    <3> QED
      BY <3>1, <3>2
  <2> QED
    BY <2>1 DEF OneDocumentPerEntry, Entries
<1> QED
  BY <1>1, InitCounts, NextCounts, PTL DEF Spec
=============================================================================
