---------------------------- MODULE Reservations ----------------------------
(***************************************************************************)
(* Reservations of one item (ReservationService, ReservationsController,   *)
(* the command inventory:expire-reservations), the documents that move the *)
(* same bucket (StockStatusService) and the sales that move the stock on   *)
(* hand.                                                                   *)
(*                                                                         *)
(* A reservation sets a quantity aside in the bucket `reserved` for an     *)
(* order line; it is released, fulfilled, perhaps in parts, or expires.    *)
(* Every handler reads first, then checks the bucket inside a transaction, *)
(* then moves the bucket by a delta and writes the columns it decided on   *)
(* from what it had read.  Nothing is locked between the three, and READ   *)
(* COMMITTED shows each statement what the others have committed by then.  *)
(* lost: such a write has hit something that had changed since.            *)
(*                                                                         *)
(* A reservation is checked against what is on hand and free; a sale only  *)
(* against what is on hand (enforceNegativeStock()), so it may take what   *)
(* is reserved.                                                            *)
(*                                                                         *)
(* An Idempotency-Key only makes a handler answer without doing anything,  *)
(* so requests here carry none.  All quantities are in the base unit and   *)
(* of one warehouse.                                                       *)
(***************************************************************************)
EXTENDS Integers, Sequences, FiniteSets, Functions

CONSTANTS
    Lines,      \* lines of orders, as they name themselves in a reservation
    Holds,      \* RESERVATION documents
    Frees,      \* RESERVATION_RELEASE documents
    Issues,     \* sales a reservation may name
    Procs,      \* requests running at once
    Cron,       \* and the expiry sweep
    Openings,   \* stock the item may start with
    MaxQty,     \* bounds for TLC: quantities,
    MaxRows,    \*   reservations,
    MaxKills,   \*   killed sweeps
    None

ASSUME DocumentsAssumption ==
    /\ Holds \cap Frees = {} /\ (Holds \cup Frees) \cap Issues = {}
    /\ IsFiniteSet(Holds \cup Frees \cup Issues)
ASSUME ProcsAssumption == Cron \notin Procs
ASSUME NoneAssumption == None \notin Lines \cup Holds \cup Frees \cup Issues \cup Int
ASSUME BoundsAssumption == Openings \subseteq Nat /\ {MaxQty, MaxRows, MaxKills} \subseteq Nat

VARIABLES
    rows,       \* inv_reservations, by reservation_id
    lapsed,     \* the reservations whose expires_at has passed
    onhand,     \* on_hand_qty of the item
    bucket,     \* reserved_qty of the item
    status,     \* inv_documents.status
    journal,    \* what the status movements of a document did to the bucket
    moves,      \* the kinds of inv_stock_movements it has
    task,       \* what each request and the sweep are doing
    kills,      \* killed sweeps, for their bound
    told,       \* ghost: what fulfil() answered was issued, by reservation
    raced,      \* ghost: two requests reserved for one line at once
    crossed,    \* ghost: the bucket moved between a check and its write
    strayed,    \* ghost: a reversed document took reservations' movements back
    lost        \* ghost: a write over a row that changed after it was read

stored == <<rows, lapsed, onhand, bucket, status, journal, moves>>
ghosts == <<told, raced, crossed, strayed, lost>>
vars == <<stored, task, kills, ghosts>>

Documents == Holds \cup Frees \cup Issues
OpenStatuses == {"active", "partial"}
Statuses == OpenStatuses \cup {"fulfilled", "released", "expired"}
Row == [line : Lines \cup {None}, qty : Int, done : Int, status : Statuses,
        expires : BOOLEAN, doc : Issues \cup {None}]

\* Idle; a reservation to insert; an update of a reservation, and what a sweep
\* has left to do after it; a document to post, to reverse or to mark as failed.
\* saw is the bucket at the check, None before.
Idle == [op |-> "idle"]
Columns == {"qty", "done", "status", "doc"}
ReserveTask == [op : {"reserve"}, saw : {None} \cup Int, row : Row]
UpdateTask == [op : {"update"}, id : 1..MaxRows, read : Row, take : Int, new : Row,
               columns : SUBSET Columns, issued : Nat,
               rest : SUBSET [id : 1..MaxRows, row : Row], saw : {None} \cup Int]
PostTask == [op : {"post"}, doc : Documents, saw : {None} \cup Int]
StatusTask == [op : {"reverse", "fail"}, doc : Documents]
Task == {Idle} \cup ReserveTask \cup UpdateTask \cup PostTask \cup StatusTask
DocumentStatus == {"DRAFT", "FAILED", "POSTED", "REVERSED"}

(***************************************************************************)
(* Columns have their types; a status is one the column is wide enough for.*)
(***************************************************************************)
TypeOK ==
    /\ rows \in Seq(Row) /\ Len(rows) <= MaxRows
    /\ lapsed \subseteq 1..Len(rows)
    /\ onhand \in Int /\ bucket \in Int
    /\ status \in [Documents -> DocumentStatus]
    /\ journal \in [Documents -> Int] /\ moves \in [Documents -> SUBSET {"physical", "reversal"}]
    /\ task \in [Procs \cup {Cron} -> Task]
    /\ kills \in 0..MaxKills
    /\ told \in [1..MaxRows -> Nat]
    /\ {raced, crossed, strayed, lost} \subseteq BOOLEAN

Init ==
    /\ rows = <<>> /\ lapsed = {} /\ bucket = 0
    /\ onhand \in Openings
    /\ status = [d \in Documents |-> "DRAFT"]
    /\ journal = [d \in Documents |-> 0] /\ moves = [d \in Documents |-> {}]
    /\ task = [p \in Procs \cup {Cron} |-> Idle]
    /\ kills = 0
    /\ told = [i \in 1..MaxRows |-> 0]
    /\ raced = FALSE /\ crossed = FALSE /\ strayed = FALSE /\ lost = FALSE

-----------------------------------------------------------------------------
Ids == DOMAIN rows
IsOpen(r) == r.status \in OpenStatuses
WholeQty(r) == r.qty
OpenQty(r) == r.qty - r.done

\* What a document of its type does to the bucket, and takes from the stock on
\* hand by a movement of its own (one unit each).
Effect(d) == IF d \in Holds THEN 1 ELSE IF d \in Frees THEN -1 ELSE 0
Issued(d) == IF d \in Issues THEN 1 ELSE 0
Moving(d) == IF d \in Issues THEN {"physical"} ELSE {}

\* The movement is journaled on the document a reservation names, if any.
Journaled(d, n) == IF d = None THEN journal ELSE [journal EXCEPT ![d] = @ + n]

Step(p, t) == task' = [task EXCEPT ![p] = t]

-----------------------------------------------------------------------------
(* create(): the guard on the source line, then reserve().                 *)

\* findOpenBySource(); a reservation that names no line is not looked for.
ActiveOnly(line) == line # None /\ \E i \in Ids : rows[i].line = line /\ rows[i].status = "active"
Duplicate(line) == line # None /\ \E i \in Ids : rows[i].line = line /\ IsOpen(rows[i])

Create(p, line, q, expires, d) ==
    /\ task[p] = Idle /\ Len(rows) < MaxRows
    /\ ~Duplicate(line)
    /\ Step(p, [op |-> "reserve", saw |-> None,
                row |-> [line |-> line, qty |-> q, done |-> 0, status |-> "active",
                         expires |-> expires, doc |-> d]])
    /\ raced' = (raced \/ \E o \in Procs : /\ task[o].op = "reserve" /\ line # None
                                           /\ task[o].row.line = line)
    /\ UNCHANGED <<stored, kills, told, crossed, strayed, lost>>

Insert(p) ==
    LET r == task[p].row IN
    /\ task[p].op = "reserve" /\ task[p].saw # None
    /\ Len(rows) < MaxRows
    /\ rows' = Append(rows, r)
    /\ bucket' = bucket + r.qty
    /\ journal' = Journaled(r.doc, r.qty)
    /\ crossed' = (crossed \/ bucket # task[p].saw)
    /\ Step(p, Idle)
    /\ UNCHANGED <<lapsed, onhand, status, moves, kills, told, raced, strayed, lost>>

-----------------------------------------------------------------------------
(* release(), fulfil() and expireDue() read a row and leave applyRelease() *)
(* to take a quantity from the bucket and to write some columns of it.     *)
Update(i, r, take, new, columns, issued, rest) ==
    [op |-> "update", id |-> i, read |-> r, take |-> take, new |-> new, columns |-> columns,
     issued |-> issued, rest |-> rest, saw |-> None]

Closing(r) == IF r.done > 0 THEN "fulfilled" ELSE "released"

Release(p, i, q) ==
    LET r == rows[i]
        full == q = OpenQty(r)
    IN
    /\ task[p] = Idle
    /\ IsOpen(r) /\ q <= OpenQty(r)
    /\ Step(p, Update(i, r, q,
            [r EXCEPT !.status = IF full THEN Closing(r) ELSE r.status, !.qty = IF full THEN r.qty ELSE r.qty - q],
            IF full THEN {"status"} ELSE {"qty"}, 0, {}))
    /\ UNCHANGED <<stored, kills, ghosts>>

\* What leaves the bucket when q of the open quantity is issued.
TakesIssued(open, q, closes) == q
Taken(open, q, closes) == IF closes THEN open ELSE q

LongStanding(closes) == IF closes THEN "fulfilled" ELSE "partially_fulfilled"
Standing(closes) == IF closes THEN "fulfilled" ELSE "partial"

Fulfil(p, i, q, releaseRemainder, d) ==
    LET r == rows[i]
        closes == releaseRemainder \/ q = OpenQty(r)
    IN
    /\ task[p] = Idle
    /\ IsOpen(r) /\ q <= OpenQty(r)
    /\ Step(p, Update(i, r, Taken(OpenQty(r), q, closes),
            [r EXCEPT !.done = r.done + q, !.status = Standing(closes), !.doc = IF d = None THEN r.doc ELSE d],
            IF d = None THEN {"done", "status"} ELSE {"done", "status", "doc"}, q, {}))
    /\ UNCHANGED <<stored, kills, ghosts>>

\* The rows a sweep reads.
IsDue(i) == i \in lapsed /\ IsOpen(rows[i])
ActiveDue == {i \in Ids : i \in lapsed /\ rows[i].status = "active"}
Due == {i \in Ids : IsDue(i)}

\* They are released in the order of their ids, each as the sweep read it.
IsFirst(b, batch) == \A c \in batch : b.id <= c.id

GoOn(p, batch) ==
    \/ batch = {} /\ Step(p, Idle)
    \/ \E b \in batch :
        /\ IsFirst(b, batch)
        /\ Step(p, Update(b.id, b.row, OpenQty(b.row), [b.row EXCEPT !.status = "expired"],
                {"status"}, 0, batch \ {b}))

ExpireDue ==
    /\ task[Cron] = Idle
    /\ Due # {}
    /\ GoOn(Cron, {[id |-> i, row |-> rows[i]] : i \in Due})
    /\ UNCHANGED <<stored, kills, ghosts>>

\* The columns of the UPDATE, over whatever the row holds by then.
Written(r, t) ==
    [line |-> r.line, expires |-> r.expires,
     qty |-> IF "qty" \in t.columns THEN t.new.qty ELSE r.qty,
     done |-> IF "done" \in t.columns THEN t.new.done ELSE r.done,
     status |-> IF "status" \in t.columns THEN t.new.status ELSE r.status,
     doc |-> IF "doc" \in t.columns THEN t.new.doc ELSE r.doc]

ApplyRelease(p) ==
    LET t == task[p]
        n == IF t.take > 0 THEN t.take ELSE 0
    IN
    /\ t.op = "update" /\ t.saw # None
    /\ lost' = (lost \/ rows[t.id] # t.read)
    /\ rows' = [rows EXCEPT ![t.id] = Written(rows[t.id], t)]
    /\ bucket' = bucket - n
    /\ journal' = Journaled(t.read.doc, -n)
    /\ told' = [told EXCEPT ![t.id] = @ + t.issued]
    /\ crossed' = (crossed \/ (n > 0 /\ bucket # t.saw))
    /\ GoOn(p, t.rest)
    /\ UNCHANGED <<lapsed, onhand, status, moves, kills, raced, strayed>>

-----------------------------------------------------------------------------
(* Documents: post() of the three types and reverse().  post() takes the   *)
(* lock of the document's row first; a second post of it is lost or        *)
(* refused with the lock as without, so the lock is left out.              *)
Postable == {"DRAFT", "FAILED"}

PostDocument(p, d) ==
    /\ task[p] = Idle
    /\ status[d] \in Postable
    /\ Step(p, [op |-> "post", doc |-> d, saw |-> None])
    /\ UNCHANGED <<stored, kills, ghosts>>

CommitPost(p) ==
    LET d == task[p].doc IN
    /\ task[p].op = "post" /\ task[p].saw # None
    /\ "physical" \notin moves[d]
    /\ lost' = (lost \/ status[d] \notin Postable)
    /\ status' = [status EXCEPT ![d] = "POSTED"]
    /\ bucket' = bucket + Effect(d)
    /\ journal' = Journaled(d, Effect(d))
    /\ onhand' = onhand - Issued(d)
    /\ moves' = [moves EXCEPT ![d] = @ \cup Moving(d)]
    /\ crossed' = (crossed \/ (Effect(d) # 0 /\ bucket # task[p].saw))
    /\ Step(p, Idle)
    /\ UNCHANGED <<rows, lapsed, kills, told, raced, strayed>>

\* The catch block, after the rollback: over whatever the row holds by then.
MarkFailed(p) ==
    LET d == task[p].doc IN
    /\ task[p].op = "fail"
    /\ lost' = (lost \/ status[d] \notin Postable)
    /\ status' = [status EXCEPT ![d] = "FAILED"]
    /\ Step(p, Idle)
    /\ UNCHANGED <<rows, lapsed, onhand, bucket, journal, moves, kills, told, raced, crossed, strayed>>

ReverseDocument(p, d) ==
    /\ task[p] = Idle
    /\ status[d] = "POSTED"
    /\ Step(p, [op |-> "reverse", doc |-> d])
    /\ UNCHANGED <<stored, kills, ghosts>>

\* Every physical movement of the document is taken back.
NothingBack(d) == 0
PutBack(d) == IF "physical" \in moves[d] THEN Issued(d) ELSE 0

\* With it reverseForDocument(): every movement of the bucket that names the
\* document, unchecked.
CommitReverse(p) ==
    LET d == task[p].doc IN
    /\ task[p].op = "reverse"
    /\ "reversal" \notin moves[d]
    /\ lost' = (lost \/ status[d] # "POSTED")
    /\ status' = [status EXCEPT ![d] = "REVERSED"]
    /\ onhand' = onhand + PutBack(d)
    /\ moves' = [moves EXCEPT ![d] = IF "physical" \in @ THEN @ \cup {"reversal"} ELSE @]
    /\ bucket' = bucket - journal[d]
    /\ strayed' = (strayed \/ journal[d] # Effect(d))
    /\ Step(p, Idle)
    /\ UNCHANGED <<rows, lapsed, journal, kills, told, raced, crossed>>

\* uq_inv_stock_movements_line, for a second post or a second reversal of a sale.
IndexRefuses(p) ==
    LET d == task[p].doc IN
    /\ \/ /\ task[p].op = "post" /\ task[p].saw # None
          /\ "physical" \in moves[d]
          /\ Step(p, [op |-> "fail", doc |-> d])
       \/ task[p].op = "reverse" /\ "reversal" \in moves[d] /\ Step(p, Idle)
    /\ UNCHANGED <<stored, kills, ghosts>>

-----------------------------------------------------------------------------
(* StockStatusService::apply(): the check of the bucket, in a statement of *)
(* its own, and enforceNegativeStock() for a sale.  A refusal rolls back,  *)
(* fails a post and ends a sweep.                                          *)
OnHandAlone(t) ==
    /\ t.op = "reserve" => t.row.qty <= onhand
    /\ t.op = "update" /\ t.take > 0 => bucket >= t.take
    /\ t.op = "post" =>
        /\ t.doc \in Holds \cup Issues => 1 <= onhand
        /\ t.doc \in Frees => bucket >= 1

Suffices(t) ==
    /\ t.op = "reserve" => bucket + t.row.qty <= onhand
    /\ t.op = "update" /\ t.take > 0 => bucket >= t.take
    /\ t.op = "post" =>
        /\ t.doc \in Holds => bucket + 1 <= onhand
        /\ t.doc \in Frees => bucket >= 1
        /\ t.doc \in Issues => 1 <= onhand

\* The policies "allow" and "warn" let a sale through, and so does an override.
MayOverdraw(t) == t.op = "post" /\ t.doc \in Issues

Check(p) ==
    LET t == task[p] IN
    /\ t.op \in {"reserve", "update", "post"} /\ t.saw = None
    /\ \/ (Suffices(t) \/ MayOverdraw(t)) /\ Step(p, [t EXCEPT !.saw = bucket])
       \/ ~Suffices(t) /\ t.op # "post" /\ Step(p, Idle)
       \/ ~Suffices(t) /\ t.op = "post" /\ Step(p, [op |-> "fail", doc |-> t.doc])
    /\ UNCHANGED <<stored, kills, ghosts>>

\* A process dies; what it had not committed is rolled back.
Kill(p) ==
    /\ task[p] # Idle
    /\ p = Cron => kills < MaxKills
    /\ kills' = IF p = Cron THEN kills + 1 ELSE kills
    /\ Step(p, Idle)
    /\ UNCHANGED <<stored, ghosts>>

\* The clock passes expires_at.
Lapse(i) ==
    /\ rows[i].expires /\ i \notin lapsed
    /\ lapsed' = lapsed \cup {i}
    /\ UNCHANGED <<rows, onhand, bucket, status, journal, moves, task, kills, ghosts>>

Qtys == 1..MaxQty

Request(p) ==
    \/ \E line \in Lines \cup {None}, q \in Qtys, e \in BOOLEAN, d \in Issues \cup {None} :
            Create(p, line, q, e, d)
    \/ \E i \in Ids, q \in Qtys :
            \/ Release(p, i, q)
            \/ \E keep \in BOOLEAN, d \in Issues \cup {None} : Fulfil(p, i, q, ~keep, d)
    \/ \E d \in Documents : PostDocument(p, d) \/ ReverseDocument(p, d)
    \/ Insert(p) \/ CommitPost(p) \/ MarkFailed(p) \/ CommitReverse(p) \/ IndexRefuses(p)

Sweep == ExpireDue \/ Check(Cron) \/ ApplyRelease(Cron)

Next ==
    \/ \E p \in Procs : Request(p) \/ Check(p) \/ ApplyRelease(p)
    \/ Sweep
    \/ \E p \in Procs \cup {Cron} : Kill(p)
    \/ \E i \in Ids : Lapse(i)

\* cron starts the sweep every five minutes and it goes on to its end.
Spec == Init /\ [][Next]_vars /\ WF_vars(Sweep)

-----------------------------------------------------------------------------
OpenOf(r) == IF IsOpen(r) THEN OpenQty(r) ELSE 0
Reserved == SumFunction([i \in Ids |-> OpenOf(rows[i])])

PostedEffect(d) == IF status[d] = "POSTED" THEN Effect(d) ELSE 0
Held == SumFunction([d \in Documents |-> PostedEffect(d)])

\* What posted sales have taken.
PostedIssue(d) == IF status[d] = "POSTED" THEN Issued(d) ELSE 0
Sold == SumFunction([d \in Documents |-> PostedIssue(d)])

(***************************************************************************)
(* A reservation holds in the bucket what is open of it, no more and no    *)
(* less, through partial releases, partial fulfilments, expiry, and        *)
(* documents posted and reversed beside it: until an update is lost or a   *)
(* document that a reservation names is reversed.                          *)
(***************************************************************************)
BucketIsReserved == ~lost /\ ~strayed => bucket = Reserved + Held

(***************************************************************************)
(* What fulfil() answered was issued is what the reservation says, and it  *)
(* is never more than was reserved, however parts are released between.    *)
(***************************************************************************)
IssuedWithinReserved ==
    ~lost => \A i \in Ids : rows[i].done = told[i] /\ rows[i].done <= rows[i].qty

(***************************************************************************)
(* "A retried order never reserves the same stock twice": true of retries  *)
(* that do not overlap.                                                    *)
(***************************************************************************)
LineReservedOnce ==
    ~raced /\ ~lost =>
        \A i, j \in Ids :
            rows[i].line = rows[j].line /\ rows[i].line # None /\ IsOpen(rows[i]) /\ IsOpen(rows[j]) => i = j

(***************************************************************************)
(* The bucket is never overdrawn, and what is reserved beyond the stock on *)
(* hand is no more than posted sales have taken: a sale may take reserved  *)
(* stock, and its reversal makes the promise good again.  This as long as  *)
(* no two movements of the bucket cross and no document that moved it is   *)
(* reversed, which is not checked.                                         *)
(***************************************************************************)
ShortOnlyBySales ==
    ~crossed /\ ~lost /\ ~strayed /\ (\A d \in Holds \cup Frees : status[d] # "REVERSED") =>
        bucket \in 0..(onhand + Sold)

(***************************************************************************)
(* A reservation whose time has passed is released, whatever requests do   *)
(* to the rows of the batch meanwhile: unless the bucket no longer covers  *)
(* what is open, and the sweep stops at the first row it cannot release.   *)
(***************************************************************************)
DueIsReleased ==
    \A i \in 1..MaxRows :
        (i \in Ids /\ IsDue(i)) ~> (~(i \in Ids /\ IsDue(i)) \/ bucket < Reserved)
=============================================================================
