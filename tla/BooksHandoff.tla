---------------------------- MODULE BooksHandoff ----------------------------
(***************************************************************************)
(* Posting a stock document and handing its journal to Books.              *)
(*                                                                         *)
(* DocumentPostingService::post() commits the stock movement, an outbox    *)
(* event and a handoff row in one transaction, and only then offers the    *)
(* event to Books.  When Books does not take it the request reverses its   *)
(* own document.  Around that request run: other requests posting or       *)
(* reversing the same document, the every-minute dispatcher with its       *)
(* repair sweep, and the drains that ride on other users' writes.          *)
(*                                                                         *)
(* A step of a process is one transaction, one autocommitted statement or  *)
(* one HTTP exchange: between two of them any other process may run and    *)
(* the PHP worker may be killed.  Documents here move stock (they insert   *)
(* 'physical' rows in inv_stock_movements), so the unique index            *)
(* uq_inv_stock_movements_line guards them; DRAFT stands for every status  *)
(* post() accepts except FAILED.  POSTING is written and overwritten       *)
(* inside one transaction, so no other process ever sees it.               *)
(***************************************************************************)
EXTENDS Naturals, FiniteSets

CONSTANTS
    Docs,           \* inventory documents
    WaitDocs,       \* the ones whose post waits for Books (enabledFor() is true)
    Posters,        \* requests that post a document
    Reversers,      \* requests that reverse a document
    Crons,          \* runs of inventory:outbox-dispatch (every company, with repairs)
    Drains,         \* settleOnContact() riding on somebody's write
    NoDoc, NoRow,   \* "no document yet", "no outbox row in hand"
    MaxDeliveries,  \* delivery attempts before an event is DEAD (20 in the code)
    MaxRepairs,     \* MAX_REPAIR_ATTEMPTS (12 in the code)
    MaxFaults       \* bound on crashes, refused business rules and operator replays

ASSUME ProcsAssumption ==
    /\ WaitDocs \subseteq Docs
    /\ NoDoc \notin Docs
    /\ Posters \cap (Reversers \cup Crons \cup Drains) = {}
    /\ Reversers \cap (Crons \cup Drains) = {}
    /\ Crons \cap Drains = {}

ASSUME BoundsAssumption ==
    /\ MaxDeliveries \in Nat \ {0}
    /\ MaxRepairs \in Nat \ {0}
    /\ MaxFaults \in Nat

Requests == Posters \cup Reversers
Workers == Crons \cup Drains
Procs == Requests \cup Workers

Kinds == {"posted", "reversed"}     \* inventory.document.posted / .reversed

Snapshot == [doc : Docs, kind : Kinds, id : Nat, attempts : Nat]
ASSUME NoRowAssumption == NoRow \notin Snapshot

VARIABLES
    status,     \* inv_documents.status
    physical,   \* number of 'physical' movement rows of the document's line
    reversal,   \* number of compensating rows pointing at it
    event,      \* inv_integration_events, by document and kind
    lastId,     \* the event_id sequence
    handoff,    \* inv_books_journal_handoffs, by document (one posted event each)
    taken,      \* Books: the events it has processed (external)
    pc,         \* where each process is
    target,     \* the document it works on
    batch,      \* outbox rows it has read and not delivered yet
    row,        \* the outbox row it is delivering ($row, as it was read)
    reply,      \* what Books answered to that delivery
    todo,       \* handoff rows the repair sweep has read
    answer,     \* what a request told its user
    faults      \* faults so far

db == <<status, physical, reversal, event, lastId, handoff>>
local == <<pc, target, batch, row, reply, todo, answer>>
vars == <<status, physical, reversal, event, lastId, handoff, taken,
          pc, target, batch, row, reply, todo, answer, faults>>

DocStatus == {"DRAFT", "POSTED", "REVERSED", "FAILED"}
EventStatus == {"none", "PENDING", "FAILED", "ACKED", "DEAD"}
HandoffState == {"none", "AWAITING_BOOKS", "ACCEPTED", "REVERSAL_PENDING", "REVERSED"}
Reply == {"none", "accepted", "refused", "silent"}
Answer == {"none", "duplicate", "rejected", "failed", "queued", "accepted",
           "refused", "unavailable", "unresolved", "reversed"}
Label == {"idle", "apply", "failing", "deliver", "send", "record", "complete",
          "accept", "claim", "rev_read", "rev_tx", "rev_done", "rev_failed",
          "abandon", "repairs", "repair", "done", "dead"}

\* next_attempt_at / next_retry_at: passed, still to come, or not set.
When == {"now", "later", "never"}

EventRow == [status : EventStatus, attempts : Nat, next : When, id : Nat]
HandoffRow == [state : HandoffState, attempts : Nat, next : When]

(***************************************************************************)
(* Every variable has its type: statuses come from the vocabularies the    *)
(* migrations declare, and a process holds rows it really read.            *)
(***************************************************************************)
TypeOK ==
    /\ status \in [Docs -> DocStatus]
    /\ physical \in [Docs -> Nat]
    /\ reversal \in [Docs -> Nat]
    /\ event \in [Docs -> [Kinds -> EventRow]]
    /\ lastId \in Nat
    /\ handoff \in [Docs -> HandoffRow]
    /\ taken \in [Docs -> SUBSET Kinds]
    /\ pc \in [Procs -> Label]
    /\ target \in [Procs -> Docs \cup {NoDoc}]
    /\ batch \in [Procs -> SUBSET Snapshot]
    /\ row \in [Procs -> Snapshot \cup {NoRow}]
    /\ reply \in [Procs -> Reply]
    /\ todo \in [Procs -> SUBSET Docs]
    /\ answer \in [Procs -> Answer]
    /\ faults \in 0..MaxFaults

Init ==
    /\ status = [d \in Docs |-> "DRAFT"]
    /\ physical = [d \in Docs |-> 0]
    /\ reversal = [d \in Docs |-> 0]
    /\ event = [d \in Docs |-> [k \in Kinds |->
                    [status |-> "none", attempts |-> 0, next |-> "never", id |-> 0]]]
    /\ lastId = 0
    /\ handoff = [d \in Docs |-> [state |-> "none", attempts |-> 0, next |-> "never"]]
    /\ taken = [d \in Docs |-> {}]
    /\ pc = [p \in Procs |-> "idle"]
    /\ target = [p \in Procs |-> NoDoc]
    /\ batch = [p \in Procs |-> {}]
    /\ row = [p \in Procs |-> NoRow]
    /\ reply = [p \in Procs |-> "none"]
    /\ todo = [p \in Procs |-> {}]
    /\ answer = [p \in Procs |-> "none"]
    /\ faults = 0

-----------------------------------------------------------------------------
(* Steps of control.                                                       *)

Goto(p, l) == pc' = [pc EXCEPT ![p] = l]

At(p, l) == pc[p] = l

\* A request ends, tells its user the outcome and forgets what it held.
Finish(p, a) ==
    /\ Goto(p, "done")
    /\ answer' = [answer EXCEPT ![p] = a]
    /\ row' = [row EXCEPT ![p] = NoRow]
    /\ reply' = [reply EXCEPT ![p] = "none"]

Continue(p, l) == Goto(p, l) /\ UNCHANGED <<answer, row, reply>>

\* Something outside the happy path happens; there are at most MaxFaults.
Fault == faults < MaxFaults /\ faults' = faults + 1

(***************************************************************************)
(* OutboxService::enqueue(): a PENDING row, due at once, with the next id. *)
(***************************************************************************)
Enqueue(d, k) ==
    /\ lastId' = lastId + 1
    /\ event' = [event EXCEPT ![d][k] =
                    [status |-> "PENDING", attempts |-> 0, next |-> "now", id |-> lastId + 1]]

SetEvent(d, k, s, n, w) ==
    event' = [event EXCEPT ![d][k] = [status |-> s, attempts |-> n, next |-> w, id |-> @.id]]

SetHandoff(d, s, n, w) ==
    handoff' = [handoff EXCEPT ![d] = [state |-> s, attempts |-> n, next |-> w]]

\* transition(): a new state, the attempts as they were.
Transition(d, s, w) == SetHandoff(d, s, handoff[d].attempts, w)

\* uq_inv_stock_movements_line: a line has one physical row, and one reversal
\* of it; the second insert makes PostgreSQL refuse the transaction.
IndexDropped(rows, d) == TRUE
IndexAllows(rows, d) == rows[d] = 0

-----------------------------------------------------------------------------
(* post()                                                                  *)

\* The status is read outside the transaction and without a lock.
PostRead(p, d) ==
    /\ At(p, "idle")
    /\ target' = [target EXCEPT ![p] = d]
    /\ \/ status[d] = "POSTED" /\ Finish(p, "duplicate")
       \/ status[d] = "REVERSED" /\ Finish(p, "rejected")
       \/ status[d] \in {"DRAFT", "FAILED"} /\ Continue(p, "apply")
    /\ UNCHANGED <<db, taken, batch, todo, faults>>

\* BooksJournalHandoffTracker::claim(), inside the document's transaction.
ClaimLater(d) == UNCHANGED handoff
Claim(d) == SetHandoff(d, "AWAITING_BOOKS", 0, "never")

\* The transaction: movements, status, outbox event, handoff claim.
PostCommit(p) ==
    LET d == target[p] IN
    /\ At(p, "apply")
    /\ IndexAllows(physical, d)
    /\ status' = [status EXCEPT ![d] = "POSTED"]
    /\ physical' = [physical EXCEPT ![d] = @ + 1]
    /\ Enqueue(d, "posted")
    /\ IF d \in WaitDocs
       THEN Claim(d) /\ Continue(p, "deliver")
       ELSE Finish(p, "queued") /\ UNCHANGED handoff
    /\ UNCHANGED <<reversal, taken, target, batch, todo, faults>>

\* The transaction rolls back: on the unique index when the line has moved
\* already, or on a business rule (negative stock, a locked period, ...).
PostAbort(p) ==
    /\ At(p, "apply")
    /\ IF IndexAllows(physical, target[p]) THEN Fault ELSE UNCHANGED faults
    /\ Goto(p, "failing")
    /\ UNCHANGED <<db, taken, target, batch, row, reply, todo, answer>>

\* The catch block writes FAILED after the rollback, whatever the row says now.
MarkFailed(p) ==
    /\ At(p, "failing")
    /\ status' = [status EXCEPT ![target[p]] = "FAILED"]
    /\ Finish(p, "failed")
    /\ UNCHANGED <<physical, reversal, event, lastId, handoff, taken, target, batch, todo, faults>>

-----------------------------------------------------------------------------
(* One delivery: deliverNow() for a post, the loop of dispatch() for a     *)
(* worker.  Both send a row as it was read and write back over it.         *)

RowOf(d, k) == [doc |-> d, kind |-> k, id |-> event[d][k].id,
                attempts |-> event[d][k].attempts]

DeliverRead(p) ==
    LET d == target[p] IN
    /\ At(p, "deliver")
    /\ IF event[d]["posted"].status = "ACKED"
       THEN /\ Goto(p, "accept")        \* a dispatcher got there first
            /\ UNCHANGED batch
       ELSE /\ Goto(p, "send")
            /\ batch' = [batch EXCEPT ![p] = {RowOf(d, "posted")}]
    /\ UNCHANGED <<db, taken, target, row, reply, todo, answer, faults>>

\* deliverNow() throws: the row could not be read, nothing was sent, and
\* deliver() reports that Books holds no journal.
DeliverUnread(p) ==
    /\ At(p, "deliver")
    /\ Fault
    /\ reply' = [reply EXCEPT ![p] = "refused"]
    /\ Goto(p, "claim")
    /\ UNCHANGED <<db, taken, target, batch, row, todo, answer>>

\* Books (external).  It takes an event or refuses it; an event it already has
\* is never refused, and any answer may be lost on the way back.
BooksTakes(r, a) ==
    /\ a \in {"accepted", "silent"}
    /\ taken' = [taken EXCEPT ![r.doc] = @ \cup {r.kind}]

BooksDeclines(r, a) ==
    /\ a \in {"refused", "silent"}
    /\ r.kind \notin taken[r.doc]
    /\ UNCHANGED taken

\* The rows of a batch are sent in event_id order.
Send(p) ==
    /\ At(p, "send")
    /\ \E r \in batch[p], a \in Reply :
         /\ \A s \in batch[p] : r.id <= s.id
         /\ BooksTakes(r, a) \/ BooksDeclines(r, a)
         /\ row' = [row EXCEPT ![p] = r]
         /\ batch' = [batch EXCEPT ![p] = @ \ {r}]
         /\ reply' = [reply EXCEPT ![p] = a]
    /\ Goto(p, "record")
    /\ UNCHANGED <<db, target, todo, answer, faults>>

\* deliveryOutcome(): only an answered, applied event is acknowledged.
AcksSilence(a) == a \in {"accepted", "silent"}
Acks(a) == a = "accepted"

\* The attempt count a delivery writes back: one more than the row it read.
SameAttempt(r) == r.attempts
NextAttempt(r) == r.attempts + 1

\* Where a process goes once a row is settled: a post proceeds with its own
\* outcome, a worker takes its next row, a drain stops at the first failure.
AfterRow(p, ok) ==
    LET rest == IF ok \/ p \in Crons THEN batch[p] ELSE {} IN
    IF p \in Posters
    THEN /\ Goto(p, IF ok THEN "accept" ELSE "claim")
         /\ UNCHANGED <<batch, row, reply>>
    ELSE /\ Goto(p, IF rest # {} THEN "send" ELSE IF p \in Crons THEN "repairs" ELSE "idle")
         /\ batch' = [batch EXCEPT ![p] = rest]
         /\ row' = [row EXCEPT ![p] = NoRow]
         /\ reply' = [reply EXCEPT ![p] = "none"]

\* recordDelivery() counts from the row in hand and writes unconditionally.
RecordDelivery(p) ==
    LET r == row[p]
        n == NextAttempt(r)
    IN
    /\ At(p, "record")
    /\ IF Acks(reply[p])
       THEN /\ SetEvent(r.doc, r.kind, "ACKED", n, "never")
            /\ Goto(p, "complete") /\ UNCHANGED <<batch, row, reply>>
       ELSE /\ IF n >= MaxDeliveries
               THEN SetEvent(r.doc, r.kind, "DEAD", n, "never")
               ELSE SetEvent(r.doc, r.kind, "FAILED", n, "later")
            /\ AfterRow(p, FALSE)
    /\ UNCHANGED <<status, physical, reversal, lastId, handoff, taken,
                   target, todo, answer, faults>>

\* The handoff row names the posting event, and waits for no other.
AnyAck(r) == TRUE
IsAwaited(r) == r.kind = "posted"

\* BooksJournalHandoffTracker::completeForEvent(): only out of AWAITING_BOOKS,
\* and only a posted event has a handoff row.
CompleteForEvent(p) ==
    LET d == row[p].doc IN
    /\ At(p, "complete")
    /\ IF IsAwaited(row[p]) /\ handoff[d].state = "AWAITING_BOOKS"
       THEN Transition(d, "ACCEPTED", "never")
       ELSE UNCHANGED handoff
    /\ AfterRow(p, TRUE)
    /\ UNCHANGED <<status, physical, reversal, event, lastId, taken,
                   target, todo, answer, faults>>

\* BooksJournalHandoff::record() and the "accepted" answer of post().
RecordAccepted(p) ==
    /\ At(p, "accept")
    /\ Transition(target[p], "ACCEPTED", "never")
    /\ Finish(p, "accepted")
    /\ UNCHANGED <<status, physical, reversal, event, lastId, taken, target, batch, todo, faults>>

-----------------------------------------------------------------------------
(* Reversal: undoPostBooksWouldNotTake(), the repair sweep, a user.        *)

\* Claimed before the reversal is attempted, over whatever state is there.
ClaimReversal(p) ==
    /\ At(p, "claim")
    /\ Transition(target[p], "REVERSAL_PENDING", "now")
    /\ Goto(p, "rev_read")
    /\ UNCHANGED <<status, physical, reversal, event, lastId, taken,
                   target, batch, row, reply, todo, answer, faults>>

ReverseRequest(p, d) ==
    /\ At(p, "idle")
    /\ target' = [target EXCEPT ![p] = d]
    /\ Goto(p, "rev_read")
    /\ UNCHANGED <<db, taken, batch, row, reply, todo, answer, faults>>

\* A status reverse() takes for "already done".
NotPosted(s) == s # "POSTED"
AlreadyReversed(s) == s = "REVERSED"

\* reverse() reads the status outside its transaction: REVERSED is a duplicate,
\* POSTED goes on unless the period is locked or the packing list was issued.
ReverseRead(p) ==
    LET s == status[target[p]] IN
    /\ At(p, "rev_read")
    /\ \/ AlreadyReversed(s) /\ Goto(p, "rev_done") /\ UNCHANGED faults
       \/ s = "POSTED" /\ Goto(p, "rev_tx") /\ UNCHANGED faults
       \/ s = "POSTED" /\ Goto(p, "rev_failed") /\ Fault
       \/ s # "POSTED" /\ ~AlreadyReversed(s) /\ Goto(p, "rev_failed") /\ UNCHANGED faults
    /\ UNCHANGED <<db, taken, target, batch, row, reply, todo, answer>>

\* The transaction of reverse(): compensating movements (once per movement, by
\* the same unique index), status, outbox event.
ReverseCommit(p) ==
    LET d == target[p] IN
    /\ At(p, "rev_tx")
    /\ IndexAllows(reversal, d)
    /\ status' = [status EXCEPT ![d] = "REVERSED"]
    /\ reversal' = [reversal EXCEPT ![d] = @ + 1]
    /\ Enqueue(d, "reversed")
    /\ Goto(p, "rev_done")
    /\ UNCHANGED <<physical, handoff, taken, target, batch, row, reply, todo, answer, faults>>

ReverseAbort(p) ==
    /\ At(p, "rev_tx")
    /\ IF IndexAllows(reversal, target[p]) THEN Fault ELSE UNCHANGED faults
    /\ Goto(p, "rev_failed")
    /\ UNCHANGED <<db, taken, target, batch, row, reply, todo, answer>>

\* Only an answer that proves Books holds no journal retires the events.
BooksHoldsNoJournal(a) == a = "refused"

\* recordReversed(), or the sweep's own transition to REVERSED.
RecordReversed(p) ==
    /\ At(p, "rev_done")
    /\ IF p \in Reversers THEN UNCHANGED handoff
                          ELSE Transition(target[p], "REVERSED", "never")
    /\ \/ p \in Reversers /\ Finish(p, "reversed")
       \/ p \in Posters /\ BooksHoldsNoJournal(reply[p]) /\ Continue(p, "abandon")
       \/ p \in Posters /\ ~BooksHoldsNoJournal(reply[p]) /\ Finish(p, "unavailable")
       \/ p \in Crons /\ Continue(p, "repair")
    /\ UNCHANGED <<status, physical, reversal, event, lastId, taken, target, batch, todo, faults>>

\* recordFailure(): REVERSAL_PENDING again, whatever the state was, and a back-off.
RecordReversalFailed(p) ==
    LET d == target[p] IN
    /\ At(p, "rev_failed")
    /\ IF p \in Reversers THEN UNCHANGED handoff
       ELSE SetHandoff(d, "REVERSAL_PENDING", handoff[d].attempts + 1, "later")
    /\ \/ p \in Reversers /\ Finish(p, "failed")
       \/ p \in Posters /\ Finish(p, "unresolved")
       \/ p \in Crons /\ Continue(p, "repair")
    /\ UNCHANGED <<status, physical, reversal, event, lastId, taken, target, batch, todo, faults>>

\* The status that takes an event out of the queue for good.
RetiredAsHandoff == "ABANDONED"
Retired == "DEAD"

\* abandonForDocument(): Books answered that it applied nothing.
Abandon(p) ==
    LET d == target[p] IN
    /\ At(p, "abandon")
    /\ event' = [event EXCEPT ![d] = [k \in Kinds |->
                    IF event[d][k].status \in {"PENDING", "FAILED"}
                    THEN [status |-> Retired, attempts |-> event[d][k].attempts,
                          next |-> "never", id |-> event[d][k].id]
                    ELSE event[d][k]]]
    /\ Finish(p, "refused")
    /\ UNCHANGED <<status, physical, reversal, lastId, handoff, taken, target, batch, todo, faults>>

-----------------------------------------------------------------------------
(* dispatch(): a sweep reads every due row once and delivers from memory.  *)

IsDue(e) == e.status \in {"PENDING", "FAILED"} /\ e.next = "now"

DueRows == {r \in {RowOf(d, k) : d \in Docs, k \in Kinds} : IsDue(event[r.doc][r.kind])}

FetchBatch(w) ==
    /\ At(w, "idle")
    /\ w \in Drains => DueRows # {}
    /\ batch' = [batch EXCEPT ![w] = DueRows]
    /\ Goto(w, IF DueRows = {} THEN "repairs" ELSE "send")
    /\ UNCHANGED <<db, taken, target, row, reply, todo, answer, faults>>

\* dueRepairs(): reversals decided on a request that did not finish them.
DueAfterFailure(d) == handoff[d].state = "REVERSAL_PENDING" /\ handoff[d].next = "now"
                      /\ handoff[d].attempts \in 1..(MaxRepairs - 1)
RepairDue(d) == handoff[d].state = "REVERSAL_PENDING" /\ handoff[d].next = "now"
                /\ handoff[d].attempts < MaxRepairs

FetchRepairs(w) ==
    /\ At(w, "repairs")
    /\ todo' = [todo EXCEPT ![w] = {d \in Docs : RepairDue(d)}]
    /\ Goto(w, IF \E d \in Docs : RepairDue(d) THEN "repair" ELSE "idle")
    /\ UNCHANGED <<db, taken, target, batch, row, reply, answer, faults>>

\* settleBooksHandoffs() re-runs the reversal of each row it read.
NextRepair(w) ==
    /\ At(w, "repair")
    /\ IF todo[w] = {}
       THEN /\ Goto(w, "idle")
            /\ target' = [target EXCEPT ![w] = NoDoc]
            /\ UNCHANGED todo
       ELSE \E d \in todo[w] :
              /\ target' = [target EXCEPT ![w] = d]
              /\ todo' = [todo EXCEPT ![w] = @ \ {d}]
              /\ Goto(w, "rev_read")
    /\ UNCHANGED <<db, taken, batch, row, reply, answer, faults>>

-----------------------------------------------------------------------------
(* The environment.                                                        *)

\* next_attempt_at of an event, or next_retry_at of a repair, passes.
BackoffElapses(d, k) ==
    /\ event[d][k].status \in {"PENDING", "FAILED"} /\ event[d][k].next = "later"
    /\ SetEvent(d, k, event[d][k].status, event[d][k].attempts, "now")
    /\ UNCHANGED <<status, physical, reversal, lastId, handoff, taken, local, faults>>

RetryElapses(d) ==
    /\ handoff[d].state = "REVERSAL_PENDING" /\ handoff[d].next = "later"
    /\ Transition(d, "REVERSAL_PENDING", "now")
    /\ UNCHANGED <<status, physical, reversal, event, lastId, taken, local, faults>>

\* OutboxService::replay(): an operator requeues a row, whatever its status.
Replay(d, k) ==
    /\ event[d][k].status # "none"
    /\ Fault
    /\ SetEvent(d, k, "PENDING", event[d][k].attempts, "now")
    /\ UNCHANGED <<status, physical, reversal, lastId, handoff, taken, local>>

\* The PHP worker is killed between two of its steps.
Crash(p) ==
    /\ pc[p] \notin {"idle", "done", "dead"}
    /\ Fault
    /\ Goto(p, IF p \in Requests THEN "dead" ELSE "idle")
    /\ target' = [target EXCEPT ![p] = NoDoc]
    /\ batch' = [batch EXCEPT ![p] = {}]
    /\ row' = [row EXCEPT ![p] = NoRow]
    /\ reply' = [reply EXCEPT ![p] = "none"]
    /\ todo' = [todo EXCEPT ![p] = {}]
    /\ UNCHANGED <<db, taken, answer>>

-----------------------------------------------------------------------------
Reversal(p) == ReverseRead(p) \/ ReverseCommit(p) \/ ReverseAbort(p)
               \/ RecordReversed(p) \/ RecordReversalFailed(p)

Delivery(p) == Send(p) \/ RecordDelivery(p) \/ CompleteForEvent(p)

PostStep(p) ==
    \/ \E d \in Docs : PostRead(p, d)
    \/ PostCommit(p) \/ PostAbort(p) \/ MarkFailed(p)
    \/ DeliverRead(p) \/ DeliverUnread(p) \/ Delivery(p) \/ RecordAccepted(p)
    \/ ClaimReversal(p) \/ Reversal(p) \/ Abandon(p)

ReverseStep(p) == (\E d \in Docs : ReverseRequest(p, d)) \/ Reversal(p)

CronStep(w) == FetchBatch(w) \/ Delivery(w) \/ FetchRepairs(w) \/ NextRepair(w) \/ Reversal(w)

DrainStep(w) == FetchBatch(w) \/ Delivery(w)

Clock == \/ \E d \in Docs, k \in Kinds : BackoffElapses(d, k)
         \/ \E d \in Docs : RetryElapses(d)

Next ==
    \/ \E p \in Posters : PostStep(p)
    \/ \E p \in Reversers : ReverseStep(p)
    \/ \E w \in Crons : CronStep(w)
    \/ \E w \in Drains : DrainStep(w)
    \/ Clock
    \/ \E d \in Docs, k \in Kinds : Replay(d, k)
    \/ \E p \in Procs : Crash(p)

Spec == Init /\ [][Next]_vars

\* A request or a sweep that is running goes on; the cron starts one every
\* minute; time passes.  Crashes and faults are never forced, a drain needs a
\* user, and a request needs somebody to send it, so those get no fairness.
Fairness ==
    /\ \A p \in Posters : WF_vars(PostStep(p) /\ ~At(p, "idle"))
    /\ \A p \in Reversers : WF_vars(ReverseStep(p) /\ ~At(p, "idle"))
    /\ \A w \in Crons : WF_vars(CronStep(w))
    /\ \A w \in Drains : WF_vars(DrainStep(w) /\ ~At(w, "idle"))
    /\ \A d \in Docs : WF_vars(RetryElapses(d))
    /\ \A d \in Docs, k \in Kinds : WF_vars(BackoffElapses(d, k))

FairSpec == Spec /\ Fairness

-----------------------------------------------------------------------------
(* Safety.                                                                 *)

\* Stock the document has moved and not moved back.
Moved(d) == physical[d] > reversal[d]

Told(d, a) == \E p \in Requests : target[p] = d /\ answer[p] = a

(***************************************************************************)
(* However many requests, sweeps and repairs race on a document, its stock *)
(* moves at most once and is moved back at most once, and never before it  *)
(* moved.  post() and reverse() read the status without a lock; only the   *)
(* unique index on the movements stands between them and a double issue.   *)
(***************************************************************************)
StockMovesOnce == \A d \in Docs : physical[d] <= 1 /\ reversal[d] <= physical[d]

(***************************************************************************)
(* Stock that has moved with no journal behind it is always known on disk: *)
(* the posting event is still there to deliver (or visibly DEAD), and when *)
(* the post waited for Books the handoff row is unsettled.  This is what   *)
(* claim() inside the transaction and claimReversal() before reverse() are *)
(* for, with a crash possible between any two statements.                  *)
(***************************************************************************)
DurableRecord ==
    \A d \in Docs : Moved(d) /\ "posted" \notin taken[d] =>
        /\ event[d]["posted"].status \in {"PENDING", "FAILED", "DEAD"}
        /\ d \in WaitDocs => handoff[d].state \in {"AWAITING_BOOKS", "REVERSAL_PENDING"}

(***************************************************************************)
(* A user who is told "posted, accepted" has a journal in Books: the       *)
(* journal is accepted before post() answers.                              *)
(***************************************************************************)
ToldPostedHasJournal ==
    \A p \in Posters : answer[p] = "accepted" => "posted" \in taken[target[p]]

(***************************************************************************)
(* A user who is told that Books refused or could not be reached, and that *)
(* no stock has changed, has no stock moved by the document, then or later.*)
(***************************************************************************)
ToldUndoneHasNoStock ==
    \A p \in Posters : answer[p] \in {"refused", "unavailable"} =>
        target[p] \in Docs /\ ~Moved(target[p])

\* The reversal of d has reached Books, is on its way, or ran out of attempts.
UndoOnItsWay(d) ==
    \/ "reversed" \in taken[d]
    \/ event[d]["reversed"].status \in {"PENDING", "FAILED"}
    \/ event[d]["reversed"].status = "DEAD" /\ event[d]["reversed"].attempts >= MaxDeliveries

(***************************************************************************)
(* When a document was reversed after Books stayed silent (or by a user or *)
(* the sweep) and Books does hold the journal, the reversal event is not   *)
(* retired: Books learns of it or the event exhausts its attempts.         *)
(***************************************************************************)
UndoReachesBooks ==
    \A d \in Docs : reversal[d] > 0 /\ "posted" \in taken[d] /\ ~Told(d, "refused")
                     => UndoOnItsWay(d)

-----------------------------------------------------------------------------
(* Posting and its handoff keep the promise of StockAndJournal.            *)

\* Still to be told: an event to deliver, or one that used up its attempts.
Waiting(e) == \/ e.status \in {"PENDING", "FAILED"}
              \/ e.status = "DEAD" /\ e.attempts >= MaxDeliveries
OnList == {d \in Docs : \E k \in Kinds : Waiting(event[d][k])}

\* What a handoff row in this state says of the outcome.
Says(s) == CASE s = "none" -> "none"
             [] s \in {"AWAITING_BOOKS", "REVERSAL_PENDING"} -> "open"
             [] s = "ACCEPTED" -> "accepted"
             [] s = "REVERSED" -> "undone"
Outcomes == [d \in Docs |-> Says(handoff[d].state)]

RefusedDocs == {d \in Docs : Told(d, "refused")}

Promise == INSTANCE StockAndJournal WITH
    out <- physical, back <- reversal, books <- taken,
    pending <- OnList, outcome <- Outcomes, refused <- RefusedDocs

(***************************************************************************)
(* However requests, sweeps, repairs, drains, crashes, refusals and lost   *)
(* answers interleave, every step keeps the stock and the journal of a     *)
(* document in step as StockAndJournal promises: stock moves once and back *)
(* once, Books hears only of what was committed, nothing leaves the outbox *)
(* for good before Books has it or has refused it, and a handoff row is    *)
(* only ever closed as what is true.                                       *)
(***************************************************************************)
KeepsPromise == Promise!Spec

-----------------------------------------------------------------------------
(* Liveness, under the cron.                                               *)

(***************************************************************************)
(* Every queued event is delivered or given up: dispatch() never leaves an *)
(* event PENDING or FAILED for ever, whatever Books answers.               *)
(***************************************************************************)
EventsSettle ==
    \A d \in Docs, k \in Kinds :
        event[d][k].status \in {"PENDING", "FAILED"} ~> event[d][k].status \in {"ACKED", "DEAD"}

(***************************************************************************)
(* A reversal decided on a request that died is finished by the sweep, or  *)
(* its attempts are used up: settleBooksHandoffs() leaves no repair behind.*)
(***************************************************************************)
RepairsFinish ==
    \A d \in Docs : handoff[d].state = "REVERSAL_PENDING" ~>
        handoff[d].state = "REVERSED" \/ handoff[d].attempts >= MaxRepairs

-----------------------------------------------------------------------------
(* What the comments promise and the code does not keep.                   *)

(***************************************************************************)
(* "nothing may be left queued: neither the posting Books refused nor the  *)
(* reversal of a document Books never had": after a refusal Books never    *)
(* comes to hold a journal that nothing will undo.                         *)
(***************************************************************************)
RefusedLeavesNoJournal ==
    \A d \in Docs : Told(d, "refused") /\ "posted" \in taken[d] => UndoOnItsWay(d)
=============================================================================
