------------------------- MODULE BooksHandoffProofs -------------------------
(***************************************************************************)
(* Proofs about BooksHandoff, for every number of documents, requests and  *)
(* sweeps and every bound: type correctness, the safety invariants through *)
(* one inductive invariant, and the refinement of StockAndJournal.         *)
(***************************************************************************)
EXTENDS BooksHandoff, TLAPS

(***************************************************************************)
(* What the rows say about each other.                                     *)
(***************************************************************************)

\* The movements of a line, and the statuses that claim them.
RowsInv ==
    \A d \in Docs :
        /\ physical[d] <= 1
        /\ reversal[d] <= physical[d]
        /\ status[d] \in {"POSTED", "REVERSED"} => physical[d] = 1
        /\ status[d] = "REVERSED" => reversal[d] = 1

\* An acknowledged event, or an accepted handoff, is one Books has.
AckInv ==
    \A d \in Docs :
        /\ \A k \in Kinds : event[d][k].status = "ACKED" => k \in taken[d]
        /\ handoff[d].state = "ACCEPTED" => "posted" \in taken[d]

\* The transaction that moves stock leaves an event and, if the post waits, a
\* claim; a handoff is closed as REVERSED only once the stock is back.
ClaimInv ==
    \A d \in Docs :
        /\ physical[d] > 0 => event[d]["posted"].status # "none"
        /\ d \in WaitDocs /\ physical[d] > 0 => handoff[d].state # "none"
        /\ handoff[d].state = "REVERSED" => reversal[d] = 1

\* A reversed document has a reversal event, and only a refusal retires it early.
UndoInv ==
    \A d \in Docs :
        /\ reversal[d] > 0 => event[d]["reversed"].status # "none"
        /\ \A k \in Kinds : event[d][k].status = "DEAD" =>
              event[d][k].attempts >= MaxDeliveries \/ Told(d, "refused")

(***************************************************************************)
(* What a process may rely on between two of its steps.                    *)
(***************************************************************************)

\* Where a process works on a document of its own.
OnTarget == {"apply", "failing", "deliver", "accept", "claim", "rev_read",
             "rev_tx", "rev_done", "rev_failed", "abandon"}

\* Where it delivers rows.
Delivering == {"send", "record", "complete"}

\* It holds the document and the row it is about to use.
ControlInv ==
    \A p \in Procs :
        /\ pc[p] \in OnTarget => target[p] \in Docs
        /\ p \in Posters /\ pc[p] \in Delivering => target[p] \in Docs
        /\ pc[p] \in {"record", "complete"} => row[p] \in Snapshot

LocalOK(p) ==
    /\ pc[p] = "record" /\ reply[p] = "accepted" => row[p].kind \in taken[row[p].doc]
    /\ pc[p] = "complete" => row[p].kind \in taken[row[p].doc]
    /\ pc[p] = "accept" => "posted" \in taken[target[p]]
    /\ pc[p] = "rev_tx" => physical[target[p]] = 1
    /\ pc[p] \in {"rev_done", "abandon"} => reversal[target[p]] = 1

LocalInv == \A p \in Procs : LocalOK(p)

\* A post delivers the posted event of its own document.
PosterOK(p) ==
    /\ pc[p] = "send" => \A r \in batch[p] : r.doc = target[p] /\ r.kind = "posted"
    /\ pc[p] \in {"record", "complete"} => row[p].doc = target[p] /\ row[p].kind = "posted"

PosterInv == \A p \in Posters : PosterOK(p)

\* What a request has told its user stays true.
AnswerOK(p) ==
    /\ answer[p] # "none" => pc[p] = "done"
    /\ p \in Posters /\ answer[p] = "accepted" =>
          target[p] \in Docs /\ "posted" \in taken[target[p]]
    /\ answer[p] \in {"refused", "unavailable"} =>
          target[p] \in Docs /\ reversal[target[p]] = 1

AnswerInv == \A p \in Procs : AnswerOK(p)

IInv == RowsInv /\ AckInv /\ ClaimInv /\ UndoInv /\ LocalInv /\ PosterInv /\ AnswerInv

-----------------------------------------------------------------------------
(* Type correctness.                                                       *)

\* A row read from the table is a snapshot of it.
LEMMA RowOfType ==
    ASSUME TypeOK, NEW d \in Docs, NEW k \in Kinds
    PROVE  RowOf(d, k) \in Snapshot
BY DEF TypeOK, RowOf, Snapshot, EventRow

\* The writes of a row keep its type, whatever document they are aimed at.
LEMMA EventWriteType ==
    ASSUME TypeOK, NEW d, NEW k, NEW s \in EventStatus, NEW n \in Nat, NEW w \in When,
           SetEvent(d, k, s, n, w)
    PROVE  event' \in [Docs -> [Kinds -> EventRow]]
<1> DEFINE new == [status |-> s, attempts |-> n, next |-> w, id |-> event[d][k].id]
<1>1. d \in Docs /\ k \in Kinds => new \in EventRow
  BY DEF TypeOK, EventRow
<1>2. event' = [event EXCEPT ![d][k] = new]
  BY DEF SetEvent
<1> HIDE DEF new
<1>3. ASSUME NEW e \in Docs PROVE event'[e] \in [Kinds -> EventRow]
  BY <1>1, <1>2 DEF TypeOK
<1> QED
  BY <1>2, <1>3 DEF TypeOK

LEMMA EnqueueType ==
    ASSUME TypeOK, NEW d, NEW k, Enqueue(d, k)
    PROVE  lastId' \in Nat /\ event' \in [Docs -> [Kinds -> EventRow]]
<1> DEFINE new == [status |-> "PENDING", attempts |-> 0, next |-> "now", id |-> lastId + 1]
<1>1. new \in EventRow
  BY DEF TypeOK, EventRow, EventStatus, When
<1>2. event' = [event EXCEPT ![d][k] = new]
  BY DEF Enqueue
<1> HIDE DEF new
<1>3. ASSUME NEW e \in Docs PROVE event'[e] \in [Kinds -> EventRow]
  BY <1>1, <1>2 DEF TypeOK
<1>4. lastId' \in Nat
  BY DEF TypeOK, Enqueue
<1> QED
  BY <1>2, <1>3, <1>4 DEF TypeOK

LEMMA HandoffWriteType ==
    ASSUME TypeOK, NEW d, NEW s \in HandoffState, NEW w \in When,
           Transition(d, s, w) \/ SetHandoff(d, s, handoff[d].attempts + 1, w)
    PROVE  handoff' \in [Docs -> HandoffRow]
<1>1. PICK n : /\ n = handoff[d].attempts \/ n = handoff[d].attempts + 1
               /\ SetHandoff(d, s, n, w)
  BY DEF Transition
<1> DEFINE new == [state |-> s, attempts |-> n, next |-> w]
<1>2. d \in Docs => new \in HandoffRow
  BY <1>1 DEF TypeOK, HandoffRow
<1>3. handoff' = [handoff EXCEPT ![d] = new]
  BY <1>1 DEF SetHandoff
<1> QED
  BY <1>2, <1>3 DEF TypeOK

LEMMA InitType == Init => TypeOK
BY BoundsAssumption DEF Init, TypeOK, DocStatus, EventRow, EventStatus, When, HandoffRow,
       HandoffState, Label, Reply, Answer

\* The steps of control, and what a frame condition leaves alone.
USE DEF db, local, Goto, Continue, Finish, Fault

\* One step per action: first how a request starts.
LEMMA StartType ==
    ASSUME TypeOK, NEW p \in Procs, NEW d \in Docs, PostRead(p, d) \/ ReverseRequest(p, d)
    PROVE  TypeOK'
<1> USE DEF TypeOK
<1>1. CASE PostRead(p, d)
  BY <1>1 DEF PostRead, Label, Answer, Reply
<1>2. CASE ReverseRequest(p, d)
  BY <1>2 DEF ReverseRequest, Label
<1> QED
  BY <1>1, <1>2

\* The steps of a request outside a delivery and a reversal.
LEMMA RequestType ==
    ASSUME TypeOK, ControlInv, NEW p \in Procs,
           \/ PostCommit(p) \/ PostAbort(p) \/ MarkFailed(p)
           \/ DeliverRead(p) \/ DeliverUnread(p) \/ RecordAccepted(p)
           \/ ClaimReversal(p) \/ Abandon(p)
    PROVE  TypeOK'
<1> USE DEF TypeOK, OnTarget, ControlInv
<1>1. CASE PostCommit(p)
  <2>1. target[p] \in Docs
    BY <1>1 DEF PostCommit, At
  <2>2. lastId' \in Nat /\ event' \in [Docs -> [Kinds -> EventRow]]
    BY <1>1, EnqueueType DEF PostCommit
  <2>3. handoff' \in [Docs -> HandoffRow]
    <3>1. [state |-> "AWAITING_BOOKS", attempts |-> 0, next |-> "never"] \in HandoffRow
      BY DEF HandoffRow, HandoffState, When
    <3>2. handoff' = handoff \/ Claim(target[p])
      BY <1>1 DEF PostCommit
    <3> QED
      BY <3>1, <3>2 DEF Claim, SetHandoff
  <2>4. status' \in [Docs -> DocStatus] /\ physical' \in [Docs -> Nat]
    BY <1>1, <2>1 DEF PostCommit, DocStatus
  <2>5. pc' \in [Procs -> Label] /\ answer' \in [Procs -> Answer]
    BY <1>1 DEF PostCommit, Label, Answer
  <2>6. row' \in [Procs -> Snapshot \cup {NoRow}] /\ reply' \in [Procs -> Reply]
    BY <1>1 DEF PostCommit, Reply
  <2> QED
    BY <1>1, <2>2, <2>3, <2>4, <2>5, <2>6 DEF PostCommit
<1>2. CASE PostAbort(p)
  BY <1>2, BoundsAssumption DEF PostAbort, Label
<1>3. CASE MarkFailed(p)
  BY <1>3 DEF MarkFailed, DocStatus, Label, Answer, Reply
<1>4. CASE DeliverRead(p)
  <2>1. target[p] \in Docs
    BY <1>4 DEF DeliverRead, At
  <2>2. RowOf(target[p], "posted") \in Snapshot
    BY <2>1, RowOfType DEF Kinds
  <2> QED
    <3>1. pc' \in [Procs -> Label]
      BY <1>4 DEF DeliverRead, Label
    <3>2. batch' \in [Procs -> SUBSET Snapshot]
      BY <1>4, <2>2 DEF DeliverRead
    <3> QED
      BY <1>4, <3>1, <3>2 DEF DeliverRead
<1>5. CASE DeliverUnread(p)
  BY <1>5, BoundsAssumption DEF DeliverUnread, Label, Reply
<1>6. CASE RecordAccepted(p)
  BY <1>6, HandoffWriteType DEF RecordAccepted, HandoffState, When, Label, Answer, Reply
<1>7. CASE ClaimReversal(p)
  BY <1>7, HandoffWriteType DEF ClaimReversal, HandoffState, When, Label
<1>8. CASE Abandon(p)
  <2>1. target[p] \in Docs
    BY <1>8 DEF Abandon, At
  <2>2. ASSUME NEW e \in Docs PROVE event'[e] \in [Kinds -> EventRow]
    BY <1>8, <2>1 DEF Abandon, Retired, EventRow, EventStatus, When
  <2> QED
    BY <1>8, <2>2 DEF Abandon, Label, Answer, Reply
<1> QED
  BY <1>1, <1>2, <1>3, <1>4, <1>5, <1>6, <1>7, <1>8

\* Deliveries.
LEMMA DeliveryType ==
    ASSUME TypeOK, ControlInv, NEW p \in Procs,
           Delivery(p)
    PROVE  TypeOK'
<1> USE DEF TypeOK
<1>1. CASE Send(p)
  <2>1. PICK r \in batch[p], a \in Reply :
           /\ BooksTakes(r, a) \/ BooksDeclines(r, a)
           /\ row' = [row EXCEPT ![p] = r]
           /\ batch' = [batch EXCEPT ![p] = @ \ {r}]
           /\ reply' = [reply EXCEPT ![p] = a]
    BY <1>1 DEF Send
  <2>2. r \in Snapshot /\ r.kind \in Kinds
    BY DEF Snapshot
  <2>3. taken' \in [Docs -> SUBSET Kinds]
    BY <2>1, <2>2 DEF BooksTakes, BooksDeclines
  <2> QED
    BY <1>1, <2>1, <2>2, <2>3 DEF Send, Label
<1>2. CASE RecordDelivery(p)
  <2>1. NextAttempt(row[p]) \in Nat
    BY <1>2 DEF RecordDelivery, At, ControlInv, NextAttempt, Snapshot
  <2>2. event' \in [Docs -> [Kinds -> EventRow]]
    BY <1>2, <2>1, EventWriteType DEF RecordDelivery, EventStatus, When
  <2> QED
    <3>1. pc' \in [Procs -> Label]
      BY <1>2 DEF RecordDelivery, AfterRow, Label
    <3>2. batch' \in [Procs -> SUBSET Snapshot]
      BY <1>2 DEF RecordDelivery, AfterRow
    <3>3. row' \in [Procs -> Snapshot \cup {NoRow}] /\ reply' \in [Procs -> Reply]
      BY <1>2 DEF RecordDelivery, AfterRow, Reply
    <3> QED
      BY <1>2, <2>2, <3>1, <3>2, <3>3 DEF RecordDelivery
<1>3. CASE CompleteForEvent(p)
  <2>1. handoff' \in [Docs -> HandoffRow]
    BY <1>3, HandoffWriteType DEF CompleteForEvent, HandoffState, When
  <2>2. pc' \in [Procs -> Label]
    BY <1>3 DEF CompleteForEvent, AfterRow, Label
  <2>3. batch' \in [Procs -> SUBSET Snapshot]
    BY <1>3 DEF CompleteForEvent, AfterRow
  <2>4. row' \in [Procs -> Snapshot \cup {NoRow}] /\ reply' \in [Procs -> Reply]
    BY <1>3 DEF CompleteForEvent, AfterRow, Reply
  <2> QED
    BY <1>3, <2>1, <2>2, <2>3, <2>4 DEF CompleteForEvent
<1> QED
  BY <1>1, <1>2, <1>3 DEF Delivery

\* Reversals.
LEMMA ReversalType ==
    ASSUME TypeOK, ControlInv, NEW p \in Procs,
           Reversal(p)
    PROVE  TypeOK'
<1> USE DEF TypeOK
<1>1. CASE ReverseRead(p)
  <2>1. pc' \in [Procs -> Label]
    BY <1>1 DEF ReverseRead, Label
  <2>2. faults' \in 0..MaxFaults
    BY <1>1, BoundsAssumption DEF ReverseRead
  <2> QED
    BY <1>1, <2>1, <2>2 DEF ReverseRead
<1>2. CASE ReverseAbort(p)
  BY <1>2, BoundsAssumption DEF ReverseAbort, Label
<1>3. CASE ReverseCommit(p)
  <2>1. target[p] \in Docs
    BY <1>3 DEF ReverseCommit, At, ControlInv, OnTarget
  <2>2. lastId' \in Nat /\ event' \in [Docs -> [Kinds -> EventRow]]
    BY <1>3, EnqueueType DEF ReverseCommit
  <2>3. status' \in [Docs -> DocStatus] /\ reversal' \in [Docs -> Nat]
    BY <1>3, <2>1 DEF ReverseCommit, DocStatus
  <2>4. pc' \in [Procs -> Label]
    BY <1>3 DEF ReverseCommit, Label
  <2> QED
    BY <1>3, <2>2, <2>3, <2>4 DEF ReverseCommit
<1>4. CASE RecordReversed(p)
  BY <1>4, HandoffWriteType DEF RecordReversed, HandoffState, When, Label, Answer, Reply
<1>5. CASE RecordReversalFailed(p)
  BY <1>5, HandoffWriteType DEF RecordReversalFailed, HandoffState, When, Label, Answer, Reply
<1> QED
  BY <1>1, <1>2, <1>3, <1>4, <1>5 DEF Reversal

\* Sweeps, and a crash.
LEMMA SweepType ==
    ASSUME TypeOK, ControlInv, NEW p \in Procs,
           FetchBatch(p) \/ FetchRepairs(p) \/ NextRepair(p) \/ Crash(p)
    PROVE  TypeOK'
<1> USE DEF TypeOK
<1>1. CASE FetchBatch(p)
  <2>1. DueRows \subseteq Snapshot
    BY RowOfType DEF DueRows
  <2> QED
    BY <1>1, <2>1 DEF FetchBatch, Label
<1>2. CASE FetchRepairs(p)
  BY <1>2 DEF FetchRepairs, Label
<1>3. CASE NextRepair(p)
  <2>1. todo[p] \subseteq Docs
    OBVIOUS
  <2>2. CASE todo[p] = {}
    BY <1>3, <2>2 DEF NextRepair, Label
  <2>3. CASE todo[p] # {}
    <3>1. PICK d \in todo[p] :
             /\ target' = [target EXCEPT ![p] = d]
             /\ todo' = [todo EXCEPT ![p] = @ \ {d}]
             /\ pc' = [pc EXCEPT ![p] = "rev_read"]
      BY <1>3, <2>3 DEF NextRepair
    <3>2. d \in Docs /\ todo[p] \ {d} \in SUBSET Docs
      BY <2>1
    <3>3. target' \in [Procs -> Docs \cup {NoDoc}] /\ todo' \in [Procs -> SUBSET Docs]
      BY <3>1, <3>2
    <3>4. pc' \in [Procs -> Label]
      BY <3>1 DEF Label
    <3> QED
      BY <1>3, <3>3, <3>4 DEF NextRepair
  <2> QED
    BY <2>2, <2>3
<1>4. CASE Crash(p)
  BY <1>4, BoundsAssumption DEF Crash, Label, Reply
<1> QED
  BY <1>1, <1>2, <1>3, <1>4

\* Time passes, or an operator requeues an event.
LEMMA ClockType ==
    ASSUME TypeOK, NEW d \in Docs, NEW k \in Kinds,
           BackoffElapses(d, k) \/ RetryElapses(d) \/ Replay(d, k)
    PROVE  TypeOK'
<1> USE DEF TypeOK
<1>1. CASE BackoffElapses(d, k)
  BY <1>1 DEF BackoffElapses, SetEvent, EventRow, EventStatus, When
<1>2. CASE RetryElapses(d)
  BY <1>2 DEF RetryElapses, Transition, SetHandoff, HandoffRow, HandoffState, When
<1>3. CASE Replay(d, k)
  BY <1>3, BoundsAssumption DEF Replay, SetEvent, EventRow, EventStatus, When
<1> QED
  BY <1>1, <1>2, <1>3

\* Every step is one of those.
LEMMA StepCases ==
    ASSUME [Next]_vars
    PROVE  \/ \E p \in Posters, d \in Docs : PostRead(p, d)
           \/ \E p \in Posters :
                 \/ PostCommit(p) \/ PostAbort(p) \/ MarkFailed(p)
                 \/ DeliverRead(p) \/ DeliverUnread(p) \/ RecordAccepted(p)
                 \/ ClaimReversal(p) \/ Abandon(p)
           \/ \E p \in Reversers, d \in Docs : ReverseRequest(p, d)
           \/ \E p \in Procs : Delivery(p) \/ Reversal(p)
           \/ \E p \in Workers : FetchBatch(p) \/ FetchRepairs(p) \/ NextRepair(p)
           \/ \E d \in Docs, k \in Kinds : BackoffElapses(d, k) \/ RetryElapses(d) \/ Replay(d, k)
           \/ \E p \in Procs : Crash(p)
           \/ UNCHANGED vars
<1>1. CASE \E p \in Posters : PostStep(p)
  BY <1>1 DEF PostStep, Procs, Requests
<1>2. CASE \E p \in Reversers : ReverseStep(p)
  BY <1>2 DEF ReverseStep, Procs, Requests
<1>3. CASE \E w \in Crons : CronStep(w)
  BY <1>3 DEF CronStep, Procs, Workers
<1>4. CASE \E w \in Drains : DrainStep(w)
  BY <1>4 DEF DrainStep, Procs, Workers
<1>5. CASE Clock
  BY <1>5 DEF Clock, Kinds
<1> QED
  BY <1>1, <1>2, <1>3, <1>4, <1>5 DEF Next

LEMMA TypeStep == TypeOK /\ ControlInv /\ [Next]_vars => TypeOK'
<1> SUFFICES ASSUME TypeOK, ControlInv, [Next]_vars PROVE TypeOK'
  OBVIOUS
<1>1. CASE UNCHANGED vars
  BY <1>1 DEF vars, TypeOK
<1>2. CASE \E p \in Posters, d \in Docs : PostRead(p, d)
  BY <1>2, StartType DEF Procs, Requests
<1>3. CASE \E p \in Reversers, d \in Docs : ReverseRequest(p, d)
  BY <1>3, StartType DEF Procs, Requests
<1>4. CASE \E p \in Posters : \/ PostCommit(p) \/ PostAbort(p) \/ MarkFailed(p)
                               \/ DeliverRead(p) \/ DeliverUnread(p) \/ RecordAccepted(p)
                               \/ ClaimReversal(p) \/ Abandon(p)
  <2> PICK p \in Posters : \/ PostCommit(p) \/ PostAbort(p) \/ MarkFailed(p)
                           \/ DeliverRead(p) \/ DeliverUnread(p) \/ RecordAccepted(p)
                           \/ ClaimReversal(p) \/ Abandon(p)
    BY <1>4
  <2> QED
    BY RequestType DEF Procs, Requests
<1>5. CASE \E p \in Workers : FetchBatch(p) \/ FetchRepairs(p) \/ NextRepair(p)
  BY <1>5, SweepType DEF Procs
<1> QED
  BY <1>1, <1>2, <1>3, <1>4, <1>5, StepCases, DeliveryType, ReversalType, SweepType, ClockType

-----------------------------------------------------------------------------
(* What a process holds.                                                   *)

LEMMA ControlStep == TypeOK /\ ControlInv /\ [Next]_vars => ControlInv'
<1> SUFFICES ASSUME TypeOK, ControlInv, [Next]_vars PROVE ControlInv'
  OBVIOUS
<1> USE DEF ControlInv, OnTarget, Delivering, TypeOK, At
<1>1. CASE UNCHANGED vars
  BY <1>1 DEF vars
<1>2. ASSUME NEW p \in Posters, NEW d \in Docs, PostRead(p, d) PROVE ControlInv'
  BY <1>2 DEF PostRead, Procs, Requests
<1>3. ASSUME NEW p \in Posters, PostCommit(p) PROVE ControlInv'
  BY <1>3 DEF PostCommit, Procs, Requests
<1>4. ASSUME NEW p \in Posters, PostAbort(p) \/ MarkFailed(p) PROVE ControlInv'
  BY <1>4 DEF PostAbort, MarkFailed, Procs, Requests
<1>5. ASSUME NEW p \in Posters, DeliverRead(p) \/ DeliverUnread(p) PROVE ControlInv'
  BY <1>5 DEF DeliverRead, DeliverUnread, Procs, Requests
<1>6. ASSUME NEW p \in Posters, RecordAccepted(p) \/ ClaimReversal(p) \/ Abandon(p) PROVE ControlInv'
  BY <1>6 DEF RecordAccepted, ClaimReversal, Abandon, Procs, Requests
<1>7. ASSUME NEW p \in Reversers, NEW d \in Docs, ReverseRequest(p, d) PROVE ControlInv'
  BY <1>7 DEF ReverseRequest, Procs, Requests
<1>8. ASSUME NEW p \in Procs, Send(p) PROVE ControlInv'
  BY <1>8 DEF Send
<1>9. ASSUME NEW p \in Procs, RecordDelivery(p) \/ CompleteForEvent(p) PROVE ControlInv'
  <2>1. target' = target /\ pc[p] \in {"record", "complete"}
    BY <1>9 DEF RecordDelivery, CompleteForEvent
  <2>2. \/ Goto(p, "complete") /\ UNCHANGED row
        \/ \E ok \in BOOLEAN : AfterRow(p, ok)
    BY <1>9 DEF RecordDelivery, CompleteForEvent
  <2>3. \/ pc' = [pc EXCEPT ![p] = "complete"] /\ UNCHANGED row
        \/ p \in Posters /\ (\E l \in {"accept", "claim"} : pc' = [pc EXCEPT ![p] = l]) /\ UNCHANGED row
        \/ /\ p \notin Posters
           /\ \E l \in {"send", "repairs", "idle"} : pc' = [pc EXCEPT ![p] = l]
           /\ row' = [row EXCEPT ![p] = NoRow]
    BY <2>2 DEF AfterRow
  <2> QED
    BY <2>1, <2>3
<1>10. ASSUME NEW p \in Procs, ReverseRead(p) \/ ReverseCommit(p) \/ ReverseAbort(p) PROVE ControlInv'
  BY <1>10 DEF ReverseRead, ReverseCommit, ReverseAbort
<1>11. ASSUME NEW p \in Procs, RecordReversed(p) \/ RecordReversalFailed(p) PROVE ControlInv'
  BY <1>11 DEF RecordReversed, RecordReversalFailed
<1>12. ASSUME NEW p \in Workers, FetchBatch(p) \/ FetchRepairs(p) PROVE ControlInv'
  BY <1>12, ProcsAssumption DEF FetchBatch, FetchRepairs, Procs, Workers
<1>13. ASSUME NEW p \in Workers, NextRepair(p) PROVE ControlInv'
  BY <1>13 DEF NextRepair, Procs
<1>14. ASSUME NEW p \in Procs, Crash(p) PROVE ControlInv'
  BY <1>14 DEF Crash
<1>15. ASSUME NEW d \in Docs, NEW k \in Kinds,
              BackoffElapses(d, k) \/ RetryElapses(d) \/ Replay(d, k)
       PROVE  ControlInv'
  BY <1>15 DEF BackoffElapses, RetryElapses, Replay
<1> HIDE DEF ControlInv, OnTarget, Delivering, TypeOK, At
<1> QED
  BY <1>1, <1>2, <1>3, <1>4, <1>5, <1>6, <1>7, <1>8, <1>9, <1>10, <1>11, <1>12, <1>13, <1>14,
     <1>15, StepCases DEF Delivery, Reversal

(***************************************************************************)
(* Every variable keeps its type in every reachable state: statuses stay   *)
(* in their vocabularies, and every row a process writes back is one it    *)
(* read.  Proved together with what a process holds when it uses it.       *)
(***************************************************************************)
THEOREM TypeCorrect == Spec => [](TypeOK /\ ControlInv)
<1>1. Init => TypeOK /\ ControlInv
  BY InitType DEF Init, ControlInv, OnTarget, Delivering
<1>2. (TypeOK /\ ControlInv) /\ [Next]_vars => (TypeOK /\ ControlInv)'
  BY TypeStep, ControlStep
<1> QED
  BY <1>1, <1>2, PTL DEF Spec

-----------------------------------------------------------------------------
(* Which steps write what.                                                 *)

LEMMA RowsFrame ==
    ASSUME [Next]_vars
    PROVE  \/ \E p \in Posters : PostCommit(p) \/ MarkFailed(p)
           \/ \E p \in Procs : ReverseCommit(p)
           \/ UNCHANGED <<status, physical, reversal>>
BY StepCases DEF vars, PostRead, PostAbort, DeliverRead, DeliverUnread, RecordAccepted,
   ClaimReversal, Abandon, ReverseRequest, Delivery, Send, RecordDelivery, CompleteForEvent,
   Reversal, ReverseRead, ReverseAbort, RecordReversed, RecordReversalFailed, FetchBatch,
   FetchRepairs, NextRepair, BackoffElapses, RetryElapses, Replay, Crash

LEMMA EventFrame ==
    ASSUME [Next]_vars
    PROVE  \/ \E p \in Posters : PostCommit(p) \/ Abandon(p)
           \/ \E p \in Procs : ReverseCommit(p) \/ RecordDelivery(p)
           \/ \E d \in Docs, k \in Kinds : BackoffElapses(d, k) \/ Replay(d, k)
           \/ UNCHANGED event
BY StepCases DEF vars, PostRead, PostAbort, MarkFailed, DeliverRead, DeliverUnread,
   RecordAccepted, ClaimReversal, ReverseRequest, Delivery, Send, CompleteForEvent,
   Reversal, ReverseRead, ReverseAbort, RecordReversed, RecordReversalFailed, FetchBatch,
   FetchRepairs, NextRepair, RetryElapses, Crash

LEMMA HandoffFrame ==
    ASSUME [Next]_vars
    PROVE  \/ \E p \in Posters : PostCommit(p) \/ RecordAccepted(p) \/ ClaimReversal(p)
           \/ \E p \in Procs : CompleteForEvent(p) \/ RecordReversed(p) \/ RecordReversalFailed(p)
           \/ \E d \in Docs : RetryElapses(d)
           \/ UNCHANGED handoff
BY StepCases DEF vars, PostRead, PostAbort, MarkFailed, DeliverRead, DeliverUnread, Abandon,
   ReverseRequest, Delivery, Send, RecordDelivery, Reversal, ReverseRead, ReverseCommit,
   ReverseAbort, FetchBatch, FetchRepairs, NextRepair, BackoffElapses, Replay, Crash

\* Books learns of an event from a batch.
LEMMA TakenCases ==
    ASSUME TypeOK, [Next]_vars
    PROVE  \/ UNCHANGED taken
           \/ \E p \in Procs : \E r \in batch[p] :
                 Send(p) /\ taken' = [taken EXCEPT ![r.doc] = @ \cup {r.kind}]
<1>1. ASSUME NEW p \in Procs, Send(p)
      PROVE  \/ UNCHANGED taken
             \/ \E r \in batch[p] : taken' = [taken EXCEPT ![r.doc] = @ \cup {r.kind}]
  BY <1>1 DEF Send, BooksTakes, BooksDeclines
<1>2. (\E p \in Procs : Send(p)) \/ UNCHANGED taken
  BY StepCases DEF vars, PostRead, PostCommit, PostAbort, MarkFailed, DeliverRead, DeliverUnread,
     RecordAccepted, ClaimReversal, Abandon, ReverseRequest, Delivery, RecordDelivery,
     CompleteForEvent, Reversal, ReverseRead, ReverseCommit, ReverseAbort, RecordReversed,
     RecordReversalFailed, FetchBatch, FetchRepairs, NextRepair, BackoffElapses, RetryElapses,
     Replay, Crash
<1> QED
  BY <1>1, <1>2

\* Books never forgets an event.
LEMMA TakenFrame ==
    ASSUME TypeOK, [Next]_vars, NEW d \in Docs
    PROVE  taken[d] \subseteq taken'[d]
<1>1. UNCHANGED taken \/ \E e, k : taken' = [taken EXCEPT ![e] = @ \cup {k}]
  BY TakenCases
<1> QED
  BY <1>1 DEF TypeOK

\* What a write leaves in a row, and in the others.
LEMMA EventWritten ==
    ASSUME TypeOK, NEW d \in Docs, NEW k \in Kinds, NEW s, NEW n, NEW w, SetEvent(d, k, s, n, w)
    PROVE  \A e \in Docs, j \in Kinds :
              /\ event'[e][j].status = IF e = d /\ j = k THEN s ELSE event[e][j].status
              /\ event'[e][j].attempts = IF e = d /\ j = k THEN n ELSE event[e][j].attempts
<1> DEFINE new == [status |-> s, attempts |-> n, next |-> w, id |-> event[d][k].id]
<1>1. event' = [event EXCEPT ![d][k] = new]
  BY DEF SetEvent
<1> HIDE DEF new
<1>2. \A e \in Docs, j \in Kinds :
         event'[e][j] = IF e = d /\ j = k THEN new ELSE event[e][j]
  BY <1>1 DEF TypeOK
<1> QED
  BY <1>2 DEF new

LEMMA Enqueued ==
    ASSUME TypeOK, NEW d \in Docs, NEW k \in Kinds, Enqueue(d, k)
    PROVE  \A e \in Docs, j \in Kinds :
              event'[e][j] = IF e = d /\ j = k
                             THEN [status |-> "PENDING", attempts |-> 0, next |-> "now", id |-> lastId + 1]
                             ELSE event[e][j]
<1> DEFINE new == [status |-> "PENDING", attempts |-> 0, next |-> "now", id |-> lastId + 1]
<1>1. event' = [event EXCEPT ![d][k] = new]
  BY DEF Enqueue
<1> HIDE DEF new
<1>2. \A e \in Docs, j \in Kinds :
         event'[e][j] = IF e = d /\ j = k THEN new ELSE event[e][j]
  BY <1>1 DEF TypeOK
<1> QED
  BY <1>2 DEF new

LEMMA Abandoned ==
    ASSUME TypeOK, ControlInv, NEW p \in Procs, Abandon(p)
    PROVE  /\ target[p] \in Docs
           /\ \A e \in Docs, j \in Kinds :
                 \/ event'[e][j] = event[e][j]
                 \/ e = target[p] /\ event[e][j].status # "none" /\ event'[e][j].status = "DEAD"
<1>1. target[p] \in Docs
  BY DEF Abandon, At, ControlInv, OnTarget
<1> QED
  BY <1>1 DEF Abandon, Retired, TypeOK

LEMMA HandoffWritten ==
    ASSUME TypeOK, NEW d \in Docs, NEW s, NEW n, NEW w, SetHandoff(d, s, n, w)
    PROVE  \A e \in Docs : handoff'[e].state = IF e = d THEN s ELSE handoff[e].state
BY DEF SetHandoff, TypeOK

LEMMA Transitioned ==
    ASSUME TypeOK, NEW d \in Docs, NEW s, NEW w, Transition(d, s, w)
    PROVE  \A e \in Docs : handoff'[e].state = IF e = d THEN s ELSE handoff[e].state
BY HandoffWritten DEF Transition

-----------------------------------------------------------------------------
(* The inductive step, conjunct by conjunct.                               *)

LEMMA RowsStep == TypeOK /\ ControlInv /\ IInv /\ [Next]_vars => RowsInv'
<1> SUFFICES ASSUME TypeOK, ControlInv, IInv, [Next]_vars PROVE RowsInv'
  OBVIOUS
<1> USE DEF IInv, RowsInv, TypeOK
<1>1. ASSUME NEW p \in Posters, PostCommit(p) PROVE RowsInv'
  BY <1>1 DEF PostCommit, IndexAllows
<1>2. ASSUME NEW p \in Posters, MarkFailed(p) PROVE RowsInv'
  BY <1>2 DEF MarkFailed
<1>3. ASSUME NEW p \in Procs, ReverseCommit(p) PROVE RowsInv'
  <2>1. target[p] \in Docs /\ physical[target[p]] = 1
    BY <1>3 DEF ReverseCommit, At, ControlInv, OnTarget, LocalInv, LocalOK
  <2>2. reversal[target[p]] = 0
    BY <1>3 DEF ReverseCommit, IndexAllows
  <2> QED
    BY <1>3, <2>1, <2>2 DEF ReverseCommit
<1> QED
  BY <1>1, <1>2, <1>3, RowsFrame

LEMMA AckStep == TypeOK /\ ControlInv /\ IInv /\ [Next]_vars => AckInv'
<1> SUFFICES ASSUME TypeOK, ControlInv, IInv, [Next]_vars, NEW d \in Docs
             PROVE  /\ \A k \in Kinds : event'[d][k].status = "ACKED" => k \in taken'[d]
                    /\ handoff'[d].state = "ACCEPTED" => "posted" \in taken'[d]
  BY DEF AckInv
<1>1. ASSUME NEW k \in Kinds, event'[d][k].status = "ACKED" PROVE k \in taken[d]
  <2>1. CASE UNCHANGED event
    BY <1>1, <2>1 DEF IInv, AckInv
  <2>2. ASSUME NEW p \in Posters, PostCommit(p) PROVE k \in taken[d]
    <3>1. target[p] \in Docs /\ Enqueue(target[p], "posted")
      BY <2>2 DEF PostCommit, At, ControlInv, OnTarget, Procs, Requests
    <3> QED
      BY <1>1, <3>1, Enqueued DEF IInv, AckInv, Kinds
  <2>3. ASSUME NEW p \in Procs, ReverseCommit(p) PROVE k \in taken[d]
    <3>1. target[p] \in Docs /\ Enqueue(target[p], "reversed")
      BY <2>3 DEF ReverseCommit, At, ControlInv, OnTarget
    <3> QED
      BY <1>1, <3>1, Enqueued DEF IInv, AckInv, Kinds
  <2>4. ASSUME NEW p \in Posters, Abandon(p) PROVE k \in taken[d]
    BY <1>1, <2>4, Abandoned DEF IInv, AckInv, Procs, Requests
  <2>5. ASSUME NEW p \in Procs, RecordDelivery(p) PROVE k \in taken[d]
    <3>1. row[p] \in Snapshot /\ (reply[p] = "accepted" => row[p].kind \in taken[row[p].doc])
      BY <2>5 DEF RecordDelivery, At, ControlInv, IInv, LocalInv, LocalOK
    <3>2. row[p].doc \in Docs /\ row[p].kind \in Kinds
      BY <3>1 DEF Snapshot
    <3>3. PICK s \in {"ACKED", "DEAD", "FAILED"}, w \in When :
             /\ SetEvent(row[p].doc, row[p].kind, s, NextAttempt(row[p]), w)
             /\ s = "ACKED" => reply[p] = "accepted"
      BY <2>5 DEF RecordDelivery, Acks, When
    <3>4. \A e \in Docs, j \in Kinds :
             event'[e][j].status = IF e = row[p].doc /\ j = row[p].kind THEN s ELSE event[e][j].status
      BY <3>2, <3>3, EventWritten
    <3> QED
      BY <1>1, <3>1, <3>3, <3>4 DEF IInv, AckInv
  <2>6. ASSUME NEW e \in Docs, NEW j \in Kinds, BackoffElapses(e, j) \/ Replay(e, j)
        PROVE  k \in taken[d]
    <3>1. PICK s \in {"PENDING", "FAILED"} : SetEvent(e, j, s, event[e][j].attempts, "now")
      BY <2>6 DEF BackoffElapses, Replay
    <3>2. \A x \in Docs, y \in Kinds :
             event'[x][y].status = IF x = e /\ y = j THEN s ELSE event[x][y].status
      BY <3>1, EventWritten
    <3> QED
      BY <1>1, <3>2 DEF IInv, AckInv
  <2> QED
    BY <2>1, <2>2, <2>3, <2>4, <2>5, <2>6, EventFrame
<1>2. ASSUME handoff'[d].state = "ACCEPTED" PROVE "posted" \in taken[d]
  <2>1. CASE UNCHANGED handoff
    BY <1>2, <2>1 DEF IInv, AckInv
  <2>2. ASSUME NEW p \in Posters, PostCommit(p) PROVE "posted" \in taken[d]
    <3>1. target[p] \in Docs
      BY <2>2 DEF PostCommit, At, ControlInv, OnTarget, Procs, Requests
    <3>2. UNCHANGED handoff \/ SetHandoff(target[p], "AWAITING_BOOKS", 0, "never")
      BY <2>2 DEF PostCommit, Claim
    <3>3. handoff'[d].state = IF d = target[p] /\ ~UNCHANGED handoff
                              THEN "AWAITING_BOOKS" ELSE handoff[d].state
      BY <3>1, <3>2, HandoffWritten
    <3> QED
      BY <1>2, <3>3 DEF IInv, AckInv
  <2>3. ASSUME NEW p \in Posters, RecordAccepted(p) PROVE "posted" \in taken[d]
    <3>1. target[p] \in Docs /\ "posted" \in taken[target[p]]
      BY <2>3 DEF RecordAccepted, At, ControlInv, OnTarget, IInv, LocalInv, LocalOK, Procs, Requests
    <3>2. Transition(target[p], "ACCEPTED", "never")
      BY <2>3 DEF RecordAccepted
    <3> QED
      BY <1>2, <3>1, <3>2, Transitioned DEF IInv, AckInv
  <2>4. ASSUME NEW p \in Procs, CompleteForEvent(p) PROVE "posted" \in taken[d]
    <3>1. row[p] \in Snapshot /\ row[p].kind \in taken[row[p].doc]
      BY <2>4 DEF CompleteForEvent, At, ControlInv, IInv, LocalInv, LocalOK
    <3>2. row[p].doc \in Docs
      BY <3>1 DEF Snapshot
    <3>3. \/ UNCHANGED handoff
          \/ row[p].kind = "posted" /\ Transition(row[p].doc, "ACCEPTED", "never")
      BY <2>4 DEF CompleteForEvent, IsAwaited
    <3> QED
      BY <1>2, <3>1, <3>2, <3>3, Transitioned DEF IInv, AckInv
  <2>5. ASSUME NEW p \in Procs, ClaimReversal(p) \/ RecordReversed(p) \/ RecordReversalFailed(p)
        PROVE  "posted" \in taken[d]
    <3>1. target[p] \in Docs
      BY <2>5 DEF ClaimReversal, RecordReversed, RecordReversalFailed, At, ControlInv, OnTarget
    <3>2. \/ UNCHANGED handoff
          \/ Transition(target[p], "REVERSAL_PENDING", "now")
          \/ Transition(target[p], "REVERSED", "never")
          \/ SetHandoff(target[p], "REVERSAL_PENDING", handoff[target[p]].attempts + 1, "later")
      BY <2>5 DEF ClaimReversal, RecordReversed, RecordReversalFailed
    <3>3. handoff'[d].state \in {handoff[d].state, "REVERSAL_PENDING", "REVERSED"}
      BY <3>1, <3>2, Transitioned, HandoffWritten
    <3> QED
      BY <1>2, <3>3 DEF IInv, AckInv
  <2>6. ASSUME NEW e \in Docs, RetryElapses(e) PROVE "posted" \in taken[d]
    BY <1>2, <2>6, Transitioned DEF RetryElapses, IInv, AckInv
  <2> QED
    BY <2>1, <2>2, <2>3, <2>4, <2>5, <2>6, HandoffFrame DEF Procs, Requests
<1> QED
  BY <1>1, <1>2, TakenFrame

\* Movements are never deleted, and an event or a handoff is never forgotten.
LEMMA RowsGrow ==
    ASSUME TypeOK, ControlInv, IInv, [Next]_vars, NEW d \in Docs
    PROVE  /\ physical[d] = 1 => physical'[d] = 1
           /\ reversal[d] = 1 => reversal'[d] = 1
<1>1. ASSUME NEW p \in Posters, PostCommit(p)
      PROVE  physical[d] <= physical'[d] /\ reversal[d] = reversal'[d]
  BY <1>1 DEF PostCommit, TypeOK
<1>2. ASSUME NEW p \in Posters, MarkFailed(p)
      PROVE  physical[d] = physical'[d] /\ reversal[d] = reversal'[d]
  BY <1>2 DEF MarkFailed
<1>3. ASSUME NEW p \in Procs, ReverseCommit(p)
      PROVE  physical[d] = physical'[d] /\ reversal[d] <= reversal'[d]
  BY <1>3 DEF ReverseCommit, TypeOK
<1>4. physical[d] <= physical'[d] /\ reversal[d] <= reversal'[d]
  BY <1>1, <1>2, <1>3, RowsFrame DEF TypeOK
<1>5. physical'[d] <= 1 /\ reversal'[d] <= physical'[d] /\ physical'[d] \in Nat /\ reversal'[d] \in Nat
  BY RowsStep, TypeStep DEF RowsInv, TypeOK
<1>6. physical[d] \in Nat /\ reversal[d] \in Nat
  BY DEF TypeOK
<1> QED
  BY <1>4, <1>5, <1>6

LEMMA EventStays ==
    ASSUME TypeOK, ControlInv, [Next]_vars, NEW d \in Docs, NEW k \in Kinds,
           event[d][k].status # "none"
    PROVE  event'[d][k].status # "none"
<1>1. ASSUME NEW p \in Posters, PostCommit(p) PROVE event'[d][k].status # "none"
  <2>1. target[p] \in Docs /\ Enqueue(target[p], "posted")
    BY <1>1 DEF PostCommit, At, ControlInv, OnTarget, Procs, Requests
  <2> QED
    BY <2>1, Enqueued DEF Kinds
<1>2. ASSUME NEW p \in Procs, ReverseCommit(p) PROVE event'[d][k].status # "none"
  <2>1. target[p] \in Docs /\ Enqueue(target[p], "reversed")
    BY <1>2 DEF ReverseCommit, At, ControlInv, OnTarget
  <2> QED
    BY <2>1, Enqueued DEF Kinds
<1>3. ASSUME NEW p \in Posters, Abandon(p) PROVE event'[d][k].status # "none"
  BY <1>3, Abandoned DEF Procs, Requests
<1>4. ASSUME NEW p \in Procs, RecordDelivery(p) PROVE event'[d][k].status # "none"
  <2>1. row[p].doc \in Docs /\ row[p].kind \in Kinds
    BY <1>4 DEF RecordDelivery, At, ControlInv, Snapshot
  <2>2. PICK s \in {"ACKED", "DEAD", "FAILED"}, w \in When :
           SetEvent(row[p].doc, row[p].kind, s, NextAttempt(row[p]), w)
    BY <1>4 DEF RecordDelivery, When
  <2> QED
    BY <2>1, <2>2, EventWritten
<1>5. ASSUME NEW e \in Docs, NEW j \in Kinds, BackoffElapses(e, j) \/ Replay(e, j)
      PROVE  event'[d][k].status # "none"
  <2>1. PICK s \in {"PENDING", "FAILED"} : SetEvent(e, j, s, event[e][j].attempts, "now")
    BY <1>5 DEF BackoffElapses, Replay
  <2> QED
    BY <2>1, EventWritten
<1> QED
  BY <1>1, <1>2, <1>3, <1>4, <1>5, EventFrame

\* What a write of the handoff leaves there, other than by the claim.
LEMMA HandoffCases ==
    ASSUME TypeOK, ControlInv, IInv, [Next]_vars, NEW d \in Docs
    PROVE  \/ handoff'[d].state = handoff[d].state
           \/ \E p \in Posters : PostCommit(p) /\ handoff'[d].state = "AWAITING_BOOKS"
           \/ handoff'[d].state \in {"ACCEPTED", "REVERSAL_PENDING"}
           \/ handoff'[d].state = "REVERSED" /\ reversal[d] = 1
<1> DEFINE Goal == \/ handoff'[d].state = handoff[d].state
                   \/ \E p \in Posters : PostCommit(p) /\ handoff'[d].state = "AWAITING_BOOKS"
                   \/ handoff'[d].state \in {"ACCEPTED", "REVERSAL_PENDING"}
                   \/ handoff'[d].state = "REVERSED" /\ reversal[d] = 1
<1>1. ASSUME NEW p \in Posters, PostCommit(p) PROVE Goal
  <2>1. target[p] \in Docs
    BY <1>1 DEF PostCommit, At, ControlInv, OnTarget, Procs, Requests
  <2>2. UNCHANGED handoff \/ SetHandoff(target[p], "AWAITING_BOOKS", 0, "never")
    BY <1>1 DEF PostCommit, Claim
  <2> QED
    BY <1>1, <2>1, <2>2, HandoffWritten
<1>2. ASSUME NEW p \in Procs, RecordReversed(p) PROVE Goal
  <2>1. target[p] \in Docs /\ reversal[target[p]] = 1
    BY <1>2 DEF RecordReversed, At, ControlInv, OnTarget, IInv, LocalInv, LocalOK
  <2>2. UNCHANGED handoff \/ Transition(target[p], "REVERSED", "never")
    BY <1>2 DEF RecordReversed
  <2> QED
    BY <2>1, <2>2, Transitioned
<1>3. ASSUME NEW p \in Procs,
             \/ RecordAccepted(p) \/ ClaimReversal(p) \/ RecordReversalFailed(p)
             \/ CompleteForEvent(p)
      PROVE  Goal
  <2>1. PICK e \in Docs :
           \/ UNCHANGED handoff
           \/ Transition(e, "ACCEPTED", "never")
           \/ Transition(e, "REVERSAL_PENDING", "now")
           \/ SetHandoff(e, "REVERSAL_PENDING", handoff[e].attempts + 1, "later")
    BY <1>3 DEF RecordAccepted, ClaimReversal, RecordReversalFailed, CompleteForEvent, At,
       ControlInv, OnTarget, Snapshot
  <2> QED
    BY <2>1, Transitioned, HandoffWritten
<1>4. ASSUME NEW e \in Docs, RetryElapses(e) PROVE Goal
  BY <1>4, Transitioned DEF RetryElapses
<1> QED
  BY <1>1, <1>2, <1>3, <1>4, HandoffFrame DEF Procs, Requests

LEMMA ClaimStep == TypeOK /\ ControlInv /\ IInv /\ [Next]_vars => ClaimInv'
<1> SUFFICES ASSUME TypeOK, ControlInv, IInv, [Next]_vars, NEW d \in Docs
             PROVE  /\ physical'[d] > 0 => event'[d]["posted"].status # "none"
                    /\ d \in WaitDocs /\ physical'[d] > 0 => handoff'[d].state # "none"
                    /\ handoff'[d].state = "REVERSED" => reversal'[d] = 1
  BY DEF ClaimInv
<1>1. physical'[d] > 0 => \/ physical[d] > 0
                         \/ \E p \in Posters : PostCommit(p) /\ d = target[p]
  <2>1. ASSUME NEW p \in Posters, PostCommit(p), d # target[p] PROVE physical'[d] = physical[d]
    BY <2>1 DEF PostCommit, TypeOK
  <2>2. ASSUME NEW p \in Posters, MarkFailed(p) PROVE physical' = physical
    BY <2>2 DEF MarkFailed
  <2>3. ASSUME NEW p \in Procs, ReverseCommit(p) PROVE physical' = physical
    BY <2>3 DEF ReverseCommit
  <2> QED
    BY <2>1, <2>2, <2>3, RowsFrame
<1>2. ASSUME NEW p \in Posters, PostCommit(p), d = target[p]
      PROVE  event'[d]["posted"].status # "none"
  <2>1. Enqueue(d, "posted")
    BY <1>2 DEF PostCommit
  <2> QED
    BY <2>1, Enqueued DEF Kinds
<1>3. ASSUME NEW p \in Posters, PostCommit(p), d = target[p], d \in WaitDocs
      PROVE  handoff'[d].state # "none"
  <2>1. SetHandoff(d, "AWAITING_BOOKS", 0, "never")
    BY <1>3 DEF PostCommit, Claim
  <2> QED
    BY <2>1, HandoffWritten
<1>4. physical'[d] > 0 => event'[d]["posted"].status # "none"
  BY <1>1, <1>2, EventStays DEF IInv, ClaimInv, Kinds
<1>5. d \in WaitDocs /\ physical'[d] > 0 => handoff'[d].state # "none"
  BY <1>1, <1>3, HandoffCases DEF IInv, ClaimInv
<1>6. handoff'[d].state = "REVERSED" => reversal'[d] = 1
  BY HandoffCases, RowsGrow DEF IInv, ClaimInv
<1> QED
  BY <1>4, <1>5, <1>6

\* A process that has ended takes no step.
LEMMA DoneStays ==
    ASSUME TypeOK, [Next]_vars, NEW q \in Procs, pc[q] = "done"
    PROVE  pc'[q] = "done" /\ target'[q] = target[q] /\ answer'[q] = answer[q]
<1> USE DEF TypeOK, At
<1> DEFINE Still == pc'[q] = pc[q] /\ target'[q] = target[q] /\ answer'[q] = answer[q]
<1>1. CASE UNCHANGED vars
  BY <1>1 DEF vars
<1>2. ASSUME NEW p \in Procs, NEW d \in Docs, PostRead(p, d) \/ ReverseRequest(p, d) PROVE Still
  BY <1>2 DEF PostRead, ReverseRequest
<1>3. ASSUME NEW p \in Procs, PostCommit(p) \/ PostAbort(p) \/ MarkFailed(p) PROVE Still
  BY <1>3 DEF PostCommit, PostAbort, MarkFailed
<1>4. ASSUME NEW p \in Procs, DeliverRead(p) \/ DeliverUnread(p) PROVE Still
  BY <1>4 DEF DeliverRead, DeliverUnread
<1>5. ASSUME NEW p \in Procs, RecordAccepted(p) \/ ClaimReversal(p) \/ Abandon(p) PROVE Still
  BY <1>5 DEF RecordAccepted, ClaimReversal, Abandon
<1>6. ASSUME NEW p \in Procs, Send(p) PROVE Still
  BY <1>6 DEF Send
<1>7. ASSUME NEW p \in Procs, RecordDelivery(p) \/ CompleteForEvent(p) PROVE Still
  BY <1>7 DEF RecordDelivery, CompleteForEvent, AfterRow
<1>8. ASSUME NEW p \in Procs, Reversal(p) PROVE Still
  BY <1>8 DEF Reversal, ReverseRead, ReverseCommit, ReverseAbort, RecordReversed, RecordReversalFailed
<1>9. ASSUME NEW p \in Procs, FetchBatch(p) \/ FetchRepairs(p) \/ NextRepair(p) PROVE Still
  BY <1>9 DEF FetchBatch, FetchRepairs, NextRepair
<1>10. ASSUME NEW p \in Procs, Crash(p) PROVE Still
  BY <1>10 DEF Crash
<1>11. ASSUME NEW d \in Docs, NEW k \in Kinds,
              BackoffElapses(d, k) \/ RetryElapses(d) \/ Replay(d, k)
       PROVE  Still
  BY <1>11 DEF BackoffElapses, RetryElapses, Replay
<1> HIDE DEF TypeOK, At
<1> QED
  BY <1>1, <1>2, <1>3, <1>4, <1>5, <1>6, <1>7, <1>8, <1>9, <1>10, <1>11, StepCases
     DEF Delivery, Procs, Requests, Workers

LEMMA UndoStep == TypeOK /\ ControlInv /\ IInv /\ [Next]_vars => UndoInv'
<1> SUFFICES ASSUME TypeOK, ControlInv, IInv, [Next]_vars, NEW d \in Docs
             PROVE  /\ reversal'[d] > 0 => event'[d]["reversed"].status # "none"
                    /\ \A k \in Kinds : event'[d][k].status = "DEAD" =>
                          event'[d][k].attempts >= MaxDeliveries \/ Told(d, "refused")'
  BY DEF UndoInv
<1> DEFINE Refused == \E p \in Requests : target'[p] = d /\ answer'[p] = "refused"
<1>1. Told(d, "refused") => Refused
  BY DoneStays DEF Told, IInv, AnswerInv, AnswerOK, Procs
<1>2. reversal'[d] > 0 => \/ reversal[d] > 0
                         \/ \E p \in Procs : ReverseCommit(p) /\ d = target[p]
  <2>1. ASSUME NEW p \in Procs, ReverseCommit(p), d # target[p] PROVE reversal'[d] = reversal[d]
    BY <2>1 DEF ReverseCommit, TypeOK
  <2>2. ASSUME NEW p \in Posters, PostCommit(p) \/ MarkFailed(p) PROVE reversal' = reversal
    BY <2>2 DEF PostCommit, MarkFailed
  <2> QED
    BY <2>1, <2>2, RowsFrame
<1>3. ASSUME NEW p \in Procs, ReverseCommit(p), d = target[p] PROVE event'[d]["reversed"].status = "PENDING"
  <2>1. Enqueue(d, "reversed")
    BY <1>3 DEF ReverseCommit
  <2> QED
    BY <2>1, Enqueued DEF Kinds
<1>4. reversal'[d] > 0 => event'[d]["reversed"].status # "none"
  BY <1>2, <1>3, EventStays DEF IInv, UndoInv, Kinds
<1>5. ASSUME NEW k \in Kinds, event'[d][k].status = "DEAD"
      PROVE  event'[d][k].attempts >= MaxDeliveries \/ Refused
  <2> DEFINE ev == event[d][k]
             ev2 == event'[d][k]
             Same == ev2 = ev
  <2>0. Same => ev2.attempts >= MaxDeliveries \/ Refused
    BY <1>1, <1>5 DEF IInv, UndoInv
  <2>1. ASSUME NEW p \in Posters, PostCommit(p) PROVE Same
    <3>1. target[p] \in Docs /\ Enqueue(target[p], "posted")
      BY <2>1 DEF PostCommit, At, ControlInv, OnTarget, Procs, Requests
    <3> QED
      BY <1>5, <3>1, Enqueued DEF Kinds
  <2>2. ASSUME NEW p \in Posters, Abandon(p) PROVE Same \/ Refused
    <3>1. answer'[p] = "refused" /\ target'[p] = target[p]
      BY <2>2 DEF Abandon, TypeOK, Procs, Requests
    <3> QED
      BY <1>5, <2>2, <3>1, Abandoned DEF Kinds, Procs, Requests
  <2>3. ASSUME NEW p \in Procs, ReverseCommit(p) PROVE Same
    <3>1. target[p] \in Docs /\ Enqueue(target[p], "reversed")
      BY <2>3 DEF ReverseCommit, At, ControlInv, OnTarget
    <3> QED
      BY <1>5, <3>1, Enqueued DEF Kinds
  <2>4. ASSUME NEW p \in Procs, RecordDelivery(p)
        PROVE  \/ ev2.attempts >= MaxDeliveries
               \/ ev2.status = ev.status /\ ev2.attempts = ev.attempts
    <3>1. row[p].doc \in Docs /\ row[p].kind \in Kinds
      BY <2>4 DEF RecordDelivery, At, ControlInv, Snapshot
    <3>2. PICK s \in {"ACKED", "DEAD", "FAILED"}, w \in When :
             /\ SetEvent(row[p].doc, row[p].kind, s, NextAttempt(row[p]), w)
             /\ s = "DEAD" => NextAttempt(row[p]) >= MaxDeliveries
      BY <2>4 DEF RecordDelivery, When
    <3> QED
      BY <1>5, <3>1, <3>2, EventWritten DEF Kinds
  <2>5. ASSUME NEW e \in Docs, NEW j \in Kinds, BackoffElapses(e, j) \/ Replay(e, j)
        PROVE  ev2.status = ev.status /\ ev2.attempts = ev.attempts
    <3>1. PICK s \in {"PENDING", "FAILED"} : SetEvent(e, j, s, event[e][j].attempts, "now")
      BY <2>5 DEF BackoffElapses, Replay
    <3> QED
      BY <1>5, <3>1, EventWritten DEF Kinds
  <2>6. ev2.status = ev.status /\ ev2.attempts = ev.attempts
          => ev2.attempts >= MaxDeliveries \/ Refused
    BY <1>1, <1>5 DEF IInv, UndoInv
  <2> QED
    BY <2>0, <2>1, <2>2, <2>3, <2>4, <2>5, <2>6, EventFrame
<1> QED
  BY <1>4, <1>5 DEF Told

\* Nobody else's step takes away what a process relies on.
LEMMA LocalFrame ==
    ASSUME TypeOK, ControlInv, IInv, [Next]_vars, NEW q \in Procs,
           pc'[q] = pc[q], target'[q] = target[q], row'[q] = row[q], reply'[q] = reply[q]
    PROVE  LocalOK(q)'
<1>1. LocalOK(q)
  BY DEF IInv, LocalInv
<1>2. pc[q] \in OnTarget => target[q] \in Docs
  BY DEF ControlInv
<1>3. pc[q] \in {"record", "complete"} => row[q].doc \in Docs
  BY DEF ControlInv, Snapshot
<1>4. pc'[q] \in {"record", "complete"} /\ row[q].kind \in taken[row[q].doc]
        => row'[q].kind \in taken'[row'[q].doc]
  BY <1>3, TakenFrame
<1>5. pc'[q] \in OnTarget /\ "posted" \in taken[target[q]] => "posted" \in taken'[target'[q]]
  BY <1>2, TakenFrame
<1>6. ASSUME pc[q] \in OnTarget
      PROVE  /\ physical[target[q]] = 1 => physical'[target'[q]] = 1
             /\ reversal[target[q]] = 1 => reversal'[target'[q]] = 1
  BY <1>2, <1>6, RowsGrow
<1>7. /\ pc'[q] = "record" /\ reply'[q] = "accepted" => row'[q].kind \in taken'[row'[q].doc]
      /\ pc'[q] = "complete" => row'[q].kind \in taken'[row'[q].doc]
  BY <1>1, <1>4 DEF LocalOK
<1>8. pc'[q] = "accept" => "posted" \in taken'[target'[q]]
  BY <1>1, <1>5 DEF LocalOK, OnTarget
<1>9. ASSUME pc'[q] = "rev_tx" PROVE physical'[target'[q]] = 1
  <2>1. pc[q] = "rev_tx" /\ pc[q] \in OnTarget
    BY <1>9 DEF OnTarget
  <2>2. physical[target[q]] = 1
    BY <1>1, <2>1 DEF LocalOK
  <2> QED
    BY <1>6, <2>1, <2>2
<1>10. ASSUME pc'[q] \in {"rev_done", "abandon"} PROVE reversal'[target'[q]] = 1
  <2>1. pc[q] \in {"rev_done", "abandon"} /\ pc[q] \in OnTarget
    BY <1>10 DEF OnTarget
  <2>2. reversal[target[q]] = 1
    BY <1>1, <2>1 DEF LocalOK
  <2> QED
    BY <1>6, <2>1, <2>2
<1> QED
  BY <1>7, <1>8, <1>9, <1>10 DEF LocalOK

LEMMA LocalStep == TypeOK /\ ControlInv /\ IInv /\ [Next]_vars => LocalInv'
<1> SUFFICES ASSUME TypeOK, ControlInv, IInv, [Next]_vars, NEW q \in Procs
             PROVE  LocalOK(q)'
  BY DEF LocalInv
<1> DEFINE Same == /\ pc'[q] = pc[q] /\ target'[q] = target[q]
                   /\ row'[q] = row[q] /\ reply'[q] = reply[q]
           Plain == pc'[q] \notin {"record", "complete", "accept", "rev_tx", "rev_done", "abandon"}
<1>0. Same \/ Plain => LocalOK(q)'
  BY LocalFrame DEF LocalOK
<1>1. CASE UNCHANGED vars
  BY <1>0, <1>1 DEF vars
<1>2. ASSUME NEW p \in Procs, NEW d \in Docs, PostRead(p, d) \/ ReverseRequest(p, d)
      PROVE  LocalOK(q)'
  BY <1>0, <1>2 DEF PostRead, ReverseRequest, TypeOK
<1>3. ASSUME NEW p \in Procs, PostCommit(p) \/ PostAbort(p) \/ MarkFailed(p) PROVE LocalOK(q)'
  BY <1>0, <1>3 DEF PostCommit, PostAbort, MarkFailed, TypeOK
<1>4. ASSUME NEW p \in Procs, DeliverUnread(p) \/ RecordAccepted(p) \/ ClaimReversal(p) \/ Abandon(p)
      PROVE  LocalOK(q)'
  BY <1>0, <1>4 DEF DeliverUnread, RecordAccepted, ClaimReversal, Abandon, TypeOK
<1>5. ASSUME NEW p \in Procs, DeliverRead(p) PROVE LocalOK(q)'
  <2>1. target[p] \in Docs
    BY <1>5 DEF DeliverRead, At, ControlInv, OnTarget
  <2>2. event[target[p]]["posted"].status = "ACKED" => "posted" \in taken[target[p]]
    BY <2>1 DEF IInv, AckInv, Kinds
  <2>3. taken' = taken /\ target' = target
    BY <1>5 DEF DeliverRead
  <2>4. CASE q = p
    BY <1>5, <2>2, <2>3, <2>4 DEF DeliverRead, LocalOK, TypeOK
  <2>5. CASE q # p
    BY <1>0, <1>5, <2>5 DEF DeliverRead, TypeOK
  <2> QED
    BY <2>4, <2>5
<1>6. ASSUME NEW p \in Procs, Send(p) PROVE LocalOK(q)'
  <2>1. CASE q # p
    BY <1>0, <1>6, <2>1 DEF Send, TypeOK
  <2>2. CASE q = p
    <3>1. PICK r \in batch[p], a \in Reply :
             /\ BooksTakes(r, a) \/ BooksDeclines(r, a)
             /\ row' = [row EXCEPT ![p] = r]
             /\ reply' = [reply EXCEPT ![p] = a]
      BY <1>6 DEF Send
    <3>2. r.doc \in Docs
      BY DEF TypeOK, Snapshot
    <3>3. a = "accepted" => r.kind \in taken'[r.doc]
      BY <3>1, <3>2 DEF BooksTakes, BooksDeclines, TypeOK
    <3>4. pc'[p] = "record"
      BY <1>6 DEF Send, TypeOK
    <3> QED
      BY <2>2, <3>1, <3>3, <3>4 DEF LocalOK, TypeOK
  <2> QED
    BY <2>1, <2>2
<1>7. ASSUME NEW p \in Procs, RecordDelivery(p) PROVE LocalOK(q)'
  <2>1. CASE q # p
    BY <1>0, <1>7, <2>1 DEF RecordDelivery, AfterRow, TypeOK
  <2>2. CASE q = p /\ Acks(reply[p])
    <3>1. row[p].kind \in taken[row[p].doc]
      BY <1>7, <2>2 DEF RecordDelivery, At, Acks, IInv, LocalInv, LocalOK
    <3>2. pc'[p] = "complete" /\ row' = row /\ taken' = taken
      BY <1>7, <2>2 DEF RecordDelivery, TypeOK
    <3> QED
      BY <2>2, <3>1, <3>2 DEF LocalOK
  <2>3. CASE q = p /\ ~Acks(reply[p])
    <3>1. Plain
      BY <1>7, <2>3 DEF RecordDelivery, AfterRow, TypeOK
    <3> QED
      BY <1>0, <3>1
  <2> QED
    BY <2>1, <2>2, <2>3
<1>8. ASSUME NEW p \in Procs, CompleteForEvent(p) PROVE LocalOK(q)'
  <2>1. CASE q # p
    BY <1>0, <1>8, <2>1 DEF CompleteForEvent, AfterRow, TypeOK
  <2>2. CASE q = p /\ p \in Posters
    <3>1. row[p].kind \in taken[row[p].doc] /\ row[p].doc = target[p] /\ row[p].kind = "posted"
      BY <1>8, <2>2 DEF CompleteForEvent, At, IInv, LocalInv, LocalOK, PosterInv, PosterOK
    <3>2. pc'[p] = "accept" /\ target' = target /\ taken' = taken
      BY <1>8, <2>2 DEF CompleteForEvent, AfterRow, TypeOK
    <3> QED
      BY <2>2, <3>1, <3>2 DEF LocalOK
  <2>3. CASE q = p /\ p \notin Posters
    <3>1. Plain
      BY <1>8, <2>3 DEF CompleteForEvent, AfterRow, TypeOK
    <3> QED
      BY <1>0, <3>1
  <2> QED
    BY <2>1, <2>2, <2>3
<1>9. ASSUME NEW p \in Procs, ReverseRead(p) PROVE LocalOK(q)'
  <2>1. target[p] \in Docs
    BY <1>9 DEF ReverseRead, At, ControlInv, OnTarget
  <2>2. /\ status[target[p]] = "POSTED" => physical[target[p]] = 1
        /\ status[target[p]] = "REVERSED" => reversal[target[p]] = 1
    BY <2>1 DEF IInv, RowsInv
  <2>3. target' = target /\ physical' = physical /\ reversal' = reversal
    BY <1>9 DEF ReverseRead
  <2>4. CASE q = p
    BY <1>9, <2>2, <2>3, <2>4 DEF ReverseRead, AlreadyReversed, LocalOK, TypeOK
  <2>5. CASE q # p
    BY <1>0, <1>9, <2>5 DEF ReverseRead, TypeOK
  <2> QED
    BY <2>4, <2>5
<1>10. ASSUME NEW p \in Procs, ReverseCommit(p) PROVE LocalOK(q)'
  <2>1. CASE q # p
    BY <1>0, <1>10, <2>1 DEF ReverseCommit, TypeOK
  <2>2. CASE q = p
    <3>1. target[p] \in Docs /\ reversal[target[p]] = 0
      BY <1>10 DEF ReverseCommit, At, IndexAllows, ControlInv, OnTarget
    <3>2. reversal'[target'[p]] = 1 /\ pc'[p] = "rev_done"
      BY <1>10, <3>1 DEF ReverseCommit, TypeOK
    <3> QED
      BY <2>2, <3>2 DEF LocalOK
  <2> QED
    BY <2>1, <2>2
<1>11. ASSUME NEW p \in Procs, ReverseAbort(p) \/ RecordReversalFailed(p) PROVE LocalOK(q)'
  BY <1>0, <1>11 DEF ReverseAbort, RecordReversalFailed, TypeOK
<1>12. ASSUME NEW p \in Procs, RecordReversed(p) PROVE LocalOK(q)'
  <2>1. CASE q # p
    BY <1>0, <1>12, <2>1 DEF RecordReversed, TypeOK
  <2>2. CASE q = p
    <3>1. reversal[target[p]] = 1
      BY <1>12 DEF RecordReversed, At, IInv, LocalInv, LocalOK
    <3>2. reversal'[target'[p]] = 1 /\ pc'[p] \in {"done", "abandon", "repair"}
      BY <1>12, <3>1 DEF RecordReversed, TypeOK
    <3> QED
      BY <2>2, <3>2 DEF LocalOK
  <2> QED
    BY <2>1, <2>2
<1>13. ASSUME NEW p \in Procs, FetchBatch(p) \/ FetchRepairs(p) \/ NextRepair(p) PROVE LocalOK(q)'
  BY <1>0, <1>13 DEF FetchBatch, FetchRepairs, NextRepair, TypeOK
<1>14. ASSUME NEW p \in Procs, Crash(p) PROVE LocalOK(q)'
  BY <1>0, <1>14 DEF Crash, TypeOK
<1>15. ASSUME NEW d \in Docs, NEW k \in Kinds,
              BackoffElapses(d, k) \/ RetryElapses(d) \/ Replay(d, k)
       PROVE  LocalOK(q)'
  BY <1>0, <1>15 DEF BackoffElapses, RetryElapses, Replay
<1> QED
  BY <1>1, <1>2, <1>3, <1>4, <1>5, <1>6, <1>7, <1>8, <1>9, <1>10, <1>11, <1>12, <1>13, <1>14,
     <1>15, StepCases DEF Delivery, Reversal, Procs, Requests, Workers

LEMMA PosterStep == TypeOK /\ ControlInv /\ IInv /\ [Next]_vars => PosterInv'
<1> SUFFICES ASSUME TypeOK, ControlInv, IInv, [Next]_vars, NEW q \in Posters
             PROVE  PosterOK(q)'
  BY DEF PosterInv
<1>q. q \in Procs /\ q \notin Workers
  BY ProcsAssumption DEF Procs, Requests, Workers
<1> DEFINE Same == /\ pc'[q] = pc[q] /\ target'[q] = target[q]
                   /\ row'[q] = row[q] /\ batch'[q] = batch[q]
           Plain == pc'[q] \notin Delivering
<1>0. Same \/ Plain => PosterOK(q)'
  BY DEF IInv, PosterInv, PosterOK, Delivering
<1>1. CASE UNCHANGED vars
  BY <1>0, <1>1 DEF vars
<1>2. ASSUME NEW p \in Procs, NEW d \in Docs, PostRead(p, d) \/ ReverseRequest(p, d)
      PROVE  PosterOK(q)'
  BY <1>q, <1>0, <1>2 DEF PostRead, ReverseRequest, TypeOK, Delivering
<1>3. ASSUME NEW p \in Procs, PostCommit(p) \/ PostAbort(p) \/ MarkFailed(p) PROVE PosterOK(q)'
  BY <1>q, <1>0, <1>3 DEF PostCommit, PostAbort, MarkFailed, TypeOK, Delivering
<1>4. ASSUME NEW p \in Procs, DeliverUnread(p) \/ RecordAccepted(p) \/ ClaimReversal(p) \/ Abandon(p)
      PROVE  PosterOK(q)'
  BY <1>q, <1>0, <1>4 DEF DeliverUnread, RecordAccepted, ClaimReversal, Abandon, TypeOK, Delivering
<1>5. ASSUME NEW p \in Procs, DeliverRead(p) PROVE PosterOK(q)'
  <2>1. CASE q # p
    BY <1>q, <1>0, <1>5, <2>1 DEF DeliverRead, TypeOK
  <2>2. CASE q = p /\ pc'[p] = "accept"
    BY <1>0, <2>2 DEF Delivering
  <2>3. CASE q = p /\ pc'[p] # "accept"
    <3>1. pc'[p] = "send" /\ batch'[p] = {RowOf(target[p], "posted")} /\ target' = target
      BY <1>5, <2>3 DEF DeliverRead, TypeOK
    <3> QED
      BY <2>3, <3>1 DEF RowOf, PosterOK
  <2> QED
    BY <2>1, <2>2, <2>3
<1>6. ASSUME NEW p \in Procs, Send(p) PROVE PosterOK(q)'
  <2>1. CASE q # p
    BY <1>q, <1>0, <1>6, <2>1 DEF Send, TypeOK
  <2>2. CASE q = p
    <3>1. PICK r \in batch[p] : row' = [row EXCEPT ![p] = r]
      BY <1>6 DEF Send
    <3>2. r.doc = target[p] /\ r.kind = "posted"
      BY <1>6, <2>2 DEF Send, At, IInv, PosterInv, PosterOK
    <3>3. pc'[p] = "record" /\ target' = target
      BY <1>6 DEF Send, TypeOK
    <3> QED
      BY <2>2, <3>1, <3>2, <3>3 DEF PosterOK, TypeOK
  <2> QED
    BY <2>1, <2>2
<1>7. ASSUME NEW p \in Procs, RecordDelivery(p) \/ CompleteForEvent(p) PROVE PosterOK(q)'
  <2>1. CASE q # p
    BY <1>q, <1>0, <1>7, <2>1 DEF RecordDelivery, CompleteForEvent, AfterRow, TypeOK
  <2>2. CASE q = p
    <3>1. row[p].doc = target[p] /\ row[p].kind = "posted"
      BY <1>7, <2>2 DEF RecordDelivery, CompleteForEvent, At, IInv, PosterInv, PosterOK
    <3>2. pc'[p] \in {"complete", "accept", "claim"} /\ row' = row /\ target' = target
      BY <1>q, <1>7, <2>2 DEF RecordDelivery, CompleteForEvent, AfterRow, TypeOK
    <3> QED
      BY <2>2, <3>1, <3>2 DEF PosterOK
  <2> QED
    BY <2>1, <2>2
<1>8. ASSUME NEW p \in Procs, ReverseRead(p) \/ ReverseCommit(p) \/ ReverseAbort(p) PROVE PosterOK(q)'
  BY <1>q, <1>0, <1>8 DEF ReverseRead, ReverseCommit, ReverseAbort, TypeOK, Delivering
<1>9. ASSUME NEW p \in Procs, RecordReversed(p) \/ RecordReversalFailed(p) PROVE PosterOK(q)'
  BY <1>q, <1>0, <1>9 DEF RecordReversed, RecordReversalFailed, TypeOK, Delivering
<1>10. ASSUME NEW p \in Workers, FetchBatch(p) \/ FetchRepairs(p) \/ NextRepair(p) PROVE PosterOK(q)'
  BY <1>q, <1>0, <1>10 DEF FetchBatch, FetchRepairs, NextRepair, TypeOK, Procs
<1>11. ASSUME NEW p \in Procs, Crash(p) PROVE PosterOK(q)'
  BY <1>q, <1>0, <1>11 DEF Crash, TypeOK, Delivering
<1>12. ASSUME NEW d \in Docs, NEW k \in Kinds,
              BackoffElapses(d, k) \/ RetryElapses(d) \/ Replay(d, k)
       PROVE  PosterOK(q)'
  BY <1>0, <1>12 DEF BackoffElapses, RetryElapses, Replay
<1> QED
  BY <1>1, <1>2, <1>3, <1>4, <1>5, <1>6, <1>7, <1>8, <1>9, <1>10, <1>11, <1>12, StepCases
     DEF Delivery, Reversal, Procs, Requests

LEMMA AnswerStep == TypeOK /\ ControlInv /\ IInv /\ [Next]_vars => AnswerInv'
<1> SUFFICES ASSUME TypeOK, ControlInv, IInv, [Next]_vars, NEW q \in Procs
             PROVE  AnswerOK(q)'
  BY DEF AnswerInv
<1>1. CASE answer[q] # "none"
  <2>1. pc'[q] = "done" /\ target'[q] = target[q] /\ answer'[q] = answer[q]
    BY <1>1, DoneStays DEF IInv, AnswerInv, AnswerOK
  <2>2. AnswerOK(q)
    BY DEF IInv, AnswerInv
  <2>3. ASSUME q \in Posters, answer[q] = "accepted"
        PROVE  target'[q] \in Docs /\ "posted" \in taken'[target'[q]]
    <3>1. target[q] \in Docs /\ "posted" \in taken[target[q]]
      BY <2>2, <2>3 DEF AnswerOK
    <3>2. "posted" \in taken'[target[q]]
      BY <3>1, TakenFrame
    <3> QED
      BY <2>1, <3>1, <3>2
  <2>4. ASSUME answer[q] \in {"refused", "unavailable"}
        PROVE  target'[q] \in Docs /\ reversal'[target'[q]] = 1
    <3>1. target[q] \in Docs /\ reversal[target[q]] = 1
      BY <2>2, <2>4 DEF AnswerOK
    <3>2. reversal'[target[q]] = 1
      BY <3>1, RowsGrow
    <3> QED
      BY <2>1, <3>1, <3>2
  <2> QED
    BY <2>1, <2>3, <2>4 DEF AnswerOK
<1>2. CASE answer[q] = "none"
  <2> DEFINE Same == answer'[q] = "none"
             Other == pc'[q] = "done" /\ answer'[q] \notin {"accepted", "refused", "unavailable"}
  <2>0. Same \/ Other => AnswerOK(q)'
    BY DEF AnswerOK
  <2>1. CASE UNCHANGED vars
    BY <1>2, <2>0, <2>1 DEF vars
  <2>2. ASSUME NEW p \in Procs, NEW d \in Docs, PostRead(p, d) \/ ReverseRequest(p, d)
        PROVE  AnswerOK(q)'
    BY <1>2, <2>0, <2>2 DEF PostRead, ReverseRequest, TypeOK
  <2>3. ASSUME NEW p \in Procs, PostCommit(p) \/ PostAbort(p) \/ MarkFailed(p) PROVE AnswerOK(q)'
    BY <1>2, <2>0, <2>3 DEF PostCommit, PostAbort, MarkFailed, TypeOK
  <2>4. ASSUME NEW p \in Procs, DeliverRead(p) \/ DeliverUnread(p) \/ ClaimReversal(p) PROVE AnswerOK(q)'
    BY <1>2, <2>0, <2>4 DEF DeliverRead, DeliverUnread, ClaimReversal
  <2>5. ASSUME NEW p \in Procs, RecordAccepted(p) PROVE AnswerOK(q)'
    <3>1. target[p] \in Docs /\ "posted" \in taken[target[p]]
      BY <2>5 DEF RecordAccepted, At, ControlInv, OnTarget, IInv, LocalInv, LocalOK
    <3>2. target' = target /\ taken' = taken /\ pc' = [pc EXCEPT ![p] = "done"]
          /\ answer' = [answer EXCEPT ![p] = "accepted"]
      BY <2>5 DEF RecordAccepted
    <3> QED
      BY <1>2, <2>0, <3>1, <3>2 DEF AnswerOK, TypeOK
  <2>6. ASSUME NEW p \in Procs, Abandon(p) \/ RecordReversed(p) PROVE AnswerOK(q)'
    <3>1. target[p] \in Docs /\ reversal[target[p]] = 1
      BY <2>6 DEF Abandon, RecordReversed, At, ControlInv, OnTarget, IInv, LocalInv, LocalOK
    <3>2. target' = target /\ reversal' = reversal
      BY <2>6 DEF Abandon, RecordReversed
    <3>3. \/ UNCHANGED answer
          \/ \E a \in {"refused", "unavailable", "reversed"} :
                /\ pc' = [pc EXCEPT ![p] = "done"]
                /\ answer' = [answer EXCEPT ![p] = a]
      BY <2>6 DEF Abandon, RecordReversed
    <3> QED
      BY <1>2, <2>0, <3>1, <3>2, <3>3 DEF AnswerOK, TypeOK
  <2>7. ASSUME NEW p \in Procs, Delivery(p) PROVE AnswerOK(q)'
    BY <1>2, <2>0, <2>7 DEF Delivery, Send, RecordDelivery, CompleteForEvent
  <2>8. ASSUME NEW p \in Procs, ReverseRead(p) \/ ReverseCommit(p) \/ ReverseAbort(p) PROVE AnswerOK(q)'
    BY <1>2, <2>0, <2>8 DEF ReverseRead, ReverseCommit, ReverseAbort
  <2>9. ASSUME NEW p \in Procs, RecordReversalFailed(p) PROVE AnswerOK(q)'
    BY <1>2, <2>0, <2>9 DEF RecordReversalFailed, TypeOK
  <2>10. ASSUME NEW p \in Procs,
                FetchBatch(p) \/ FetchRepairs(p) \/ NextRepair(p) \/ Crash(p)
         PROVE  AnswerOK(q)'
    BY <1>2, <2>0, <2>10 DEF FetchBatch, FetchRepairs, NextRepair, Crash
  <2>11. ASSUME NEW d \in Docs, NEW k \in Kinds,
                BackoffElapses(d, k) \/ RetryElapses(d) \/ Replay(d, k)
         PROVE  AnswerOK(q)'
    BY <1>2, <2>0, <2>11 DEF BackoffElapses, RetryElapses, Replay
  <2> QED
    BY <2>1, <2>2, <2>3, <2>4, <2>5, <2>6, <2>7, <2>8, <2>9, <2>10, <2>11, StepCases
       DEF Reversal, Procs, Requests, Workers
<1> QED
  BY <1>1, <1>2

-----------------------------------------------------------------------------
(* The theorems.                                                           *)

THEOREM Invariant == Spec => []IInv
<1>1. ASSUME Init PROVE IInv
  <2>1. RowsInv
    BY <1>1 DEF Init, RowsInv
  <2>2. AckInv /\ ClaimInv /\ UndoInv
    BY <1>1 DEF Init, AckInv, ClaimInv, UndoInv, Kinds
  <2>3. \A p \in Procs : pc[p] = "idle" /\ answer[p] = "none"
    BY <1>1 DEF Init
  <2>4. LocalInv
    BY <2>3 DEF LocalInv, LocalOK
  <2>5. PosterInv
    BY <2>3 DEF PosterInv, PosterOK, Procs, Requests
  <2>6. AnswerInv
    BY <2>3 DEF AnswerInv, AnswerOK
  <2> QED
    BY <2>1, <2>2, <2>4, <2>5, <2>6 DEF IInv
<1>2. (TypeOK /\ ControlInv) /\ IInv /\ [Next]_vars => IInv'
  BY RowsStep, AckStep, ClaimStep, UndoStep, LocalStep, PosterStep, AnswerStep DEF IInv
<1> QED
  BY <1>1, <1>2, TypeCorrect, PTL DEF Spec

(***************************************************************************)
(* However many requests and sweeps race on a document, its stock moves at *)
(* most once and is moved back at most once (post(), reverse(), and the    *)
(* unique index of inv_stock_movements between them).                      *)
(***************************************************************************)
THEOREM MovesOnce == Spec => []StockMovesOnce
<1>1. IInv => StockMovesOnce
  BY DEF IInv, RowsInv, StockMovesOnce
<1> QED
  BY <1>1, Invariant, PTL

(***************************************************************************)
(* Stock that moved with no journal behind it is always known on disk:     *)
(* claim() in the transaction, claimReversal() before the reversal.        *)
(***************************************************************************)
THEOREM Durable == Spec => []DurableRecord
<1>1. TypeOK /\ IInv => DurableRecord
  <2> SUFFICES ASSUME TypeOK, IInv, NEW d \in Docs, Moved(d), "posted" \notin taken[d]
               PROVE  /\ event[d]["posted"].status \in {"PENDING", "FAILED", "DEAD"}
                      /\ d \in WaitDocs => handoff[d].state \in {"AWAITING_BOOKS", "REVERSAL_PENDING"}
    BY DEF DurableRecord
  <2>1. physical[d] = 1 /\ reversal[d] = 0
    <3>1. physical[d] \in Nat /\ reversal[d] \in Nat
      BY DEF TypeOK
    <3>2. physical[d] <= 1 /\ physical[d] > reversal[d]
      BY DEF IInv, RowsInv, Moved
    <3> QED
      BY <3>1, <3>2
  <2>2. event[d]["posted"].status \in EventStatus \ {"none", "ACKED"}
    BY <2>1 DEF TypeOK, EventRow, IInv, AckInv, ClaimInv, Kinds
  <2>3. d \in WaitDocs => handoff[d].state \in HandoffState \ {"none", "ACCEPTED", "REVERSED"}
    BY <2>1 DEF TypeOK, HandoffRow, IInv, AckInv, ClaimInv
  <2> QED
    BY <2>2, <2>3 DEF EventStatus, HandoffState
<1> QED
  BY <1>1, Invariant, TypeCorrect, PTL

(***************************************************************************)
(* A user told "accepted" has a journal in Books.                          *)
(***************************************************************************)
THEOREM PostedHasJournal == Spec => []ToldPostedHasJournal
<1>1. IInv => ToldPostedHasJournal
  BY DEF IInv, AnswerInv, AnswerOK, ToldPostedHasJournal, Procs, Requests
<1> QED
  BY <1>1, Invariant, PTL

(***************************************************************************)
(* A user told that no stock has changed has no stock moved: the reversal  *)
(* of undoPostBooksWouldNotTake() is committed before post() says so.      *)
(***************************************************************************)
THEOREM UndoneHasNoStock == Spec => []ToldUndoneHasNoStock
<1>1. TypeOK /\ IInv => ToldUndoneHasNoStock
  BY DEF TypeOK, IInv, RowsInv, AnswerInv, AnswerOK, ToldUndoneHasNoStock, Moved, Procs, Requests
<1> QED
  BY <1>1, Invariant, TypeCorrect, PTL

(***************************************************************************)
(* The reversal of a document whose journal Books holds stays on its way   *)
(* to Books until it is taken or has used up its attempts, unless Books    *)
(* had refused the posting: abandonForDocument() runs in no other case.    *)
(***************************************************************************)
THEOREM UndoIsSent == Spec => []UndoReachesBooks
<1>1. TypeOK /\ IInv => UndoReachesBooks
  <2> SUFFICES ASSUME TypeOK, IInv, NEW d \in Docs, reversal[d] > 0, ~Told(d, "refused")
               PROVE  UndoOnItsWay(d)
    BY DEF UndoReachesBooks
  <2>1. event[d]["reversed"].status \in EventStatus \ {"none"}
    BY DEF TypeOK, EventRow, IInv, UndoInv, Kinds
  <2>2. event[d]["reversed"].status = "ACKED" => "reversed" \in taken[d]
    BY DEF IInv, AckInv, Kinds
  <2>3. event[d]["reversed"].status = "DEAD" => event[d]["reversed"].attempts >= MaxDeliveries
    BY DEF IInv, UndoInv, Kinds
  <2> QED
    BY <2>1, <2>2, <2>3 DEF UndoOnItsWay, EventStatus
<1> QED
  BY <1>1, Invariant, TypeCorrect, PTL

-----------------------------------------------------------------------------
(* BooksHandoff implements StockAndJournal.                                *)

\* Books, a batch and a row in hand only know events that exist; an event or a
\* handoff row exists only of stock that moved.
SentInv ==
    /\ \A d \in Docs : \A k \in taken[d] : event[d][k].status # "none"
    /\ \A d \in Docs :
        /\ event[d]["posted"].status # "none" => physical[d] = 1
        /\ event[d]["reversed"].status # "none" => reversal[d] = 1
        /\ handoff[d].state # "none" => physical[d] = 1
    /\ \A p \in Procs :
        /\ \A r \in batch[p] : event[r.doc][r.kind].status # "none"
        /\ row[p] # NoRow => event[row[p].doc][row[p].kind].status # "none"
        /\ \A d \in todo[p] : physical[d] = 1

\* A post after its transaction, or a reversal that will write a handoff.
Settling(p) ==
    \/ pc[p] \in {"rev_read", "rev_tx", "rev_done", "rev_failed"}
    \/ p \in Posters /\ pc[p] \in {"deliver", "send", "record", "complete", "accept", "claim"}

\* Whoever closes a handoff or opens it again does so of stock that moved.
RepairInv == \A p \in Posters \cup Crons : Settling(p) => physical[target[p]] = 1

SInv == TypeOK /\ ControlInv /\ IInv /\ SentInv /\ RepairInv

\* An event comes into being with the movement it tells of.
LEMMA EventAppears ==
    ASSUME SInv, [Next]_vars, NEW d \in Docs, NEW k \in Kinds,
           event[d][k].status = "none", event'[d][k].status # "none"
    PROVE  \/ \E p \in Posters : PostCommit(p) /\ d = target[p] /\ k = "posted"
           \/ \E p \in Procs : ReverseCommit(p) /\ d = target[p] /\ k = "reversed"
<1> USE DEF SInv
<1>1. ASSUME NEW p \in Posters, PostCommit(p) PROVE d = target[p] /\ k = "posted"
  <2>1. target[p] \in Docs /\ Enqueue(target[p], "posted")
    BY <1>1 DEF PostCommit, At, ControlInv, OnTarget, Procs, Requests
  <2> QED
    BY <2>1, Enqueued DEF Kinds
<1>2. ASSUME NEW p \in Procs, ReverseCommit(p) PROVE d = target[p] /\ k = "reversed"
  <2>1. target[p] \in Docs /\ Enqueue(target[p], "reversed")
    BY <1>2 DEF ReverseCommit, At, ControlInv, OnTarget
  <2> QED
    BY <2>1, Enqueued DEF Kinds
<1>3. ASSUME NEW p \in Posters, Abandon(p) PROVE FALSE
  BY <1>3, Abandoned DEF Procs, Requests
<1>4. ASSUME NEW p \in Procs, RecordDelivery(p) PROVE FALSE
  <2>1. row[p] \in Snapshot
    BY <1>4 DEF RecordDelivery, At, ControlInv
  <2>2. row[p].doc \in Docs /\ row[p].kind \in Kinds
    BY <2>1 DEF Snapshot
  <2>3. event[row[p].doc][row[p].kind].status # "none"
    BY <2>1, NoRowAssumption DEF SentInv
  <2>4. PICK s \in {"ACKED", "DEAD", "FAILED"}, w \in When :
           SetEvent(row[p].doc, row[p].kind, s, NextAttempt(row[p]), w)
    BY <1>4 DEF RecordDelivery, When
  <2> QED
    BY <2>2, <2>3, <2>4, EventWritten
<1>5. ASSUME NEW e \in Docs, NEW j \in Kinds, BackoffElapses(e, j) \/ Replay(e, j)
      PROVE  FALSE
  <2>1. /\ event[e][j].status # "none"
        /\ \E s \in {"PENDING", "FAILED"} : SetEvent(e, j, s, event[e][j].attempts, "now")
    BY <1>5 DEF BackoffElapses, Replay
  <2> QED
    BY <2>1, EventWritten
<1> QED
  BY <1>1, <1>2, <1>3, <1>4, <1>5, EventFrame

\* What q has in hand is what it had in hand before, or less.
ReadsNothing(q) ==
    /\ batch'[q] \subseteq batch[q]
    /\ row'[q] \in {row[q], NoRow} \cup batch[q]
    /\ todo'[q] \subseteq todo[q]

\* A batch is read from the outbox, and a row taken from the batch.
LEMMA BatchCases ==
    ASSUME TypeOK, [Next]_vars, NEW q \in Procs
    PROVE  /\ \/ batch'[q] \subseteq batch[q]
              \/ \E p \in Posters : DeliverRead(p) /\ q = p
              \/ \E p \in Workers : FetchBatch(p) /\ q = p
           /\ row'[q] \in {row[q], NoRow} \cup batch[q]
           /\ \/ todo'[q] \subseteq todo[q]
              \/ \E p \in Workers : FetchRepairs(p) /\ q = p
<1> USE DEF TypeOK
<1> USE DEF ReadsNothing
<1>1. UNCHANGED vars => ReadsNothing(q)
  BY DEF vars
<1>2. ASSUME NEW p \in Procs, NEW d \in Docs, PostRead(p, d) \/ ReverseRequest(p, d) PROVE ReadsNothing(q)
  BY <1>2 DEF PostRead, ReverseRequest, Finish, Continue
<1>3. ASSUME NEW p \in Procs, PostCommit(p) \/ PostAbort(p) \/ MarkFailed(p) PROVE ReadsNothing(q)
  BY <1>3 DEF PostCommit, PostAbort, MarkFailed, Finish, Continue
<1>4. ASSUME NEW p \in Posters, DeliverRead(p) PROVE ReadsNothing(q) \/ (q = p /\ row' = row /\ todo' = todo)
  BY <1>4 DEF DeliverRead
<1>5. ASSUME NEW p \in Procs, DeliverUnread(p) \/ RecordAccepted(p) \/ ClaimReversal(p) \/ Abandon(p)
      PROVE  ReadsNothing(q)
  BY <1>5 DEF DeliverUnread, RecordAccepted, ClaimReversal, Abandon, Finish
<1>6. ASSUME NEW p \in Procs, Send(p) PROVE ReadsNothing(q)
  BY <1>6 DEF Send
<1>7. ASSUME NEW p \in Procs, RecordDelivery(p) \/ CompleteForEvent(p) PROVE ReadsNothing(q)
  BY <1>7 DEF RecordDelivery, CompleteForEvent, AfterRow
<1>8. ASSUME NEW p \in Procs, Reversal(p) PROVE ReadsNothing(q)
  BY <1>8 DEF Reversal, ReverseRead, ReverseCommit, ReverseAbort, RecordReversed,
     RecordReversalFailed, Finish, Continue
<1>9. ASSUME NEW p \in Workers, FetchBatch(p) PROVE ReadsNothing(q) \/ (q = p /\ row' = row /\ todo' = todo)
  BY <1>9 DEF FetchBatch
<1>10. ASSUME NEW p \in Workers, FetchRepairs(p) PROVE ReadsNothing(q) \/ (q = p /\ row' = row /\ batch' = batch)
  BY <1>10 DEF FetchRepairs
<1>11. ASSUME NEW p \in Procs, NextRepair(p) \/ Crash(p) PROVE ReadsNothing(q)
  <2>1. CASE NextRepair(p) /\ todo[p] # {}
    <3>1. PICK d \in todo[p] : todo' = [todo EXCEPT ![p] = @ \ {d}]
      BY <2>1 DEF NextRepair
    <3>2. todo'[q] \subseteq todo[q]
      BY <3>1
    <3> QED
      BY <2>1, <3>2 DEF NextRepair
  <2>2. CASE NextRepair(p) /\ todo[p] = {}
    BY <2>2 DEF NextRepair
  <2>3. CASE Crash(p)
    BY <2>3 DEF Crash
  <2> QED
    BY <1>11, <2>1, <2>2, <2>3
<1>12. ASSUME NEW d \in Docs, NEW k \in Kinds,
              BackoffElapses(d, k) \/ RetryElapses(d) \/ Replay(d, k)
       PROVE  ReadsNothing(q)
  BY <1>12 DEF BackoffElapses, RetryElapses, Replay
<1> HIDE DEF TypeOK, ReadsNothing
<1>13. \/ ReadsNothing(q)
       \/ \E p \in Posters : DeliverRead(p)
       \/ \E p \in Workers : FetchBatch(p)
       \/ \E p \in Workers : FetchRepairs(p)
  BY <1>1, <1>2, <1>3, <1>5, <1>6, <1>7, <1>8, <1>11, <1>12, StepCases
     DEF Delivery, Procs, Requests, Workers
<1> QED
  BY <1>4, <1>9, <1>10, <1>13 DEF ReadsNothing

\* A handoff row is written of a document that has moved.
LEMMA HandoffOfMoved ==
    ASSUME SInv, [Next]_vars, NEW d \in Docs, handoff'[d].state # "none"
    PROVE  physical'[d] = 1
<1>0. TypeOK /\ ControlInv /\ IInv /\ SentInv /\ RepairInv
  BY DEF SInv
<1>1. physical[d] = 1 => physical'[d] = 1
  BY <1>0, RowsGrow
<1>2. handoff[d].state # "none" => physical[d] = 1
  BY <1>0 DEF SentInv
<1> DEFINE Goal == handoff[d].state # "none" \/ physical[d] = 1 \/ physical'[d] = 1
<1>3. ASSUME NEW p \in Posters, PostCommit(p) PROVE Goal
  <2>1. target[p] \in Docs
    BY <1>0, <1>3 DEF PostCommit, At, ControlInv, OnTarget, Procs, Requests
  <2>2. UNCHANGED handoff \/ SetHandoff(target[p], "AWAITING_BOOKS", 0, "never")
    BY <1>3 DEF PostCommit, Claim
  <2>3. CASE d = target[p]
    BY <1>0, <1>3, <2>3 DEF PostCommit, IndexAllows, TypeOK
  <2>4. CASE d # target[p]
    BY <1>0, <2>1, <2>2, <2>4, HandoffWritten
  <2> QED
    BY <2>3, <2>4
<1>4. ASSUME NEW p \in Posters, RecordAccepted(p) \/ ClaimReversal(p) PROVE Goal
  <2>1. target[p] \in Docs /\ physical[target[p]] = 1
    BY <1>0, <1>4 DEF RecordAccepted, ClaimReversal, At, ControlInv, OnTarget, RepairInv, Settling,
       Procs, Requests
  <2>2. \/ Transition(target[p], "ACCEPTED", "never")
        \/ Transition(target[p], "REVERSAL_PENDING", "now")
    BY <1>4 DEF RecordAccepted, ClaimReversal
  <2> QED
    BY <1>0, <2>1, <2>2, Transitioned
<1>5. ASSUME NEW p \in Procs, CompleteForEvent(p) PROVE Goal
  <2>1. row[p].doc \in Docs
    BY <1>0, <1>5 DEF CompleteForEvent, At, ControlInv, Snapshot
  <2>2. \/ UNCHANGED handoff
        \/ handoff[row[p].doc].state = "AWAITING_BOOKS" /\ Transition(row[p].doc, "ACCEPTED", "never")
    BY <1>5 DEF CompleteForEvent
  <2> QED
    BY <1>0, <2>1, <2>2, Transitioned
<1>6. ASSUME NEW p \in Procs, RecordReversed(p) \/ RecordReversalFailed(p) PROVE Goal
  <2>1. target[p] \in Docs
    BY <1>0, <1>6 DEF RecordReversed, RecordReversalFailed, At, ControlInv, OnTarget
  <2>2. CASE p \in Reversers
    BY <1>6, <2>2 DEF RecordReversed, RecordReversalFailed
  <2>3. CASE p \in Posters \cup Crons /\ p \notin Reversers
    <3>1. physical[target[p]] = 1
      BY <1>0, <1>6, <2>3 DEF RecordReversed, RecordReversalFailed, At, RepairInv, Settling
    <3>2. \/ Transition(target[p], "REVERSED", "never")
          \/ SetHandoff(target[p], "REVERSAL_PENDING", handoff[target[p]].attempts + 1, "later")
      BY <1>6, <2>3 DEF RecordReversed, RecordReversalFailed
    <3> QED
      BY <1>0, <2>1, <3>1, <3>2, Transitioned, HandoffWritten
  <2>4. p \in Reversers \/ p \in Posters \cup Crons
    BY <1>6 DEF RecordReversed, RecordReversalFailed
  <2> QED
    BY <2>2, <2>3, <2>4
<1>7. ASSUME NEW e \in Docs, RetryElapses(e) PROVE Goal
  BY <1>0, <1>7, Transitioned DEF RetryElapses
<1> QED
  BY <1>1, <1>2, <1>3, <1>4, <1>5, <1>6, <1>7, HandoffFrame

LEMMA SentStep == SInv /\ [Next]_vars => SentInv'
<1> SUFFICES ASSUME SInv, [Next]_vars PROVE SentInv'
  OBVIOUS
<1>0. TypeOK /\ ControlInv /\ IInv /\ SentInv /\ RepairInv
  BY DEF SInv
<1>1. ASSUME NEW d \in Docs, NEW k \in Kinds, event[d][k].status # "none"
      PROVE  event'[d][k].status # "none"
  BY <1>0, <1>1, EventStays
<1>2. ASSUME NEW p \in Procs, NEW r \in batch[p]
      PROVE  r.doc \in Docs /\ r.kind \in Kinds
  BY <1>0 DEF TypeOK, Snapshot
<1>3. ASSUME NEW d \in Docs, NEW k \in taken'[d] PROVE event'[d][k].status # "none"
  <2>1. taken[d] \subseteq Kinds
    BY <1>0 DEF TypeOK
  <2>2. CASE k \in taken[d]
    BY <1>0, <1>1, <1>3, <2>1, <2>2 DEF SentInv
  <2>3. CASE k \notin taken[d]
    <3>0. PICK p \in Procs :
             \E r \in batch[p] : taken' = [taken EXCEPT ![r.doc] = @ \cup {r.kind}]
      BY <1>0, <1>3, <2>3, TakenCases
    <3>1. PICK r \in batch[p] : taken' = [taken EXCEPT ![r.doc] = @ \cup {r.kind}]
      BY <3>0
    <3>2. d = r.doc /\ k = r.kind
      BY <1>0, <1>3, <2>3, <3>1 DEF TypeOK
    <3> QED
      BY <1>0, <1>1, <1>2, <3>1, <3>2 DEF SentInv
  <2> QED
    BY <2>2, <2>3
<1>4. ASSUME NEW d \in Docs
      PROVE  /\ event'[d]["posted"].status # "none" => physical'[d] = 1
             /\ event'[d]["reversed"].status # "none" => reversal'[d] = 1
  <2>1. ASSUME NEW p \in Posters, PostCommit(p), d = target[p] PROVE physical'[d] = 1
    BY <1>0, <1>4, <2>1 DEF PostCommit, IndexAllows, TypeOK
  <2>2. ASSUME NEW p \in Procs, ReverseCommit(p), d = target[p] PROVE reversal'[d] = 1
    BY <1>0, <1>4, <2>2 DEF ReverseCommit, IndexAllows, TypeOK
  <2>3. event'[d]["posted"].status # "none" => physical'[d] = 1
    <3>1. CASE event[d]["posted"].status # "none"
      BY <1>0, <1>4, <3>1, RowsGrow DEF SentInv
    <3>2. CASE event[d]["posted"].status = "none"
      BY <1>4, <2>1, <3>2, EventAppears DEF Kinds
    <3> QED
      BY <3>1, <3>2
  <2>4. event'[d]["reversed"].status # "none" => reversal'[d] = 1
    <3>1. CASE event[d]["reversed"].status # "none"
      BY <1>0, <1>4, <3>1, RowsGrow DEF SentInv
    <3>2. CASE event[d]["reversed"].status = "none"
      BY <1>4, <2>2, <3>2, EventAppears DEF Kinds
    <3> QED
      BY <3>1, <3>2
  <2> QED
    BY <2>3, <2>4
<1>5. ASSUME NEW d \in Docs, handoff'[d].state # "none" PROVE physical'[d] = 1
  BY <1>0, <1>5, HandoffOfMoved
<1>6. ASSUME NEW p \in Procs, NEW r \in batch'[p] PROVE event'[r.doc][r.kind].status # "none"
  <2>1. CASE r \in batch[p]
    BY <1>0, <1>1, <1>2, <1>6, <2>1 DEF SentInv
  <2>2. CASE p \in Posters /\ DeliverRead(p)
    <3>1. target[p] \in Docs /\ physical[target[p]] = 1
      BY <1>0, <2>2 DEF DeliverRead, At, ControlInv, OnTarget, RepairInv, Settling, Procs, Requests
    <3>2. event[target[p]]["posted"].status # "none"
      BY <1>0, <3>1 DEF IInv, ClaimInv
    <3>3. r \in batch[p] \cup {RowOf(target[p], "posted")}
      BY <1>0, <1>6, <2>2 DEF DeliverRead, TypeOK
    <3> QED
      BY <1>1, <2>1, <3>1, <3>2, <3>3 DEF RowOf, Kinds
  <2>3. CASE p \in Workers /\ FetchBatch(p)
    <3>1. r \in DueRows
      BY <1>0, <1>6, <2>3 DEF FetchBatch, TypeOK
    <3>2. PICK d \in Docs, k \in Kinds : r = RowOf(d, k) /\ IsDue(event[r.doc][r.kind])
      BY <3>1 DEF DueRows
    <3>3. r.doc = d /\ r.kind = k /\ event[d][k].status # "none"
      BY <3>2 DEF RowOf, IsDue
    <3> QED
      BY <1>1, <3>3
  <2>4. \/ batch'[p] \subseteq batch[p]
        \/ p \in Posters /\ DeliverRead(p)
        \/ p \in Workers /\ FetchBatch(p)
    <3>1. TypeOK
      BY <1>0
    <3> QED
      BY <1>6, <3>1, BatchCases
  <2> QED
    BY <1>6, <2>1, <2>2, <2>3, <2>4
<1>7. ASSUME NEW p \in Procs, row'[p] # NoRow PROVE event'[row'[p].doc][row'[p].kind].status # "none"
  <2>1. \/ row'[p] \in batch[p]
        \/ row'[p] = row[p] /\ row[p] \in Snapshot
    BY <1>0, <1>7, BatchCases DEF TypeOK
  <2>2. CASE row'[p] \in batch[p]
    BY <1>0, <1>1, <1>2, <1>7, <2>2 DEF SentInv
  <2>3. CASE row'[p] = row[p] /\ row[p] \in Snapshot
    <3>1. row[p].doc \in Docs /\ row[p].kind \in Kinds
      BY <2>3 DEF Snapshot
    <3> QED
      BY <1>0, <1>1, <1>7, <2>3, <3>1 DEF SentInv
  <2> QED
    BY <2>1, <2>2, <2>3
<1>8. ASSUME NEW p \in Procs, NEW d \in todo'[p], d \in Docs PROVE physical'[d] = 1
  <2>1. physical[d] = 1 => physical'[d] = 1
    BY <1>0, <1>8, RowsGrow
  <2>2. CASE d \in todo[p]
    BY <1>0, <1>8, <2>1, <2>2 DEF SentInv
  <2>3. CASE p \in Workers /\ FetchRepairs(p)
    <3>1. RepairDue(d)
      BY <1>0, <1>8, <2>3 DEF FetchRepairs, TypeOK
    <3> QED
      BY <1>0, <1>8, <2>1, <3>1 DEF RepairDue, SentInv
  <2> QED
    BY <1>0, <1>8, <2>2, <2>3, BatchCases
<1>9. \A p \in Procs : todo'[p] \subseteq Docs
  BY <1>0, TypeStep DEF TypeOK
<1> QED
  BY <1>3, <1>4, <1>5, <1>6, <1>7, <1>8, <1>9 DEF SentInv

LEMMA RepairStep == SInv /\ [Next]_vars => RepairInv'
<1> SUFFICES ASSUME SInv, [Next]_vars, NEW q \in Posters \cup Crons, Settling(q)'
             PROVE  physical'[target'[q]] = 1
  BY DEF RepairInv
<1>0. TypeOK /\ ControlInv /\ IInv /\ SentInv /\ RepairInv /\ q \in Procs
  BY DEF SInv, Procs, Requests, Workers
<1> DEFINE Was == Settling(q) /\ target'[q] = target[q]
           Goal == physical'[target'[q]] = 1
<1>1. Was => Goal
  <2> SUFFICES ASSUME Was PROVE Goal
    OBVIOUS
  <2>1. target[q] \in Docs
    BY <1>0 DEF Settling, ControlInv, OnTarget, Delivering
  <2>2. physical[target[q]] = 1
    BY <1>0 DEF RepairInv
  <2> QED
    BY <1>0, <2>1, <2>2, RowsGrow
<1> USE DEF Settling, TypeOK, At
<1>2. UNCHANGED vars => Goal
  BY <1>0, <1>1 DEF vars
<1>3. ASSUME NEW p \in Posters, NEW d \in Docs, PostRead(p, d) PROVE Was
  BY <1>0, <1>3 DEF PostRead, Finish, Continue
<1>4. ASSUME NEW p \in Reversers, NEW d \in Docs, ReverseRequest(p, d) PROVE Was
  <2>1. q # p
    BY <1>4, ProcsAssumption
  <2> QED
    BY <1>0, <1>4, <2>1 DEF ReverseRequest
<1>5. ASSUME NEW p \in Posters, PostCommit(p) PROVE Goal
  <2>1. target[p] \in Docs
    BY <1>0, <1>5 DEF PostCommit, ControlInv, OnTarget, Procs, Requests
  <2>2. CASE q = p
    <3>1. physical'[target[p]] = 1 /\ target' = target
      BY <1>5, <1>0, <2>1 DEF PostCommit, IndexAllows
    <3> QED
      BY <2>2, <3>1
  <2>3. CASE q # p
    BY <1>0, <1>1, <1>5, <2>3 DEF PostCommit, Finish, Continue
  <2> QED
    BY <2>2, <2>3
<1>6. ASSUME NEW p \in Posters, PostAbort(p) \/ MarkFailed(p) PROVE Was
  BY <1>0, <1>6 DEF PostAbort, MarkFailed, Finish
<1>7. ASSUME NEW p \in Posters, DeliverRead(p) \/ DeliverUnread(p) PROVE Was
  BY <1>0, <1>7 DEF DeliverRead, DeliverUnread
<1>8. ASSUME NEW p \in Posters, RecordAccepted(p) \/ ClaimReversal(p) \/ Abandon(p) PROVE Was
  BY <1>0, <1>8 DEF RecordAccepted, ClaimReversal, Abandon, Finish
<1>9. ASSUME NEW p \in Procs, Send(p) PROVE Was
  BY <1>0, <1>9 DEF Send
<1>10. ASSUME NEW p \in Procs, RecordDelivery(p) \/ CompleteForEvent(p) PROVE Was
  BY <1>0, <1>10 DEF RecordDelivery, CompleteForEvent, AfterRow
<1>11. ASSUME NEW p \in Procs, Reversal(p) PROVE Was
  BY <1>0, <1>11 DEF Reversal, ReverseRead, ReverseCommit, ReverseAbort, RecordReversed,
     RecordReversalFailed, Finish, Continue
<1>12. ASSUME NEW p \in Workers, FetchBatch(p) \/ FetchRepairs(p) PROVE Was
  <2>1. p \notin Posters
    BY ProcsAssumption, <1>12 DEF Workers
  <2> QED
    BY <1>0, <1>12, <2>1 DEF FetchBatch, FetchRepairs, Procs
<1>13. ASSUME NEW p \in Workers, NextRepair(p) PROVE Goal
  <2>1. CASE q = p
    <3>1. PICK d \in todo[p] : target' = [target EXCEPT ![p] = d]
      BY <1>0, <1>13, <2>1 DEF NextRepair
    <3>2. physical[d] = 1 /\ physical' = physical
      BY <1>0, <1>13, <3>1 DEF NextRepair, SentInv, Procs
    <3> QED
      BY <1>0, <2>1, <3>1, <3>2
  <2>2. CASE q # p
    BY <1>0, <1>1, <1>13, <2>2 DEF NextRepair
  <2> QED
    BY <2>1, <2>2
<1>14. ASSUME NEW p \in Procs, Crash(p) PROVE Was
  BY <1>0, <1>14 DEF Crash
<1>15. ASSUME NEW d \in Docs, NEW k \in Kinds,
              BackoffElapses(d, k) \/ RetryElapses(d) \/ Replay(d, k)
       PROVE  Was
  BY <1>0, <1>15 DEF BackoffElapses, RetryElapses, Replay
<1> HIDE DEF Settling, TypeOK, At
<1> QED
  BY <1>1, <1>2, <1>3, <1>4, <1>5, <1>6, <1>7, <1>8, <1>9, <1>10, <1>11, <1>12, <1>13, <1>14,
     <1>15, StepCases DEF Delivery

\* A document that is off the list has told Books everything, or was refused.
AllTold ==
    \A d \in Docs \ OnList :
        \/ d \in RefusedDocs
        \/ /\ physical[d] = 1 => "posted" \in taken[d]
           /\ reversal[d] = 1 => "reversed" \in taken[d]

LEMMA OffTheList == TypeOK /\ IInv => AllTold
<1> SUFFICES ASSUME TypeOK, IInv, NEW d \in Docs, d \notin OnList
             PROVE  \/ d \in RefusedDocs
                    \/ /\ physical[d] = 1 => "posted" \in taken[d]
                       /\ reversal[d] = 1 => "reversed" \in taken[d]
  BY DEF AllTold
<1>1. ASSUME NEW k \in Kinds, event[d][k].status # "none"
      PROVE  k \in taken[d] \/ d \in RefusedDocs
  <2>1. event[d][k].status \in EventStatus
    BY <1>1 DEF TypeOK, EventRow
  <2>2. ~Waiting(event[d][k])
    BY <1>1 DEF OnList
  <2>3. CASE event[d][k].status = "ACKED"
    BY <1>1, <2>3 DEF IInv, AckInv
  <2>4. CASE event[d][k].status = "DEAD"
    BY <1>1, <2>2, <2>4 DEF IInv, UndoInv, Waiting, RefusedDocs
  <2> QED
    BY <1>1, <2>1, <2>2, <2>3, <2>4 DEF EventStatus, Waiting
<1>2. physical[d] = 1 => event[d]["posted"].status # "none"
  BY DEF IInv, ClaimInv
<1>3. reversal[d] = 1 => event[d]["reversed"].status # "none"
  BY DEF IInv, UndoInv
<1> QED
  BY <1>1, <1>2, <1>3 DEF Kinds

\* Only abandonForDocument() ends in the answer that Books refused.
LEMMA RefusedStays ==
    ASSUME SInv, [Next]_vars
    PROVE  RefusedDocs' = RefusedDocs \/ \E p \in Posters : Abandon(p)
<1>0. TypeOK /\ ControlInv /\ IInv
  BY DEF SInv
<1> SUFFICES ASSUME ~\E p \in Posters : Abandon(p) PROVE RefusedDocs' = RefusedDocs
  OBVIOUS
<1>1. ASSUME NEW q \in Procs, answer[q] = "refused"
      PROVE  answer'[q] = "refused" /\ target'[q] = target[q]
  <2>1. pc[q] = "done"
    BY <1>0, <1>1 DEF IInv, AnswerInv, AnswerOK
  <2> QED
    BY <1>0, <1>1, <2>1, DoneStays
<1>2. ASSUME NEW q \in Procs PROVE answer'[q] = "refused" => answer[q] = "refused"
  <2> USE DEF TypeOK, Finish, Continue
  <2> DEFINE Goal == answer'[q] = "refused" => answer[q] = "refused"
  <2>1. UNCHANGED vars => Goal
    BY <1>0, <1>2 DEF vars
  <2>2. ASSUME NEW p \in Procs, NEW d \in Docs, PostRead(p, d) \/ ReverseRequest(p, d) PROVE Goal
    BY <1>0, <1>2, <2>2 DEF PostRead, ReverseRequest
  <2>3. ASSUME NEW p \in Procs, PostCommit(p) \/ PostAbort(p) \/ MarkFailed(p) PROVE Goal
    BY <1>0, <1>2, <2>3 DEF PostCommit, PostAbort, MarkFailed
  <2>4. ASSUME NEW p \in Procs,
               DeliverRead(p) \/ DeliverUnread(p) \/ RecordAccepted(p) \/ ClaimReversal(p)
        PROVE  Goal
    BY <1>0, <1>2, <2>4 DEF DeliverRead, DeliverUnread, RecordAccepted, ClaimReversal
  <2>5. ASSUME NEW p \in Procs, Delivery(p) PROVE Goal
    BY <1>0, <1>2, <2>5 DEF Delivery, Send, RecordDelivery, CompleteForEvent
  <2>6. ASSUME NEW p \in Procs, Reversal(p) PROVE Goal
    BY <1>0, <1>2, <2>6 DEF Reversal, ReverseRead, ReverseCommit, ReverseAbort, RecordReversed,
       RecordReversalFailed
  <2>7. ASSUME NEW p \in Procs, FetchBatch(p) \/ FetchRepairs(p) \/ NextRepair(p) \/ Crash(p)
        PROVE  Goal
    BY <1>0, <1>2, <2>7 DEF FetchBatch, FetchRepairs, NextRepair, Crash
  <2>8. ASSUME NEW d \in Docs, NEW k \in Kinds,
               BackoffElapses(d, k) \/ RetryElapses(d) \/ Replay(d, k)
        PROVE  Goal
    BY <1>0, <1>2, <2>8 DEF BackoffElapses, RetryElapses, Replay, local
  <2> HIDE DEF TypeOK, Finish, Continue
  <2> QED
    BY <2>1, <2>2, <2>3, <2>4, <2>5, <2>6, <2>7, <2>8, StepCases DEF Procs, Requests, Workers
<1>3. ASSUME NEW d \in Docs PROVE Told(d, "refused")' <=> Told(d, "refused")
  <2>1. Told(d, "refused") => Told(d, "refused")'
    BY <1>1 DEF Told, Procs
  <2>2. Told(d, "refused")' => Told(d, "refused")
    BY <1>1, <1>2 DEF Told, Procs
  <2> QED
    BY <2>1, <2>2
<1> QED
  BY <1>3 DEF RefusedDocs

\* A write to one document's events puts it on the list, or strikes it.
LEMMA OneListed ==
    ASSUME SInv, SInv', NEW d \in Docs, physical[d] = 1,
           UNCHANGED <<physical, reversal, taken, handoff>>, RefusedDocs' = RefusedDocs,
           \A e \in Docs \ {d} : event'[e] = event[e]
    PROVE  Promise!PutOnList(d) \/ Promise!Strike(d)
<1>1. \A e \in Docs \ {d} : e \in OnList' <=> e \in OnList
  BY DEF OnList
<1>2. Outcomes' = Outcomes
  BY DEF Outcomes
<1>3. CASE d \in OnList'
  <2>1. OnList' = OnList \cup {d}
    BY <1>1, <1>3 DEF OnList
  <2> QED
    BY <1>2, <2>1 DEF Promise!PutOnList
<1>4. CASE d \notin OnList'
  <2>1. OnList' = OnList \ {d}
    BY <1>1, <1>4 DEF OnList
  <2>2. (TypeOK /\ IInv => AllTold)'
    BY OffTheList, PTL
  <2>3. AllTold'
    BY <2>2 DEF SInv
  <2>4. \/ d \in RefusedDocs
        \/ /\ physical[d] = 1 => "posted" \in taken[d]
           /\ reversal[d] = 1 => "reversed" \in taken[d]
    BY <1>4, <2>3 DEF AllTold
  <2>5. Promise!Happened(d) \subseteq taken[d] \/ d \in RefusedDocs
    BY <2>4 DEF Promise!Happened
  <2> QED
    BY <1>2, <2>1, <2>5 DEF Promise!Strike
<1> QED
  BY <1>3, <1>4

\* Each kind of step is a step of StockAndJournal, or none.
LEMMA OutcomeWritten ==
    ASSUME TypeOK, NEW d \in Docs, NEW s,
           \A e \in Docs : handoff'[e].state = IF e = d THEN s ELSE handoff[e].state
    PROVE  Outcomes' = [Outcomes EXCEPT ![d] = Says(s)]
BY DEF Outcomes

LEMMA PostRefines ==
    ASSUME SInv, NEW p \in Posters, PostCommit(p), RefusedDocs' = RefusedDocs
    PROVE  Promise!MoveOut(target[p])
<1> DEFINE d == target[p]
<1>1. TypeOK /\ d \in Docs /\ Enqueue(d, "posted")
  BY DEF SInv, PostCommit, At, ControlInv, OnTarget, Procs, Requests
<1>2. physical[d] = 0 /\ physical' = [physical EXCEPT ![d] = 1]
  BY <1>1 DEF PostCommit, IndexAllows, TypeOK
<1>3. OnList' = OnList \cup {d}
  BY <1>1, Enqueued DEF OnList, Waiting, Kinds
<1>4. Outcomes' = IF d \in WaitDocs THEN [Outcomes EXCEPT ![d] = "open"] ELSE Outcomes
  <2>1. CASE d \in WaitDocs
    <3>1. SetHandoff(d, "AWAITING_BOOKS", 0, "never")
      BY <2>1 DEF PostCommit, Claim
    <3>2. Outcomes' = [Outcomes EXCEPT ![d] = Says("AWAITING_BOOKS")]
      BY <1>1, <3>1, HandoffWritten, OutcomeWritten
    <3> QED
      BY <2>1, <3>2 DEF Says
  <2>2. CASE d \notin WaitDocs
    BY <2>2 DEF PostCommit, Outcomes
  <2> QED
    BY <2>1, <2>2
<1>5. UNCHANGED <<reversal, taken>>
  BY DEF PostCommit
<1> QED
  BY <1>2, <1>3, <1>4, <1>5 DEF Promise!MoveOut

LEMMA ReverseRefines ==
    ASSUME SInv, NEW p \in Procs, ReverseCommit(p), RefusedDocs' = RefusedDocs
    PROVE  Promise!MoveBack(target[p])
<1> DEFINE d == target[p]
<1>1. TypeOK /\ d \in Docs /\ Enqueue(d, "reversed")
  BY DEF SInv, ReverseCommit, At, ControlInv, OnTarget
<1>2. physical[d] = 1
  BY DEF SInv, ReverseCommit, At, IInv, LocalInv, LocalOK
<1>3. reversal[d] = 0 /\ reversal' = [reversal EXCEPT ![d] = 1]
  BY <1>1 DEF ReverseCommit, IndexAllows, TypeOK
<1>4. OnList' = OnList \cup {d}
  BY <1>1, Enqueued DEF OnList, Waiting, Kinds
<1>5. Outcomes' = Outcomes /\ UNCHANGED <<physical, taken>>
  BY DEF ReverseCommit, Outcomes
<1> QED
  BY <1>2, <1>3, <1>4, <1>5 DEF Promise!MoveBack

LEMMA SendRefines ==
    ASSUME SInv, NEW p \in Procs, Send(p), RefusedDocs' = RefusedDocs
    PROVE  \/ UNCHANGED Promise!vars
           \/ \E d \in Docs, k \in {"posted", "reversed"} : Promise!Tell(d, k)
<1>1. OnList' = OnList /\ Outcomes' = Outcomes /\ UNCHANGED <<physical, reversal>>
  BY DEF Send, db, OnList, Outcomes
<1>2. PICK r \in batch[p] : UNCHANGED taken \/ taken' = [taken EXCEPT ![r.doc] = @ \cup {r.kind}]
  BY DEF Send, BooksTakes, BooksDeclines
<1>3. r.doc \in Docs /\ r.kind \in Kinds /\ event[r.doc][r.kind].status # "none"
  BY DEF SInv, TypeOK, Snapshot, SentInv
<1>4. r.kind \in Promise!Happened(r.doc)
  BY <1>3 DEF SInv, SentInv, Kinds, Promise!Happened
<1>5. CASE UNCHANGED taken
  BY <1>1, <1>5 DEF Promise!vars
<1>6. CASE taken' = [taken EXCEPT ![r.doc] = @ \cup {r.kind}]
  <2>1. Promise!Tell(r.doc, r.kind)
    BY <1>1, <1>4, <1>6 DEF Promise!Tell
  <2> QED
    BY <1>3, <2>1 DEF Kinds
<1> QED
  BY <1>2, <1>5, <1>6

LEMMA WriteRefines ==
    ASSUME SInv, SInv', RefusedDocs' = RefusedDocs,
           \/ \E p \in Procs : RecordDelivery(p)
           \/ \E d \in Docs, k \in Kinds : BackoffElapses(d, k) \/ Replay(d, k)
    PROVE  \E d \in Docs : Promise!PutOnList(d) \/ Promise!Strike(d)
<1>1. PICK d \in Docs, k \in Kinds :
         /\ event[d][k].status # "none"
         /\ \E s, n, w : SetEvent(d, k, s, n, w)
         /\ UNCHANGED <<physical, reversal, taken, handoff>>
  <2>1. ASSUME NEW p \in Procs, RecordDelivery(p)
        PROVE  \E d \in Docs, k \in Kinds :
                  /\ event[d][k].status # "none"
                  /\ \E s, n, w : SetEvent(d, k, s, n, w)
                  /\ UNCHANGED <<physical, reversal, taken, handoff>>
    <3>1. row[p] \in Snapshot
      BY <2>1 DEF RecordDelivery, At, SInv, ControlInv
    <3>2. row[p].doc \in Docs /\ row[p].kind \in Kinds
      BY <3>1 DEF Snapshot
    <3>3. event[row[p].doc][row[p].kind].status # "none"
      BY <3>1, NoRowAssumption DEF SInv, SentInv
    <3>4. \E s, n, w : SetEvent(row[p].doc, row[p].kind, s, n, w)
      BY <2>1 DEF RecordDelivery
    <3>5. UNCHANGED <<physical, reversal, taken, handoff>>
      BY <2>1 DEF RecordDelivery
    <3> QED
      BY <3>2, <3>3, <3>4, <3>5
  <2>2. ASSUME NEW d \in Docs, NEW k \in Kinds, BackoffElapses(d, k) \/ Replay(d, k)
        PROVE  /\ event[d][k].status # "none"
               /\ \E s, n, w : SetEvent(d, k, s, n, w)
               /\ UNCHANGED <<physical, reversal, taken, handoff>>
    BY <2>2 DEF BackoffElapses, Replay
  <2> QED
    BY <2>1, <2>2
<1>2. physical[d] = 1
  BY <1>1 DEF SInv, SentInv, IInv, RowsInv, Kinds, TypeOK
<1>3. \A e \in Docs \ {d} : event'[e] = event[e]
  BY <1>1 DEF SInv, TypeOK, SetEvent
<1> QED
  BY <1>1, <1>2, <1>3, OneListed

LEMMA AbandonRefines ==
    ASSUME SInv, [Next]_vars, NEW p \in Posters, Abandon(p)
    PROVE  Promise!Refuse(target[p])
<1> DEFINE d == target[p]
<1>1. TypeOK /\ ControlInv /\ p \in Requests /\ p \in Procs /\ d \in Docs
  BY DEF SInv, Abandon, At, ControlInv, OnTarget, Procs, Requests
<1>2. reversal[d] = 1
  BY <1>1 DEF SInv, Abandon, At, IInv, LocalInv, LocalOK
<1>3. answer' = [answer EXCEPT ![p] = "refused"] /\ target' = target
  BY DEF Abandon, Finish
<1>4. answer[p] # "refused"
  BY <1>1 DEF SInv, Abandon, At, IInv, AnswerInv, AnswerOK
<1>5. RefusedDocs' = RefusedDocs \cup {d}
  <2>1. \A q \in Requests : answer'[q] = IF q = p THEN "refused" ELSE answer[q]
    BY <1>1, <1>3 DEF TypeOK, Procs
  <2> QED
    BY <1>1, <1>3, <1>4, <2>1 DEF RefusedDocs, Told
<1>6. \A e \in Docs \ {d} : event'[e] = event[e]
  BY <1>1 DEF Abandon, TypeOK
<1>7. \A k \in Kinds : Waiting(event'[d][k]) => Waiting(event[d][k])
  BY <1>1 DEF Abandon, Retired, TypeOK, Waiting
<1>8. OnList' \in {OnList, OnList \ {d}}
  <2>1. \A e \in Docs \ {d} : e \in OnList' <=> e \in OnList
    BY <1>6 DEF OnList
  <2>2. d \in OnList' => d \in OnList
    BY <1>7 DEF OnList
  <2>3. OnList \subseteq Docs /\ OnList' \subseteq Docs
    BY DEF OnList
  <2> QED
    BY <2>1, <2>2, <2>3
<1>9. Outcomes' = Outcomes /\ UNCHANGED <<physical, reversal, taken>>
  BY DEF Abandon, Outcomes
<1> QED
  BY <1>2, <1>5, <1>8, <1>9 DEF Promise!Refuse

LEMMA HandoffRefines ==
    ASSUME SInv, RefusedDocs' = RefusedDocs,
           \/ \E p \in Posters : RecordAccepted(p) \/ ClaimReversal(p)
           \/ \E p \in Procs : CompleteForEvent(p) \/ RecordReversed(p) \/ RecordReversalFailed(p)
           \/ \E d \in Docs : RetryElapses(d)
    PROVE  \/ UNCHANGED Promise!vars
           \/ \E d \in Docs, o \in {"open", "accepted", "undone"} : Promise!Rule(d, o)
<1>0. TypeOK /\ ControlInv
  BY DEF SInv
<1>1. OnList' = OnList /\ UNCHANGED <<physical, reversal, taken>>
  BY DEF RecordAccepted, ClaimReversal, CompleteForEvent, RecordReversed, RecordReversalFailed,
     RetryElapses, OnList
<1>2. ASSUME NEW d \in Docs, NEW s \in {"ACCEPTED", "REVERSAL_PENDING", "REVERSED"},
             \A e \in Docs : handoff'[e].state = IF e = d THEN s ELSE handoff[e].state,
             s = "ACCEPTED" => "posted" \in taken[d],
             s = "REVERSAL_PENDING" => physical[d] = 1,
             s = "REVERSED" => reversal[d] = 1
      PROVE  \E o \in {"open", "accepted", "undone"} : Promise!Rule(d, o)
  <2>1. Outcomes' = [Outcomes EXCEPT ![d] = Says(s)]
    BY <1>0, <1>2, OutcomeWritten
  <2>2. Promise!Rule(d, Says(s)) /\ Says(s) \in {"open", "accepted", "undone"}
    BY <1>1, <1>2, <2>1 DEF Promise!Rule, Says
  <2> QED
    BY <2>2
<1> DEFINE Goal == \/ UNCHANGED handoff
                   \/ \E d \in Docs, o \in {"open", "accepted", "undone"} : Promise!Rule(d, o)
<1>3. ASSUME NEW p \in Posters, RecordAccepted(p) PROVE Goal
  <2>1. target[p] \in Docs /\ "posted" \in taken[target[p]]
    BY <1>3 DEF SInv, RecordAccepted, At, ControlInv, OnTarget, IInv, LocalInv, LocalOK, Procs, Requests
  <2>2. Transition(target[p], "ACCEPTED", "never")
    BY <1>3 DEF RecordAccepted
  <2>3. \A e \in Docs : handoff'[e].state = IF e = target[p] THEN "ACCEPTED" ELSE handoff[e].state
    BY <1>0, <2>1, <2>2, Transitioned
  <2> QED
    BY <1>2, <2>1, <2>3
<1>4. ASSUME NEW p \in Posters, ClaimReversal(p) PROVE Goal
  <2>1. target[p] \in Docs /\ physical[target[p]] = 1
    BY <1>4 DEF SInv, ClaimReversal, At, ControlInv, OnTarget, RepairInv, Settling, Procs, Requests
  <2>2. Transition(target[p], "REVERSAL_PENDING", "now")
    BY <1>4 DEF ClaimReversal
  <2>3. \A e \in Docs : handoff'[e].state = IF e = target[p] THEN "REVERSAL_PENDING" ELSE handoff[e].state
    BY <1>0, <2>1, <2>2, Transitioned
  <2> QED
    BY <1>2, <2>1, <2>3
<1>5. ASSUME NEW p \in Procs, CompleteForEvent(p) PROVE Goal
  <2>1. row[p].doc \in Docs /\ row[p].kind \in taken[row[p].doc]
    BY <1>5 DEF SInv, CompleteForEvent, At, ControlInv, Snapshot, IInv, LocalInv, LocalOK
  <2>2. \/ UNCHANGED handoff
        \/ row[p].kind = "posted" /\ Transition(row[p].doc, "ACCEPTED", "never")
    BY <1>5 DEF CompleteForEvent, IsAwaited
  <2>3. CASE row[p].kind = "posted" /\ Transition(row[p].doc, "ACCEPTED", "never")
    <3>1. \A e \in Docs : handoff'[e].state = IF e = row[p].doc THEN "ACCEPTED" ELSE handoff[e].state
      BY <1>0, <2>1, <2>3, Transitioned
    <3> QED
      BY <1>2, <2>1, <2>3, <3>1
  <2> QED
    BY <2>2, <2>3
<1>6. ASSUME NEW p \in Procs, RecordReversed(p) PROVE Goal
  <2>1. target[p] \in Docs /\ reversal[target[p]] = 1
    BY <1>6 DEF SInv, RecordReversed, At, ControlInv, OnTarget, IInv, LocalInv, LocalOK
  <2>2. UNCHANGED handoff \/ Transition(target[p], "REVERSED", "never")
    BY <1>6 DEF RecordReversed
  <2>3. CASE Transition(target[p], "REVERSED", "never")
    <3>1. \A e \in Docs : handoff'[e].state = IF e = target[p] THEN "REVERSED" ELSE handoff[e].state
      BY <1>0, <2>1, <2>3, Transitioned
    <3> QED
      BY <1>2, <2>1, <3>1
  <2> QED
    BY <2>2, <2>3
<1>7. ASSUME NEW p \in Procs, RecordReversalFailed(p) PROVE Goal
  <2>1. CASE p \in Reversers
    BY <1>7, <2>1 DEF RecordReversalFailed
  <2>2. CASE p \notin Reversers
    <3>1. target[p] \in Docs /\ physical[target[p]] = 1
      BY <1>7, <2>2 DEF SInv, RecordReversalFailed, At, ControlInv, OnTarget, RepairInv, Settling
    <3>2. SetHandoff(target[p], "REVERSAL_PENDING", handoff[target[p]].attempts + 1, "later")
      BY <1>7, <2>2 DEF RecordReversalFailed
    <3>3. \A e \in Docs : handoff'[e].state = IF e = target[p] THEN "REVERSAL_PENDING" ELSE handoff[e].state
      BY <1>0, <3>1, <3>2, HandoffWritten
    <3> QED
      BY <1>2, <3>1, <3>3
  <2> QED
    BY <2>1, <2>2
<1>8. ASSUME NEW d \in Docs, RetryElapses(d) PROVE Goal
  <2>1. physical[d] = 1
    BY <1>8 DEF SInv, RetryElapses, SentInv
  <2>2. Transition(d, "REVERSAL_PENDING", "now")
    BY <1>8 DEF RetryElapses
  <2>3. \A e \in Docs : handoff'[e].state = IF e = d THEN "REVERSAL_PENDING" ELSE handoff[e].state
    BY <1>0, <2>2, Transitioned
  <2> QED
    BY <1>2, <2>1, <2>3
<1>9. UNCHANGED handoff => Outcomes' = Outcomes
  BY DEF Outcomes
<1> QED
  BY <1>1, <1>3, <1>4, <1>5, <1>6, <1>7, <1>8, <1>9 DEF Promise!vars

(***************************************************************************)
(* Books, batches and handoffs know only events and documents that exist:  *)
(* what enqueue() and claim() in the transaction of the movement are for.  *)
(***************************************************************************)
THEOREM Sent == Spec => []SInv
<1>1. Init => SentInv /\ RepairInv
  BY DEF Init, SentInv, RepairInv, Settling, Kinds, Procs, Requests, Workers
<1>2. SInv /\ [Next]_vars => (SentInv /\ RepairInv)'
  BY SentStep, RepairStep
<1> QED
  BY <1>1, <1>2, TypeCorrect, Invariant, PTL DEF Spec, SInv

(***************************************************************************)
(* BooksHandoff implements StockAndJournal: with requests, sweeps and      *)
(* drains in any interleaving, crashes and lost answers between any two    *)
(* statements, stock and journal keep the promise, step by step.           *)
(***************************************************************************)
THEOREM Implements == Spec => KeepsPromise
<1>1. Init => Promise!Init
  BY DEF Init, Promise!Init, OnList, Waiting, Outcomes, Says, RefusedDocs, Told, Kinds, Procs, Requests
<1>2. ASSUME SInv, SInv', [Next]_vars
      PROVE  [Promise!Next]_(Promise!vars)
  <2>1. ASSUME NEW p \in Posters, Abandon(p) PROVE Promise!Next
    <3>1. target[p] \in Docs
      BY <1>2, <2>1 DEF SInv, Abandon, At, ControlInv, OnTarget, Procs, Requests
    <3> QED
      BY <1>2, <2>1, <3>1, AbandonRefines DEF Promise!Next
  <2> SUFFICES ASSUME RefusedDocs' = RefusedDocs PROVE [Promise!Next]_(Promise!vars)
    BY <1>2, <2>1, RefusedStays
  <2>2. ASSUME NEW p \in Posters, PostCommit(p) PROVE Promise!Next
    <3>1. target[p] \in Docs
      BY <1>2, <2>2 DEF SInv, PostCommit, At, ControlInv, OnTarget, Procs, Requests
    <3> QED
      BY <1>2, <2>2, <3>1, PostRefines DEF Promise!Next
  <2>3. ASSUME NEW p \in Procs, ReverseCommit(p) PROVE Promise!Next
    <3>1. target[p] \in Docs
      BY <1>2, <2>3 DEF SInv, ReverseCommit, At, ControlInv, OnTarget
    <3> QED
      BY <1>2, <2>3, <3>1, ReverseRefines DEF Promise!Next
  <2>4. ASSUME NEW p \in Procs, Send(p) PROVE [Promise!Next]_(Promise!vars)
    BY <1>2, <2>4, SendRefines DEF Promise!Next
  <2>5. ASSUME \/ \E p \in Procs : RecordDelivery(p)
               \/ \E d \in Docs, k \in Kinds : BackoffElapses(d, k) \/ Replay(d, k)
        PROVE  Promise!Next
    BY <1>2, <2>5, WriteRefines DEF Promise!Next
  <2>6. ASSUME \/ \E p \in Posters : RecordAccepted(p) \/ ClaimReversal(p)
               \/ \E p \in Procs : CompleteForEvent(p) \/ RecordReversed(p) \/ RecordReversalFailed(p)
               \/ \E d \in Docs : RetryElapses(d)
        PROVE  [Promise!Next]_(Promise!vars)
    BY <1>2, <2>6, HandoffRefines DEF Promise!Next
  <2>7. ASSUME UNCHANGED <<physical, reversal, event, handoff, taken>>
        PROVE  UNCHANGED Promise!vars
    BY <2>7 DEF Promise!vars, OnList, Outcomes
  <2>8. \/ \E p \in Posters : PostCommit(p) \/ Abandon(p)
        \/ \E p \in Procs : ReverseCommit(p) \/ Send(p) \/ RecordDelivery(p)
        \/ \E d \in Docs, k \in Kinds : BackoffElapses(d, k) \/ Replay(d, k)
        \/ \E p \in Posters : RecordAccepted(p) \/ ClaimReversal(p)
        \/ \E p \in Procs : CompleteForEvent(p) \/ RecordReversed(p) \/ RecordReversalFailed(p)
        \/ \E d \in Docs : RetryElapses(d)
        \/ UNCHANGED <<physical, reversal, event, handoff, taken>>
    <3>1. TypeOK
      BY <1>2 DEF SInv
    <3>2. \/ \E p \in Posters : PostCommit(p)
          \/ \E p \in Procs : ReverseCommit(p)
          \/ UNCHANGED <<physical, reversal>>
      <4>1. ASSUME NEW p \in Posters, MarkFailed(p) PROVE UNCHANGED <<physical, reversal>>
        BY <4>1 DEF MarkFailed
      <4> QED
        BY <1>2, <4>1, RowsFrame
    <3> QED
      BY <1>2, <3>1, <3>2, EventFrame, HandoffFrame, TakenCases
  <2> QED
    BY <2>1, <2>2, <2>3, <2>4, <2>5, <2>6, <2>7, <2>8
<1> QED
  BY <1>1, <1>2, Sent, PTL DEF Spec, KeepsPromise, Promise!Spec
=============================================================================
