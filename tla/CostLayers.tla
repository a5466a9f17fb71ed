----------------------------- MODULE CostLayers -----------------------------
(***************************************************************************)
(* FIFO / LIFO cost layers of one item, and the recalculation that         *)
(* rebuilds them.                                                          *)
(*                                                                         *)
(* A receipt opens a layer, an issue consumes layers (ValuationEngine), a  *)
(* landed cost raises the layer of a receipt, a revaluation re-prices every *)
(* open layer, and a reversal gives back or withdraws what its document    *)
(* did (DocumentPostingService).  A reversal queues a recalculation job;   *)
(* running it throws the layers away and posts every movement again in     *)
(* date order (RecalculationService), and tells Books of every issue whose *)
(* cost changed.                                                           *)
(*                                                                         *)
(* No operation locks what it reads.  A process therefore works in two     *)
(* steps, reading documents and layers in one and committing absolute      *)
(* values computed from them in the next.  With one process in Procs the   *)
(* operations are serial; with two they interleave.                        *)
(*                                                                         *)
(* One line per document; money and rates are whole multiples of the       *)
(* database's 0.0001; scope is the company (no warehouse).  Documents come *)
(* from Books (source_document_id is set).                                 *)
(***************************************************************************)
EXTENDS Integers, FiniteSets, Functions

CONSTANTS
    Lines,          \* document lines; a number, as document_id and line_id are
    Procs,          \* requests and recalculation workers
    Methods,        \* valuation methods an item may have, of {"FIFO", "LIFO"}
    Drafts,         \* for each line, the drafts it may be (the year starts on date 0)
    Charges,        \* amounts of a landed cost document
    Openings,       \* opening quantities the item may have (0: no opening rows)
    OpeningCost,    \* and their cost
    MaxLanded,      \* bound on landed cost documents
    MaxReplays,     \* bound on recalculations
    MaxCrashes      \* bound on workers killed inside a recalculation

ASSUME LinesAssumption == Lines \subseteq Nat \ {0} /\ IsFiniteSet(Lines)
ASSUME DataAssumption ==
    /\ Methods \subseteq {"FIFO", "LIFO"}
    /\ Charges \subseteq Nat \ {0}
    /\ Openings \subseteq Nat /\ OpeningCost \in Nat
    /\ MaxLanded \in Nat /\ MaxReplays \in Nat /\ MaxCrashes \in Nat

VARIABLES
    method,     \* inv_items.valuation_method
    opening,    \* quantity of the opening rows of the year
    lines,      \* inv_document_lines, with the type and status of their document
    layers,     \* inv_cost_layers
    trail,      \* inv_cost_layer_consumptions
    lastId,     \* the layer_id sequence
    told,       \* cost of an issue as the outbox last gave it to Books
    queued,     \* a recalculation job is QUEUED
    running,    \* jobs that are RUNNING, the ones a killed worker left included
    call,       \* what each process is doing, with its arguments
    seen,       \* the documents and layers it read
    unsent,     \* revisions a worker has made and not published yet
    landed, replays, crashes    \* documents and events so far

tables == <<method, opening, lines, layers, trail, lastId, told>>
counters == <<landed, replays, crashes>>
vars == <<method, opening, lines, layers, trail, lastId, told, queued, running,
          call, seen, unsent, landed, replays, crashes>>

NoLine == 0

LineRow == [type : {"receipt", "issue", "revaluation"},
            status : {"DRAFT", "POSTED", "REVERSED"},
            date : Nat, qty : Nat, rate : Nat, amount : Int]
LayerRow == [id : Nat, kind : {"opening", "receipt", "backorder"}, line : Lines \cup {NoLine},
             at : Nat, received : Int, qty : Int, cost : Nat]
TrailRow == [layer : Nat, line : Lines, qty : Nat, cost : Nat]

\* A draft as DocumentService::create() accepts it: a receipt has a unit cost as its
\* rate, an issue none yet, a revaluation its new cost and no movement.
IsDraft(row) ==
    /\ row \in LineRow /\ row.status = "DRAFT" /\ row.date > 0 /\ row.amount = 0
    /\ row.type # "revaluation" <=> row.qty > 0
    /\ row.type = "issue" => row.rate = 0
    /\ row.type = "revaluation" => row.rate > 0
ASSUME DraftsAssumption == \A l \in Lines : \A row \in Drafts[l] : IsDraft(row)

Operation == {"idle", "receipt", "issue", "landed", "revaluation", "reverse",
              "claimed", "replay", "publish"}
Call == [op : Operation, line : Lines \cup {NoLine}, charge : Charges \cup {0}]
Idle == [op |-> "idle", line |-> NoLine, charge |-> 0]
Doing(o) == [op |-> o, line |-> NoLine, charge |-> 0]
Nothing == [lines |-> << >>, layers |-> {}]

(***************************************************************************)
(* Rows have their columns' types, layer ids come from the sequence and    *)
(* are unique, and only a shortfall is ever held as a negative quantity.   *)
(***************************************************************************)
TypeOK ==
    /\ method \in Methods /\ opening \in Openings
    /\ lines \in [Lines -> LineRow]
    /\ layers \subseteq LayerRow
    /\ \A x, y \in layers : x.id \in 1..lastId /\ (x.id = y.id => x = y)
    /\ \A x \in layers : x.qty < 0 => x.kind = "backorder"
    /\ trail \subseteq TrailRow
    /\ lastId \in Nat
    /\ told \in [Lines -> Nat]
    /\ queued \in BOOLEAN /\ running \in Nat
    /\ call \in [Procs -> Call]
    /\ seen \in [Procs -> [lines : [Lines -> LineRow] \cup {<< >>}, layers : SUBSET LayerRow]]
    /\ unsent \in [Procs -> SUBSET [line : Lines, amount : Nat]]
    /\ landed \in 0..MaxLanded /\ replays \in 0..MaxReplays /\ crashes \in 0..MaxCrashes

Init ==
    /\ method \in Methods /\ opening \in Openings
    /\ \E f \in [Lines -> UNION {Drafts[l] : l \in Lines}] :
         (\A l \in Lines : f[l] \in Drafts[l]) /\ lines = f
    /\ layers = {} /\ trail = {} /\ lastId = 0
    /\ told = [l \in Lines |-> 0]
    /\ queued = FALSE /\ running = 0
    /\ call = [p \in Procs |-> Idle]
    /\ seen = [p \in Procs |-> Nothing]
    /\ unsent = [p \in Procs |-> {}]
    /\ landed = 0 /\ replays = 0 /\ crashes = 0

-----------------------------------------------------------------------------
(* Arithmetic.                                                             *)

Least(a, b) == IF a <= b THEN a ELSE b
Most(a, b) == IF a >= b THEN a ELSE b
Distance(a, b) == Most(a - b, b - a)

\* round(a / b, 4) of two amounts on the grid, b > 0.
Rounded(a, b) == (2 * a + b) \div (2 * b)

Quantity(ls) == SumFunction([x \in ls |-> x.qty])
Worth(rows) == SumFunction([x \in rows |-> x.qty * x.cost])

-----------------------------------------------------------------------------
(* Layers.                                                                 *)

Open(ls) == {x \in ls : x.qty > 0}
Priced(ls) == {x \in ls : x.cost > 0}

\* ORDER BY received_at, layer_id.
Earlier(x, y) == x.at < y.at \/ (x.at = y.at /\ x.id < y.id)
Latest(ls) == CHOOSE x \in ls : \A y \in ls \ {x} : Earlier(y, x)

\* The order an issue consumes them in.
Before(x, y) == IF method = "FIFO" THEN Earlier(x, y) ELSE Earlier(y, x)

\* consumeLayers(): what an issue of q takes from layer x.
TakenUncapped(ls, x, q) == Most(0, q - Quantity({y \in Open(ls) : Before(y, x)}))
Taken(ls, x, q) == Least(x.qty, Most(0, q - Quantity({y \in Open(ls) : Before(y, x)})))

Touched(ls, q) == {x \in Open(ls) : Taken(ls, x, q) > 0}
Shortfall(ls, q) == Most(0, q - Quantity(Open(ls)))

\* historicUnitCost(): the last inward line posted up to a date, else the opening.
Inward(rows) == {l \in Lines : rows[l].type = "receipt" /\ rows[l].status = "POSTED"}
OfAnyDate(rows, asOf) == Inward(rows)
UpTo(rows, asOf) == {l \in Inward(rows) : rows[l].date <= asOf}
LastOf(rows, ls) ==
    CHOOSE l \in ls : \A k \in ls \ {l} :
        rows[k].date < rows[l].date \/ (rows[k].date = rows[l].date /\ k < l)
HistoricCost(rows, ls) ==
    LET rate == IF ls = {} THEN 0 ELSE rows[LastOf(rows, ls)].rate IN
    IF rate > 0 THEN rate ELSE IF opening > 0 THEN OpeningCost ELSE 0

\* The price of a shortfall: the newest layer at hand, else the newest layer ever.
ShortfallCost(ls, historic) ==
    IF Priced(Open(ls)) # {} THEN Latest(Priced(Open(ls))).cost
    ELSE IF Priced(ls) # {} THEN Latest(Priced(ls)).cost ELSE historic

IssueAmount(ls, q, historic) ==
    SumFunction([x \in Open(ls) |-> Taken(ls, x, q) * x.cost])
        + Shortfall(ls, q) * ShortfallCost(ls, historic)

\* The rows of ls after an issue of q worked out on what: absolute quantities,
\* written by layer_id, so a layer that is gone takes no write.
AfterIssue(ls, what, q) ==
    {IF \E x \in Touched(what, q) : x.id = y.id
     THEN LET x == CHOOSE x \in Touched(what, q) : x.id = y.id
          IN [y EXCEPT !.qty = x.qty - Taken(what, x, q)]
     ELSE y : y \in ls}

Backorder(id, l, at, q, cost) ==
    [id |-> id, kind |-> "backorder", line |-> l, at |-> at, received |-> -q, qty |-> -q, cost |-> cost]
ShortfallLayer(id, what, l, at, q, historic) ==
    IF Shortfall(what, q) = 0 THEN {}
    ELSE {Backorder(id, l, at, Shortfall(what, q), ShortfallCost(what, historic))}

Consumptions(what, l, q) ==
    {[layer |-> x.id, line |-> l, qty |-> Taken(what, x, q), cost |-> x.cost] : x \in Touched(what, q)}

ReceiptLayer(id, l, at, q, cost) ==
    [id |-> id, kind |-> "receipt", line |-> l, at |-> at, received |-> q, qty |-> q, cost |-> cost]

\* ensureOpeningSeeded() and seedOpeningStock(): the opening layer is stamped at
\* the start of the year; seeding replaces whatever opening layer is there.
OpeningLayer(id) ==
    [id |-> id, kind |-> "opening", line |-> NoLine, at |-> 0,
     received |-> opening, qty |-> opening, cost |-> OpeningCost]
MustSeed(ls) == opening > 0 /\ \A x \in ls : x.kind # "opening"
Seeded(ls, id) == {x \in ls : x.kind # "opening"} \cup {OpeningLayer(id)}

\* The layer a receipt line opened.
LayersOf(ls, l) == {x \in ls : x.line = l /\ x.kind = "receipt"}

-----------------------------------------------------------------------------
(* Processes: read first, commit later.                                    *)

At(p, o) == call[p].op = o

\* The status guards at the start of post(), reverse() and applyLandedCost().
Accepts(o, row) ==
    \/ o = row.type /\ row.status = "DRAFT"
    \/ o = "landed" /\ row.type = "receipt" /\ row.status = "POSTED"
    \/ o = "reverse" /\ row.status = "POSTED"

Begin(p, o, l, c) ==
    /\ At(p, "idle")
    /\ Accepts(o, lines[l])
    /\ call' = [call EXCEPT ![p] = [op |-> o, line |-> l, charge |-> c]]
    /\ seen' = [seen EXCEPT ![p] = [lines |-> lines, layers |-> layers]]
    /\ UNCHANGED <<tables, queued, running, unsent, counters>>

\* The transaction commits; the process keeps nothing.
Done(p) ==
    /\ call' = [call EXCEPT ![p] = Idle]
    /\ seen' = [seen EXCEPT ![p] = Nothing]

\* It rolls back: a business rule refuses (negative stock, a locked period), or
\* the unique index on the movements does.
Rollback(p) ==
    /\ call[p].op \in {"receipt", "issue", "landed", "revaluation", "reverse"}
    /\ Done(p)
    /\ UNCHANGED <<tables, queued, running, unsent, counters>>

Record(l, rate, amount) ==
    lines' = [lines EXCEPT ![l].status = "POSTED", ![l].rate = rate, ![l].amount = amount]

\* What a posting works on: the layers it read, after seeding the opening.
SeedFirst(p) == MustSeed(seen[p].layers)
FirstId(p) == IF SeedFirst(p) THEN lastId + 2 ELSE lastId + 1
OrSeeded(p, ls) == IF SeedFirst(p) THEN Seeded(ls, lastId + 1) ELSE ls

PostReceipt(p) ==
    LET l == call[p].line
        m == lines[l]
    IN
    /\ At(p, "receipt")
    /\ m.status = "DRAFT"
    /\ layers' = OrSeeded(p, layers) \cup {ReceiptLayer(FirstId(p), l, m.date, m.qty, m.rate)}
    /\ lastId' = FirstId(p)
    /\ Record(l, m.rate, m.qty * m.rate)
    /\ Done(p)
    /\ UNCHANGED <<method, opening, trail, told, queued, running, unsent, counters>>

\* issueStock() of a posting: no bound on the historic cost.
PostIssue(p) ==
    LET l == call[p].line
        m == lines[l]
        what == OrSeeded(p, seen[p].layers)
        historic == HistoricCost(lines, Inward(lines))
        amount == IssueAmount(what, m.qty, historic)
    IN
    /\ At(p, "issue")
    /\ m.status = "DRAFT"
    /\ layers' = AfterIssue(OrSeeded(p, layers), what, m.qty)
                    \cup ShortfallLayer(FirstId(p), what, l, m.date, m.qty, historic)
    /\ lastId' = FirstId(p)
    /\ trail' = trail \cup Consumptions(what, l, m.qty)
    /\ Record(l, Rounded(amount, m.qty), amount)
    /\ told' = [told EXCEPT ![l] = amount]
    /\ Done(p)
    /\ UNCHANGED <<method, opening, queued, running, unsent, counters>>

\* raiseCostState(): the layer is raised whatever it still holds, and absorbs
\* the uplift on what is left of it.
WholeAllocation(x, perUnit) == x.received * perUnit
Absorbed(x, perUnit) == Most(0, x.qty) * perUnit

\* applyLandedCost() on one receipt line: the line is credited with what was
\* absorbed, never with what was allocated.
PostLandedCost(p) ==
    LET c == call[p]
        row == seen[p].lines[c.line]
        perUnit == Rounded(c.charge, row.qty)
        opened == LayersOf(seen[p].layers, c.line)
        gain == SumFunction([x \in opened |-> Absorbed(x, perUnit)])
    IN
    /\ At(p, "landed")
    /\ layers' = {IF \E x \in opened : x.id = y.id
                  THEN [y EXCEPT !.cost = (CHOOSE x \in opened : x.id = y.id).cost + perUnit]
                  ELSE y : y \in layers}
    /\ lines' = IF gain = 0 THEN lines
                ELSE [lines EXCEPT ![c.line].amount = row.amount + gain,
                                   ![c.line].rate = Rounded(row.amount + gain, row.qty)]
    /\ landed < MaxLanded /\ landed' = landed + 1
    /\ Done(p)
    /\ UNCHANGED <<method, opening, trail, lastId, told, queued, running, unsent, replays, crashes>>

\* applyRevaluation(): every open layer takes the new cost, the line the delta.
PostRevaluation(p) ==
    LET l == call[p].line
        cost == lines[l].rate
        priced == Open(seen[p].layers)
    IN
    /\ At(p, "revaluation")
    /\ lines[l].status = "DRAFT"
    /\ layers' = {IF \E x \in priced : x.id = y.id THEN [y EXCEPT !.cost = cost] ELSE y : y \in layers}
    /\ Record(l, cost, SumFunction([x \in priced |-> x.qty * (cost - x.cost)]))
    /\ Done(p)
    /\ UNCHANGED <<method, opening, trail, lastId, told, queued, running, unsent, counters>>

\* reverseLineValuation() of a receipt: what is left is withdrawn, and what was
\* consumed already becomes a negative layer at the layer's cost.
NothingConsumed(x) == 0
AlreadyConsumed(x) == x.received - x.qty
WithdrawReceipt(p) ==
    LET c == call[p]
        opened == LayersOf(seen[p].layers, c.line)
        owed == {x \in opened : AlreadyConsumed(x) > 0}
    IN
    /\ layers' = {IF \E x \in opened : x.id = y.id THEN [y EXCEPT !.qty = 0] ELSE y : y \in layers}
                    \cup {Backorder(lastId + 1, c.line, lines[c.line].date, AlreadyConsumed(x), x.cost) : x \in owed}
    /\ lastId' = IF owed = {} THEN lastId ELSE lastId + 1
    /\ UNCHANGED trail

\* ... and of an issue: quantities go back to the layers they came from, by
\* layer_id, and the shortfall layer goes.
KeepTrail(l) == trail
DropTrail(l) == {t \in trail : t.line # l}
TakenFrom(x, l) == Quantity({t \in trail : t.line = l /\ t.layer = x.id})
GiveBackIssue(p) ==
    LET l == call[p].line IN
    /\ layers' = {[y EXCEPT !.qty = @ + TakenFrom(y, l)] :
                    y \in {x \in layers : ~(x.kind = "backorder" /\ x.line = l)}}
    /\ trail' = DropTrail(l)
    /\ UNCHANGED lastId

\* A revaluation has no direction, so nothing is unwound.
ReverseDocument(p) ==
    LET l == call[p].line IN
    /\ At(p, "reverse")
    /\ lines[l].status = "POSTED"       \* else the index refuses the second reversal
    /\ \/ lines[l].type = "receipt" /\ WithdrawReceipt(p)
       \/ lines[l].type = "issue" /\ GiveBackIssue(p)
       \/ lines[l].type = "revaluation" /\ UNCHANGED <<layers, trail, lastId>>
    /\ lines' = [lines EXCEPT ![l].status = "REVERSED"]
    /\ queued' = TRUE
    /\ Done(p)
    /\ UNCHANGED <<method, opening, told, running, unsent, counters>>

-----------------------------------------------------------------------------
(* Recalculation.                                                          *)

\* run(): a job of the queue, or one made and run at once by POST
\* /valuation/recalculations, is RUNNING before its work begins.
ClaimJob(p) ==
    /\ At(p, "idle")
    /\ \/ queued /\ queued' = FALSE
       \/ UNCHANGED queued
    /\ replays < MaxReplays /\ replays' = replays + 1
    /\ running' = running + 1
    /\ call' = [call EXCEPT ![p] = Doing("claimed")]
    /\ UNCHANGED <<tables, seen, unsent, landed, crashes>>

\* The movements are read before the transaction that uses them.
ReadMovements(p) ==
    /\ At(p, "claimed")
    /\ call' = [call EXCEPT ![p] = Doing("replay")]
    /\ seen' = [seen EXCEPT ![p] = [lines |-> lines, layers |-> {}]]
    /\ UNCHANGED <<tables, queued, running, unsent, counters>>

\* Physical movements of posted documents.
Movements(rows) == {l \in Lines : rows[l].type \in {"receipt", "issue"} /\ rows[l].status = "POSTED"}

\* One movement posted again.  A receipt keeps the rate its line decided
\* (decidedInwardUnitCost()); an issue may only be priced from documents dated
\* up to its own date.
Repost(rows, now, r, l) ==
    LET m == rows[l]
        historic == HistoricCost(now, UpTo(now, m.date))
        amount == IssueAmount(r.layers, m.qty, historic)
    IN
    IF m.type = "receipt"
    THEN [layers |-> r.layers \cup {ReceiptLayer(r.id, l, m.date, m.qty, m.rate)}, id |-> r.id + 1,
          trail |-> r.trail,
          rate |-> [r.rate EXCEPT ![l] = m.rate], amount |-> [r.amount EXCEPT ![l] = m.qty * m.rate]]
    ELSE [layers |-> AfterIssue(r.layers, r.layers, m.qty)
                        \cup ShortfallLayer(r.id, r.layers, l, m.date, m.qty, historic), id |-> r.id + 1,
          trail |-> r.trail \cup Consumptions(r.layers, l, m.qty),
          rate |-> [r.rate EXCEPT ![l] = Rounded(amount, m.qty)], amount |-> [r.amount EXCEPT ![l] = amount]]

\* clearValuationState(), seedOpeningStock() and the movements ls of rows again in
\* the order of their dates; now is what the tables say while it runs.
Emptied(rows, id) ==
    [layers |-> IF opening > 0 THEN {OpeningLayer(id)} ELSE {}, id |-> id + 1, trail |-> {},
     rate |-> [l \in Lines |-> rows[l].rate], amount |-> [l \in Lines |-> rows[l].amount]]
ReplayOf(rows, now, id) ==
    LET r[ls \in SUBSET Movements(rows)] ==
          IF ls = {} THEN Emptied(rows, id)
          ELSE Repost(rows, now, r[ls \ {LastOf(rows, ls)}], LastOf(rows, ls))
    IN r
Replayed(rows, now, id) == ReplayOf(rows, now, id)[Movements(rows)]

\* A line is revised when its amount moved by more than 0.005 or its rate at all.
AmountTolerance == 50
Revised(rows, r) ==
    {l \in Movements(rows) : \/ Distance(rows[l].amount, r.amount[l]) > AmountTolerance
                             \/ rows[l].rate # r.rate[l]}

\* The revisions run() goes on to publish.
OnlyIncreases(rows, r) == {[line |-> l, amount |-> r.amount[l]] :
                            l \in {k \in Revised(rows, r) : r.amount[k] > rows[k].amount}}
Revisions(rows, r) == {[line |-> l, amount |-> r.amount[l]] : l \in Revised(rows, r)}

OnlyAmount(row, rate, amount) == [row EXCEPT !.amount = amount]
Revise(row, rate, amount) == [row EXCEPT !.rate = rate, !.amount = amount]

\* The transaction of replayItem().  The layers are deleted before the
\* consumptions are looked up through them, so the old consumption rows stay.
Replay(p) ==
    LET rows == seen[p].lines
        r == Replayed(rows, lines, lastId + 1)
    IN
    /\ At(p, "replay")
    /\ layers' = r.layers /\ lastId' = r.id
    /\ trail' = trail \cup r.trail
    /\ lines' = [l \in Lines |-> IF l \in Revised(rows, r)
                                 THEN Revise(lines[l], r.rate[l], r.amount[l]) ELSE lines[l]]
    /\ unsent' = [unsent EXCEPT ![p] = Revisions(rows, r)]
    /\ call' = [call EXCEPT ![p] = Doing("publish")]
    /\ seen' = [seen EXCEPT ![p] = Nothing]
    /\ UNCHANGED <<method, opening, told, queued, running, counters>>

\* One revision row and its outbox event at a time, outside any transaction.
\* (Only an issue's changes what Books holds as cost of goods sold.)
PublishRevision(p) ==
    /\ At(p, "publish")
    /\ \E v \in unsent[p] :
         /\ told' = IF lines[v.line].type = "issue" THEN [told EXCEPT ![v.line] = v.amount] ELSE told
         /\ unsent' = [unsent EXCEPT ![p] = @ \ {v}]
    /\ UNCHANGED <<method, opening, lines, layers, trail, lastId, queued, running, call, seen, counters>>

CompleteJob(p) ==
    /\ At(p, "publish") /\ unsent[p] = {}
    /\ running' = running - 1
    /\ Done(p)
    /\ UNCHANGED <<tables, queued, unsent, counters>>

\* The worker is killed: its job stays RUNNING and its revisions are forgotten.
Crash(p) ==
    /\ call[p].op \in {"claimed", "replay", "publish"}
    /\ crashes < MaxCrashes /\ crashes' = crashes + 1
    /\ Done(p)
    /\ unsent' = [unsent EXCEPT ![p] = {}]
    /\ UNCHANGED <<tables, queued, running, landed, replays>>

-----------------------------------------------------------------------------
Session(p) ==
    \/ \E l \in Lines :
         \/ \E o \in {"receipt", "issue", "revaluation", "reverse"} : Begin(p, o, l, 0)
         \/ \E c \in Charges : landed < MaxLanded /\ Begin(p, "landed", l, c)
    \/ PostReceipt(p) \/ PostIssue(p) \/ PostLandedCost(p) \/ PostRevaluation(p)
    \/ ReverseDocument(p) \/ Rollback(p)

Worker(p) ==
    \/ ClaimJob(p) \/ ReadMovements(p) \/ Replay(p)
    \/ PublishRevision(p) \/ CompleteJob(p) \/ Crash(p)

Next == \E p \in Procs : Session(p) \/ Worker(p)

Spec == Init /\ [][Next]_vars

-----------------------------------------------------------------------------
(* Safety.                                                                 *)

Posted(ty) == {l \in Lines : lines[l].type = ty /\ lines[l].status = "POSTED"}
Moved(ty) == SumFunction([l \in Posted(ty) |-> lines[l].qty])
Amount(ty) == SumFunction([l \in Posted(ty) |-> lines[l].amount])

OpeningSeeded == \E x \in layers : x.kind = "opening"

\* No recalculation is queued, at work, or lost by a killed worker.
Settled == ~queued /\ running = 0

(***************************************************************************)
(* The layers hold exactly what the posted documents moved: the opening,   *)
(* plus receipts, less issues.  Issues may overdraw, receipts may be       *)
(* reversed after their goods were sold, and a replay starts from nothing; *)
(* no sequence of them may lose or invent a unit.                          *)
(***************************************************************************)
QuantityConserved ==
    Quantity(layers) = (IF OpeningSeeded THEN opening ELSE 0)
                        + Moved("receipt") - Moved("issue")

(***************************************************************************)
(* What the layers are worth is what the documents say went in, less what  *)
(* they say went out, whenever no recalculation is due: the stock value of *)
(* the balance sheet and the cost of goods sold in Books add up.  Rounding *)
(* may cost 0.0001 a unit.  A replay forgets revaluations, which           *)
(* RevaluationSurvives is about.                                           *)
(***************************************************************************)
ValueAccounted ==
    Settled /\ (replays = 0 \/ Posted("revaluation") = {}) =>
        Distance(Worth(layers) + Amount("issue"),
                 (IF OpeningSeeded THEN opening * OpeningCost ELSE 0)
                    + Amount("receipt") + Amount("revaluation"))
            <= Moved("receipt") + Moved("issue")

\* What issues took out of the layer of receipt line l, at the cost they took it.
SoldFrom(l) == Worth({t \in trail : \E x \in LayersOf(layers, l) : x.id = t.layer})

(***************************************************************************)
(* "line valuation_amount = (what has gone to COGS out of that line) +     *)
(* (what its cost layers still hold)", within 0.00005 a unit: a landed     *)
(* cost is credited on what is left only, and a replay redistributes it    *)
(* between the two without growing it.                                     *)
(***************************************************************************)
LineAccounted ==
    Settled /\ Posted("revaluation") = {} => \A l \in Posted("receipt") :
        2 * Distance(lines[l].amount, SoldFrom(l) + Worth(LayersOf(layers, l))) <= lines[l].qty

(***************************************************************************)
(* The consumption rows of a layer say exactly what it lost, at all times: *)
(* a reversal gives quantities back by these rows and nothing else.        *)
(***************************************************************************)
TrailMatchesLayers ==
    \A x \in layers : x.kind = "opening" \/ (x.kind = "receipt" /\ lines[x.line].status = "POSTED") =>
        x.received - x.qty = Quantity({t \in trail : t.layer = x.id})

(***************************************************************************)
(* A recalculation run again straight away finds nothing to revise: Books  *)
(* is never sent a revision that no document caused.                       *)
(***************************************************************************)
ReplayStable ==
    [][\A p \in Procs : Replay(p) => Revised(lines', Replayed(lines', lines', lastId')) = {}]_vars

\* The documents dated up to d; the others as if they did not exist.
Known(rows, d) == [l \in Lines |-> IF rows[l].date <= d THEN rows[l]
                                  ELSE [rows[l] EXCEPT !.status = "DRAFT"]]

(***************************************************************************)
(* A replay prices no issue from the future: the cost it gives an issue is *)
(* the one it would give if nothing dated later had been posted yet.       *)
(***************************************************************************)
NoPriceFromTheFuture ==
    [][\A p \in Procs : Replay(p) =>
        \A l \in Lines : l \in Movements(lines) /\ lines[l].type = "issue" =>
            LET known == Known(lines, lines[l].date) IN
            Replayed(lines, lines, lastId).amount[l] = Replayed(known, known, lastId).amount[l]]_vars

(***************************************************************************)
(* "Each change ... is published to Books": at rest, Books has been told   *)
(* the cost every posted issue has now, as long as no worker was killed.   *)
(***************************************************************************)
RevisionsReachBooks ==
    crashes = 0 /\ running = 0 => \A l \in Posted("issue") : told[l] = lines[l].amount

-----------------------------------------------------------------------------
(* What the documentation promises and the code does not keep.             *)

(***************************************************************************)
(* "nothing re-prices historical closing stock behind the operator": once  *)
(* no recalculation is due, the stock value still carries every posted     *)
(* revaluation.                                                            *)
(***************************************************************************)
RevaluationSurvives ==
    Settled =>
        Distance(Worth(layers) + Amount("issue"),
                 (IF OpeningSeeded THEN opening * OpeningCost ELSE 0)
                    + Amount("receipt") + Amount("revaluation"))
            <= Moved("receipt") + Moved("issue")

(***************************************************************************)
(* "Each change is an inv_valuation_revisions row and is published to      *)
(* Books": whenever no worker is at it, Books has been told the cost every *)
(* posted issue has now.                                                   *)
(***************************************************************************)
EveryRevisionPublished ==
    (\A p \in Procs : call[p].op # "publish") => \A l \in Posted("issue") : told[l] = lines[l].amount
=============================================================================
