# Aicountly Inventory: a verification project

TLA+ models of Aicountly Inventory: of its server (`src/server-php`) and of the parts of its web client
(`src/web`) that decide something. They are checked with TLC on small instances and, where stated,
proved with TLAPS for every instance.

## 1. The system

The repository holds a PHP API over PostgreSQL (`src/server-php/app`, CodeIgniter 4),
a React client (`src/web`) and an Expo shell (`src/mobile`). On the server a request is one PHP worker, and
cron commands (`app/Commands`) are further workers on the same tables. There is no
lock manager: what orders two workers is a transaction, a unique index, or nothing. The client keeps
its state in a tab, with the remembered company in `localStorage`; what it can get wrong is to act in another company
than it shows, or to tell its user something the server did not do.

| Component | State it keeps | Operations | What makes it correct |
|---|---|---|---|
| Document posting (`DocumentPostingService`) | `inv_documents.status`, `inv_stock_movements` | `post`, `reverse`, `revise` | stock moves once per document and back once; a failed post moved nothing |
| Outbox (`OutboxService`, `inventory:outbox-dispatch`) | `inv_integration_events` | `enqueue`, `dispatch`, `deliverNow`, `abandonForDocument`, `replay`, `settleBooksHandoffs` | each event is delivered or visibly given up, in event order, whoever sends it |
| Books journal handoff (`BooksJournalHandoff`, `…Tracker`) | `inv_books_journal_handoffs` | `claim`, `deliver`, `record`, `claimReversal`, `recordReversed`, `recordFailure`, `dueRepairs` | stock without a journal is always known on disk and gets repaired |
| Valuation engine (`ValuationEngine`) | `inv_cost_layers`, `inv_cost_layer_consumptions`, WAC state | `recordReceipt`, `issueStock`, `clearValuationState`, `seedOpeningStock` | quantity and value of the layers account for every movement |
| Revaluation, landed cost (`DocumentPostingService`) | unit cost of layers, line amounts | `applyRevaluation`, `applyLandedCost`, `raiseCostState` | a line's amount is what went to COGS plus what its layers hold |
| Recalculation (`RecalculationService`) | `inv_valuation_recalc_jobs`, revisions, all layers of an item | `enqueue`, `run`, `replayItem` | a replay yields what the movements say, and keeps deliberate cost changes |
| Reservations (`ReservationService`) | `inv_reservations`, bucket `reserved` | `reserve`, `release`, `fulfil`, `expireDue` | the bucket is the sum of the open reservations |
| Status buckets (`StockStatusService`, `StockBalanceService`) | `inv_stock_balances`, `inv_stock_status_movements` | `apply`, `reverseForDocument`, `applyDelta`, `rebuildOnHand` | a bucket is the sum of its journal and is never overdrawn |
| Pending quantities (`PendingQuantityService`) | `inv_pending_quantities` | open, settle, unsettle, cancel | settled plus remaining is what was opened |
| Packing (`PackingService`) | `inv_packing_meta`, bucket `packed` | pack, unpack, lock, unlock, consume, release | a list is issued to one sale; the bucket holds what open and locked lists packed |
| Documents (`DocumentService`) | documents, lines, numbers | create, update, submit, approve, cancel | only legal status changes; a number is used once |
| Idempotency keys, inbound events | `inv_idempotency_keys`, `inv_inbound_events` | `replay`/`remember`, receive | a retried call has one effect |
| Opening stock, carry-forward | year opening values | resolve, sync | a year opens with what the last one closed |
| Web client: document entry (`DocumentForm`, `DocumentDetailPage`, `actions.ts`) | the form's document id and busy flag, the status a page loaded | save, save and post, submit, approve, reject, cancel, post, reverse | one entry makes one document; "posted" is said only when stock moved; a refusal is explained by a change |
| Web client: company scope (`CompanyContext`, `urlScope.ts`, `AccessContext`) | the tab's company and year, the link's, the remembered ones | load, pick, retry, answers of Manage | a link opens its own company or nothing; rows and forms belong to the company on screen |
| the rest | | masters, units, BOM, reports, settings, access, audit, migration, purge | see PROJECT.json for each one and why it is or is not modelled |

How they interact. `DocumentsController` creates a document and calls `post()`, which
in one transaction moves the balances, values the lines through the valuation engine,
settles pending quantities, journals status buckets, enqueues an outbox event and claims
a handoff row. After the commit the request offers the event to Books over HTTP. When
Books does not take it the request reverses its own document. `inventory:outbox-dispatch`
runs every minute, delivers due events and finishes reversals a request did not finish.
`settleOnContact()` delivers due events on other users' writes. Books calls back through
`IntegrationController`, and creates vouchers with `createAndPost()`, retried under one Idempotency-Key. `inventory:recalc-worker` replays the valuation of items whose
history changed. `ReservationService` and the posting share the status buckets;
`inventory:expire-reservations` releases what is due every five minutes. The client calls the API with the scope `CompanyProvider` registers
in `services/api.ts`, gives a request up after 30 s, and never learns whether the server went on with it.

Where it is hard: a status read before a transaction and used in it (`post`, `reverse`,
`release`, `fulfil`, `issueFromLayers`); a worker killed between a commit and the answer
of Books; an answer lost after Books applied the event; a batch read once and sent row by
row; absolute quantities written over deltas; a replay that rebuilds what live posting is
changing; answers that arrive between a render and its effects, or after their screen has moved on;
retries of all of this. `PROJECT.json` lists each as a hazard at its line.

## 2. Modules

### BooksHandoff: posting, outbox, handoff

`BooksHandoff.tla` models `DocumentPostingService::post()`/`reverse()` with the outbox and
the handoff. A step is one transaction, one autocommitted statement or one HTTP
exchange; between two of them any other process runs or the worker is killed.

| Model | Code |
|---|---|
| `status`, `physical`, `reversal` | the document row, its 'physical' movement rows and their compensating rows; `IndexAllows` is `uq_inv_stock_movements_line` |
| `event[d][kind]`, `lastId` | the outbox rows of the document (`inventory.document.posted`, `.reversed`) and the id sequence |
| `handoff[d]` | `inv_books_journal_handoffs` (claimed for documents in `WaitDocs`, those for which `enabledFor()` is true) |
| `taken[d]` | what Books has processed (external) |
| `pc`, `target`, `batch`, `row`, `reply`, `todo` | the local variables of a worker: rows as it read them |
| `answer` | what the request tells its user |

| Action | Code |
|---|---|
| `PostRead`, `PostCommit`, `PostAbort`, `MarkFailed` | `post()`: the unlocked status check, the transaction, the catch block |
| `DeliverRead`, `DeliverUnread`, `Send`, `RecordDelivery`, `CompleteForEvent`, `RecordAccepted` | `deliverNow()`, `recordDelivery()`, `completeForEvent()`, `record()` |
| `ClaimReversal`, `ReverseRequest`, `ReverseRead`, `ReverseCommit`, `ReverseAbort`, `RecordReversed`, `RecordReversalFailed`, `Abandon` | `undoPostBooksWouldNotTake()`, `reverse()`, `abandonForDocument()` |
| `FetchBatch`, `FetchRepairs`, `NextRepair` | `dispatch()`, `settleBooksHandoffs()` |
| `BackoffElapses`, `RetryElapses` | `next_attempt_at`, `next_retry_at` pass |
| `Replay`, `Crash` | an operator's `replay()`, a killed worker |

Abstractions: times are "now", "later", or "never" (not set); `recordFailure()`'s read and write
of `attempts` are one step, and at the last attempt, where the code sets no next retry,
the model's "later" changes nothing because such a row is not due any more; the dispatch limit
of a batch is not modelled (a small instance fits in one batch); rows with another
`target_app` are skipped. `POSTING` is written and overwritten in one
transaction, so nobody sees it, and `DRAFT` stands for every status `post()` accepts except
`FAILED`. The document moves stock. Editing a document, `revise()` (a repost inside an
edit) and documents that only change status buckets are left to later modules.

`StockAndJournal.tla` is the promise of the whole component, without processes: stock moves out once and back
once, with a record that Books must hear of it; Books is told only what happened; a document is struck off the list of what is still to be told
when Books has all of it, or has refused it; a handoff is closed only as what is true. `BooksHandoff` refines it (`KeepsPromise`), with `physical`,
`reversal` and `taken` as they are, the list as the documents with an event to deliver or out of attempts (`OnList`), and the outcome read off the handoff's
state (`Outcomes`). The promise says what no step may do; that the list empties is liveness (`EventsSettle`).

Books is external and modelled from how the code and
`docs/BOOKS_INVENTORY_INTEGRATION.md:45-59` use it: it is idempotent on the event uuid, may take or refuse an event
it does not have, never refuses one it has, and any answer may be lost.

### CostLayers: valuation and recalculation

`CostLayers.tla` models the FIFO/LIFO side of `ValuationEngine`, what `DocumentPostingService`
does to layers (posting, reversal, revaluation, landed cost), and `RecalculationService`.
Nothing in this code locks what it reads, so an operation is two steps: `Begin` reads the
documents and layers, and the commit writes absolute values worked out from them. One
process makes this serial, two make it race.

| Model | Code |
|---|---|
| `lines` | `inv_document_lines` with type, status and date of their document |
| `layers`, `lastId` | `inv_cost_layers` and the `layer_id` sequence |
| `trail` | `inv_cost_layer_consumptions` |
| `opening`, `method` | the year's opening rows, `inv_items.valuation_method` |
| `queued`, `running` | `inv_valuation_recalc_jobs` in QUEUED (one or more) and in RUNNING |
| `told` | the cost of an issue as the posting event or a revision event last gave it |
| `call`, `seen`, `unsent` | the local variables of a request or a worker |

| Action | Code |
|---|---|
| `Begin`, `Rollback` | status guards and unlocked reads; a business rule or an index refuses |
| `PostReceipt` | `recordReceipt()` with `ensureOpeningSeeded()` |
| `PostIssue` | `issueFromLayers()`, `consumeLayers()`, `resolveFallbackUnitCost()`, `historicUnitCost()` |
| `PostLandedCost` | `applyLandedCost()`, `raiseCostState()` |
| `PostRevaluation` | `applyRevaluation()` |
| `ReverseDocument` | `reverse()`, `reverseLineValuation()`, the recalculation it queues |
| `ClaimJob`, `ReadMovements`, `Replay`, `PublishRevision`, `CompleteJob`, `Crash` | `run()` and `replayItem()`: claim, read before the transaction, the transaction, revisions one by one after it |

Abstractions: one item, company scope, one line per document; money and rates are multiples of the
database's 0.0001, and a rate is rounded as `round(x / qty, 4)` rounds it. A receipt's rate is decided
(the source rate and the refusal of unpriced lines are left out), a landed cost has one charge on one receipt.
Several queued jobs are one (`queued`), as each replays the whole item. Documents come from Books: a revision of a
document without a source is not published, on purpose. Not modelled: the weighted average,
transfers, warehouse scope, batches, dry runs, FAILED and cancelled jobs, a change of method,
`OPENING_STOCK` documents. What `rebuildOnHand()` does at the end of `run()` touches no layer.

Things the code does that a reader may not expect, all in the model: a replay leaves the
consumption rows of the layers it deletes (`clearValuationState()` deletes the layers first, then
looks the rows up through them); posting a backdated document queues no recalculation
(only a test calls `needsRecalc()`), only a reversal or a user does; `historicUnitCost()` is
bounded by the date in a replay and not in a posting.

### PackingLists: consignments and the sales that issue them

`PackingLists.tla` models `PackingService` with what `post()` and `reverse()` do to a packing list
or to a sale naming one. A request reads and checks (`Read`, `Accepts`) and commits later, when
anything may have changed. `Consignments.tla` is the promise, and the detailed module refines it.

| Model | Code |
|---|---|
| `status` | `inv_documents.status` of the lists and the sales (DRAFT: every status `post()` accepts; POSTED: with COMPLETED and PARTIALLY_FULFILLED) |
| `packing`, `holder` | `packing_status`, and `locked_by_external_ref` or `locked_by_document_id`, of `inv_packing_meta` |
| `packed`, `journal` | `packed_qty` of the item, and the net of a document's rows in `inv_stock_status_movements` |
| `call`, `seen` | the request, and what it has read |
| `lost` | ghost: how often a handler without compare-and-set wrote to a list whose goods had moved since it read |

| Action | Code |
|---|---|
| `PostPacking`, `ReversePacking` | `applyPacking()`; `assertReversible()` and `reverseForDocument()` |
| `Unpack`, `Lock`, `Unlock` | the methods of those names; each ends in an UPDATE without a condition |
| `PostSale` | `consumeForSale()`, `consumptionRefusal()` and `markConsumed()`, whose UPDATE is conditional |
| `ReverseSale` | `reverseForDocument()`, `releaseConsumedBy()` |
| `Refuse` | a check, an index or a rollback ends the request |

Abstractions: each list packs one unit of one item, all in one bucket, so what an invoice does
not bill (`splitConsumption()`) leaves the bucket as what it bills does. A sale moves its
stock on invoice, so `uq_inv_stock_movements_line` lets it be posted and reversed once; a PACKING document
has no stock movement, so nothing stops two of its posts. Whether enough stock is available to
pack is a refusal. Books clamps a sale to `on_invoice`; `from_packing` sales are not modelled.

### DocumentEntry: a document from the browser to the stock

`DocumentEntry.tla` composes the tabs of the web client with the server's handlers for a document: a tab sends
a request, a worker reads, checks and writes it in steps, the answer reaches the tab or is lost.

| Model | Code |
|---|---|
| `doc` | `inv_documents` with its lines; `gen` counts the edits, since every update writes new line rows |
| `ledger` | `inv_stock_movements`: which lines moved, and which were taken back |
| `approvalRequired`, `key` | the company's setting; `inv_idempotency_keys` |
| `work` | what each server worker runs, with the row it has read |
| `screen`, `sent` | what a tab shows and says; the request it waits for |
| `approved`, `lost` | ghosts: the lines the last approval was given to; writes that undid what happened since their read |

| Action | Code |
|---|---|
| `OpenForm`, `OpenEdit`, `LoadPage` | `DocumentFormPage`, `DocumentDetailPage` |
| `Save`, `Act`, `Answer`, `GiveUp` | `DocumentForm.submit()`, `DocumentDetailPage.doAction()`, what they do with the answer, and the 30 s limit of `services/api.ts` |
| `Create`, `LookUp`, `InsertVoucher`, `Remember` | `createInternal()` with `replay()`, `findBySource()`, `uq_inv_documents_source` and `remember()` |
| `Read`, `Update`, `Transition`, `Post`, `PostFails`, `MarkFailed`, `BooksAnswers`, `Reverse`, `ReverseFails` | `DocumentService`, `post()`, `reverse()`, `undoPostBooksWouldNotTake()` |
| `SendVoucher`, `Crash` | Books sends a voucher, again at will (external); a worker dies |

`Offers` is the client's table of actions by status (`actions.ts`), `Accepts` the server's; `OnlyStaleRefused` relates
the two. Abstractions: the handshake with Books is `BooksHandoff`, here a post is accepted or undone; a business rule that refuses
is `PostFails` or `ReverseFails`; numbering and `revise()` are left out. With `DBDebug` off (`Config/Database.php:26`) an UPDATE that
`uq_inv_documents_source` refuses raises nothing: `transition()` answers as if it had written, a post fails at its next statement and is marked FAILED. The client takes a new Idempotency-Key for every
call, so only vouchers replay one. Sixteen other entry screens (challan, job work, production and so on) repeat the same four steps: create,
remember the id, update, post. They are not mapped: the model was read off `DocumentForm.tsx`.

### CompanyScope: the company and the year of a tab

`CompanyScope.tla` models one tab of the client. React's order is what makes this hard and is kept: an answer queues a
change of state, a later task renders it, a later one still runs the effects, and other answers come in between;
a click is rendered with its effects at once, and the effects of a render run before the next one.

| Model | Code |
|---|---|
| `url`, `router`, `asked`, `refused` | the address bar, react-router's copy of it, `urlScope.current`, `refusedCompany.current` |
| `stored`, `mine` | `localStorage`, shared by the tabs; the companies Manage lists (external) |
| `st`, `list`, `info`, `access` | the state of `CompanyProvider`, its two requests, the query of `AccessProvider` |
| `ui`, `active`, `page`, `stage` | the last render, `activeScope` of `services/api.ts`, the screen's query and form, what React has left to do |
| `linked`, `named`, `picked`, `shared`, `retried`, `lost` | ghosts: what the link or the user last decided; what happened that excuses a property |

| Action | Code |
|---|---|
| `Visit`, `Refresh`, `ListAnswers`, `ListFails`, `InfoAnswers`, `InfoFails`, `GivenUp` | a load, the two effects of `CompanyProvider` and how their requests end |
| `Render`, `RunEffects`, `AccessAnswers`, `PageAnswers` | React, `AccessProvider`, `useQuery` |
| `PickCompany`, `PickYear`, `Retry`, `Navigate`, `Filter`, `OtherTab` | `selectCompany()`, `selectFy()`, `reload()`, a link in the app, `useListParams()`, another tab |

Abstractions: a year stands for the year and the branch, which the code treats alike; one screen, whose rows are their scope.

### Reservations: reserved stock, and the documents beside it

`Reservations.tla` models `ReservationService`, its controller and the expiry command, with the RESERVATION and
RESERVATION_RELEASE documents that move the same bucket and the sales that lower the stock on hand. A handler is three steps: it reads, checks the bucket,
and writes; PostgreSQL runs at READ COMMITTED, so each step sees what the others have committed by then, and a delta is
applied to what the bucket holds at that time.

| Model | Code |
|---|---|
| `rows`, `lapsed` | `inv_reservations`; those whose `expires_at` has passed |
| `bucket`, `journal` | `reserved_qty` of the item; the net of a document's `inv_stock_status_movements` |
| `onhand`, `moves` | `on_hand_qty` of the item; the kinds of `inv_stock_movements` a document has |
| `status` | `inv_documents.status` (DRAFT stands for PENDING_APPROVAL and APPROVED too) |
| `task` | what a request or the sweep has decided to write: the row it read, the columns, the batch left |
| `told`, `raced`, `crossed`, `strayed`, `lost` | ghosts: what `fulfil()` answered; two requests reserving for one line; the bucket moved between check and write; a reversed document took a reservation's movements back; a write hit a row that had changed |

| Action | Code |
|---|---|
| `Create`, `Check`, `Insert` | `ReservationsController::create()` with `findOpenBySource()`; `assertAvailable()`; `reserve()` |
| `Release`, `Fulfil`, `ExpireDue`, `Check`, `ApplyRelease` | the methods of those names, and `applyRelease()` |
| `PostDocument`, `Check`, `CommitPost`, `MarkFailed` | `post()` with `applyReservationDocument()` or, for a sale, `enforceNegativeStock()` and `applyDelta()`; its catch block |
| `ReverseDocument`, `CommitReverse` | `reverse()`, its compensating movements, and `reverseForDocument()`, which checks nothing |
| `IndexRefuses` | `uq_inv_stock_movements_line` |
| `Lapse`, `Kill` | time passes; a process dies and its transaction is rolled back |

Abstractions: one item in one warehouse, base units, documents of one unit; of the documents that move the stock on hand only sales,
which lower it: the sale is checked against what is on hand, whatever is reserved of it. An Idempotency-Key makes a handler
answer without doing anything, so requests carry none. `Written` is the UPDATE of `applyRelease()`: some columns, over whatever the row holds by then.

## 3. Runs

| Run | Module, cfg | Checks | Shows | Distinct states |
|---|---|---|---|---|
| `books_handoff_posts` | `MCBooksHandoff`, `BooksHandoffPosts` | `TypeOK`, `DurableRecord`, `ToldPostedHasJournal`, `ToldUndoneHasNoStock`, `UndoReachesBooks`, `KeepsPromise` | two posts of one document race each other and the sweep, or a post, a user's reversal and an on-contact drain, with a fault anywhere: all safety holds, and every step is one of `StockAndJournal` | 1,280,689 |
| `books_handoff_live` | `MCBooksHandoff`, `BooksHandoffLive` | `EventsSettle`, `RepairsFinish` | with a cron, every event ends ACKED or DEAD and every decided reversal is finished or exhausted | 106,810 |
| `books_refused` | `MCBooksHandoff`, `BooksHandoffRefused` | `RefusedLeavesNoJournal` | **violated**: a sweep sends from its stale batch an event the request has retired | |
| `cost_layers` | `MCCostLayers`, `CostLayersSerial` | `TypeOK`, `QuantityConserved`, `ValueAccounted`, `LineAccounted`, `TrailMatchesLayers`, `RevisionsReachBooks`, `ReplayStable`, `NoPriceFromTheFuture` | serially, in every order of posting, reversing, revaluing, loading cost and replaying, layers account for every unit and rupee and replays settle | 1,179,116 |
| `cost_revaluation` | `MCCostLayers`, `CostLayersRevaluation` | `RevaluationSurvives` | **violated**: a recalculation drops a posted revaluation | |
| `cost_crash` | `MCCostLayers`, `CostLayersCrash` | `EveryRevisionPublished` | **violated**: a worker killed after the replay's commit loses its revisions | |
| `packing_lists` | `MCPackingLists`, `PackingLists` | `TypeOK`, `PackedIsHeld`, `SalesIssueOnce`, `KeepsConsignments` | two lists, two sales, two requests in every interleaving: the bucket, the lists and the sales agree until an unguarded write is lost | 404,335 |
| `packing_issued_twice` | `MCPackingLists`, `PackingListsIssued` | `IssuedOnce` | **violated**: a write over a consumed list opens it for a second sale | |
| `document_entry` | `MCDocumentEntry`, `DocumentEntry` | `TypeOK`, `OneDocumentPerEntry`, `ToldPostedMovedStock`, `StatusMatchesStock`, `ApprovalCoversLines`, `VoucherMovesOnce`, `OnlyStaleRefused` | two users and a retried voucher on two workers: until a write undoes what happened since its read, status, stock, lines and approval agree, and tabs are told what happened | 301,594 |
| `document_told` | `MCDocumentEntry`, `DocumentEntryTold` | `NotPostedMovedNothing` | **violated**: "saved but was not posted" is said of a document whose stock has moved | |
| `company_scope` | `MCCompanyScope`, `CompanyScope` | `TypeOK`, `LinkNeverSwapped`, `ScopeOfOneCompany`, `ScreenShowsItsScope`, `LoadingHasCause`, `FormIsAllowed`, `SwitchNotUndone` | three loads by seven kinds of link, picks, retries, another tab, lost and late answers: a link opens its own scope or nothing and the screen is of the company it names | 498,884 |
| `reservations` | `MCReservations`, `Reservations` | `TypeOK`, `BucketIsReserved`, `IssuedWithinReserved`, `LineReservedOnce`, `ShortOnlyBySales`, `DueIsReleased` | two processes in every interleaving of read, check and write: the bucket is what is open until a write or a document's reversal takes more than it knows of, it exceeds the stock on hand by no more than sales took, and due reservations are released | 544,377 |

Each violation is a finding in `PROJECT.json`, with the line of code and the sentence of the
repository it contradicts.

What the ghosts leave out. Several handlers write on the strength of an old read; their properties hold *until* two of them
collide, and a ghost records it: `lost` (DocumentEntry, PackingLists, Reservations), `raced`, `crossed` and `strayed` (Reservations).
The repository says of two of these that it does not happen: "a retried order never reserves the same stock twice"
(`ReservationsController.php:113`, and `:13-15`), and "retried invoices must never issue stock twice"
(`DocumentsController.php:308`). Retries of an order line that overlap do reserve twice (`raced`), so `LineReservedOnce` is the sentence for retries
that do not; `VoucherMovesOnce` is the other up to a lost write. In `Reservations` each of them is needed: without its
ghost the property is violated. In CompanyScope `retried` excuses what follows a `reload()`, whose two requests run side by side; `lost` a
tab that waits for a request given up after 30 s; `shared` what another tab wrote to the storage, except in `ScopeOfOneCompany`, which
holds whatever the storage says. `picked` forgets a switch of company when the old link is back in
the address bar: `useListParams()` writes react-router's copy of the parameters back with any filter
(`useListParams.ts:80`), and so does a form opened by `?new=1`. `urlScope.ts:238-240` says that a later switch is not undone by an address bar still naming the old company;
with a filter before or after the switch a reload does undo it. The hazard list has it at its line.

Bounds of the BooksHandoff runs. One document: every race in this component is between workers on one
document; documents only share the id sequence and the batch. `Bound` (`MCBooksHandoff`) lets two posts and the cron work at once, or one post, a
user's reversal and a drain. `MaxDeliveries` stands for 20 and `MaxRepairs` for 12: with 2
every branch (first failure, last failure, exhausted) happens. `MaxFaults` bounds crashes,
rolled-back business rules and operator replays together; answers of Books, refusals and lost
replies are not bounded by it.

Bounds of the CostLayers runs. Three documents with conflicting dates and quantities
(`MCCostLayers`): a receipt; an earlier receipt or an issue of the same day; an early
issue larger than any receipt, or a revaluation. Posted in every order and reversed at any
time they give shortfalls, backorder layers, backdating, equal dates, an issue over two layers, a
receipt reversed after its goods were sold and the reverse of each. The charge 24 divides by the
quantity, so what `LineAccounted` allows for rounding is not used up by the instance. Two replays are what
`ReplayStable` and a replay after a crash need; one crash, one landed cost. A company may stop
posting, so these runs do not check deadlock, and they state no liveness.

Bounds of the PackingLists runs. Two lists share the bucket, so one can lend the other goods it no
longer has; two sales name the first list; two requests are enough for each read to be stale.
One update may be lost (`MaxLost`): the properties with `lost = 0` speak of the states before
it, the type invariant and `IssuedOnce` of those after it too. Requests are symmetric, and so are the two sales. When all
documents are reversed nothing is left to do, so deadlock is not checked.

Bounds of the DocumentEntry runs. Two documents, for an entry saved twice and for a voucher next to an entry; two tabs with
the rights of an author and of a manager; two workers, enough for every read to be stale; a voucher sent twice, one fault, two edits.
`Bound` combines them two at a time: a voucher and a fault, a user beside a voucher, a user and a fault, or two users on one
document. A state after a lost write is checked and not continued. Nothing has to be done to a document, so deadlock is not checked.

Bounds of the CompanyScope run. Two companies, one with two years, so that a year can be of the wrong company or just not the remembered one;
links to each, to a year of another company, and unreadable ones. Three loads: one to store a scope, one to
disturb it, one to see it. Two faults, since one request can be lost behind another. A second tab is not combined with faults or
retries, nor `?new=1` with a second load. A tab may rest at any time.

Bounds of the Reservations run. Two processes at work at once and two reservations, of two units and of one, for one order line or
none, or one reservation beside two documents: a part, a whole, and a remainder of each happen, and three on hand
let two units and one be reserved; with one on hand the bucket runs out, and a sale takes what is reserved; with none a sale is refused or overdraws.
Two documents race each other with one on hand or none. After a write was lost, strayed or raced only the sweep goes on, since only liveness is still asked.
One sweep may be killed.

Fairness (`FairSpec`). A running request goes on and a running sweep goes on; the cron
starts a sweep every minute (`inventory:outbox-dispatch`, DEPLOYMENT.md), so a cron process has weak fairness on its
whole step, also when idle; time passes. A request needs somebody to send it, a drain needs
somebody's write, crashes and faults are never forced: they get none. Without a cron the
system may come to rest; with one it may not, and both passing BooksHandoff runs check for deadlock.
In `Reservations` the fairness is `WF(Sweep)`: `inventory:expire-reservations` is started every five minutes and a started
sweep goes on. Requests, documents and kills get none, and `DueIsReleased` excludes a bucket that no longer covers what is
open, where the sweep stops at the first row at every run.

## 4. Proofs

`BooksHandoffProofs.tla` proves, for any sets of documents, requests and workers and any
bounds (assumptions `ProcsAssumption`, `BoundsAssumption`, `NoRowAssumption`: the process kinds are
disjoint, the bounds natural numbers, the null values no values):

- `TypeCorrect`: `Spec => []TypeOK`.
- `Invariant`: `Spec => []IInv`, the strengthening the rest is read off. `IInv` says what the rows
  say about each other (`RowsInv`, `AckInv`, `ClaimInv`, `UndoInv`) and what a process may still rely
  on between two of its steps (`LocalInv`, `PosterInv`, `AnswerInv`). The second half is
  what makes it inductive: e.g. `RecordReversed` closes a handoff because a process
  at `rev_done` knows that the compensating row exists, whoever inserted it.
- `MovesOnce`, `Durable`, `PostedHasJournal`, `UndoneHasNoStock`, `UndoIsSent`: `StockMovesOnce` and the safety
  invariants of the passing runs.
- `Implements`: `Spec => KeepsPromise`, one case per kind of write: `BooksHandoff` refines `StockAndJournal`. `IInv` does not say where the
  rows came from, so `Sent` adds it: what Books, a batch or a worker has in hand has its row in the outbox, a row its movement (`SentInv`), and
  a process that writes a handoff works on a document that has moved (`RepairInv`).

`PackingListsProofs.tla` proves, for any finite set of lists, any sales, requests and drafts and any
`MaxLost` (assumptions `NamesAssumption`, `DocumentsAssumption`, `HoldersAssumption`, `MaxLostAssumption`):

- `TypeCorrect`, and `Invariant`: `Spec => []IInv`. Neither "the bucket is what is held" nor "issued
  once" is inductive. `IInv` adds what each list's journal must be (`ListFits`), that a consumed list names a posted sale
  that took one unit (`ConsumerFits`) and that such a sale is its list's consumer (`SaleFits`), and, for a request in
  flight, what it must have read (`ReadFits`).
- `BucketMatches` and `IssuesOnce`: `PackedIsHeld` and `SalesIssueOnce`. The compare-and-set is
  all that racing sales need; the other handlers are safe only while no update is lost, and
  `packing_issued_twice` shows that the code loses one.
- `Implements`: `Spec => KeepsConsignments`, from the same invariant, one case per action.

`DocumentEntryProofs.tla` proves, for any documents, tabs, permissions, vouchers, workers and bounds (`EntryAssumption`, `NoneAssumption`):

- `TypeCorrect`, and `Invariant`: `Spec => []IInv`, where `IInv` is `TypeOK`, what holds whatever is lost (`Kept`: what a worker
  past its check still knows, what a tab was told, one live document per voucher), and, while `lost = 0`, that the row agrees with
  the movements and the approval (`Current`). The second part needs the first: a worker about to write relies on the row it read, and a write that does not lose anything finds it unchanged.
- `ToldPosted`, `StatusFits`, `ApprovalCovers`, `VoucherOnce`, and the action property `OnlyStale`.
- `OneDocument`: `OneDocumentPerEntry`, from `IInv` and `EntriesKept`: the documents of a tab, the creates on their way for it and the one it
  may still send are at most one more than the faults. A lost answer adds one to each side.

One lemma per action; documents only move forward between a load and a click, which is what `OnlyStale` says of the two
status tables.

`ReservationsProofs.tla` proves, for any requests, lines, documents and quantities (`DocumentsAssumption`, `ProcsAssumption`, `NoneAssumption`, `BoundsAssumption`):

- `TypeCorrect`, and `Invariant`: `Spec => []IInv`. To `TypeOK` and the properties, `IInv` adds what a process has decided before it writes: that it fits the row it read (`Fits`), that the
  bucket it saw covers it (`Covered`), that a sale has its movement exactly while posted or reversed (`MovesFit`), that no line has an open reservation and a request about to add one (`OncePerLine`).
- `IssuedFits`, `LineOnce`: `IssuedWithinReserved`, `LineReservedOnce`.
- `ShortfallIsSold`: `ShortOnlyBySales`. A check compares the bucket with what is on hand, and a sale may lower that before the write;
  what is on hand and what posted sales took together never change (`Stock`, `StockKept`), so `Covered` and the bound speak of that sum. Most actions only give a process
  another task and share one lemma (`TaskStep`).
- `BucketFits`: `BucketIsReserved` of Reservations. The sums are folds over sets (`SumFunction` of the community modules), and
  the provers do no induction over folds. `SumTheorems.tla` gets round that: a fold is a function defined by recursion on
  subsets, a family of subsets of a finite set has a smallest member (a theorem of the library), and the smallest subset on which a claim fails is refuted by the claim
  on what is left of it. So `SumRemove`: any element can be taken out of a sum. The rest is bookkeeping, one change of a row at a time;
  the documents must be finitely many.

`CompanyScopeProofs.tla` proves every property of the run, for any companies, years, links, permissions and bounds (`ScopeAssumption`: every set of companies
has a first, years belong to companies, and the null values are no values). None of the theorems needs the constraint the run puts on what is combined.

- `TypeCorrect`, and `Invariant`: `Spec => []Inv`. The variables of a tab are set at different times, and `Inv` says what each may expect of the others:
  a tab at rest shows its state and has run its effects (`Idle`); a refused link keeps the tab without a company (`Refusal`); the company switched to is
  the stored one, and neither the link nor the address bar names another (`Switched`); the link is still asked for, or is what the storage remembers (`Followed`);
  what is known of the permissions (`Answer`). Until `reload()` the requests come one after the other (`InTurn`), so the rows and the
  permissions are of the scope on screen (`OneScope`, `Permitted`).
- `NeverSwapped`, `OneCompany`, `ItsScope`, `HasCause`, `FormAllowed`, `NotUndone`.

`CostLayersProofs.tla` proves what holds in `CostLayers` with any number of processes at once, for any documents, charges, openings and
bounds (`LinesAssumption`, `DataAssumption`, `DraftsAssumption`: finitely many lines, each with drafts as `DocumentService::create()` accepts them):

- `TypeCorrect`, and `AlwaysConsistent`: `Spec => []Consistent`. Nothing is locked, so what a process has read may be old. `Consistent` says what it
  may still rely on: a document keeps its type and is never a draft again (`Outdated`), layer ids only grow, every worker has a job that is RUNNING (`CountersFit`).
- `PricedFromThePast`: `NoPriceFromTheFuture`. Up to the date of an issue the replay of all documents and the one of those known by then are the
  same (`KnownReplay`), and what comes later sets no amount but its own (`LaterReplay`).

A replay is a recursion on the last movement of a set of movements. `ReplayUnfolds` shows that the recursion has exactly one solution, so that it
can be taken apart one movement at a time. What holds of a whole replay is then shown as for sums: the smallest set of movements on which it fails
is refuted by one movement less.

`CostAccountsProofs.tla` proves the accounts, under `Serial` (one process at a time, as in the run `cost_layers`). A process then commits on what the
tables still say (`Fresh`). `Serial` is a hypothesis of the theorems and not a claim about the code, which locks nothing.
With two processes TLC finds `QuantityConserved`, `ValueAccounted`, `LineAccounted`, `TrailMatchesLayers` and `ReplayStable` violated (hazard list,
`DocumentPostingService.php:1740`); `RevisionsReachBooks` it did not refute in 4.8 million states. The theorems say what
the code keeps as long as operations on one item do not overlap.

- `RevisionsTold`: `RevisionsReachBooks`. `Unpublished`: a posted issue whose cost Books does not have has its revision in the hands of the worker.
- `AlwaysTallied`: `Spec => []TallyNow`, and from it `QuantityKept` and `TrailKept`. Neither of the two is inductive: a reversal gives back what the
  consumption rows say, and a replay deletes layers and leaves their rows. `Tally` adds that every row stands for a document that is no draft (`TrailFits`), that
  every posted receipt has its layer (`ReceiptsFit`), that only shortfalls and withdrawn receipts are owed (`OwedFits`), and that what a posted issue took
  and owes is its quantity (`IssuesDrawn`). A replay keeps it movement by movement, the movements still to come being drafts (`RunRows`).
- `ValueKept`: `ValueAccounted`. Behind it are `AllRated`, each amount is its quantity times its rate up to the rounding of the rate, half a grid step a unit,
  and `ValueHeld`. A landed cost credits what the layer absorbs, a revaluation what it changes, an issue what it takes; a replay, which keeps
  an old amount within 0.005 of the new one, keeps the rate with it, and so the tolerance does not add up (`RunValue`).
- `LinesKept`: `LineAccounted`. Receipt by receipt: one layer each (`Single`), at one cost between a posting and the next
  change of cost, and the line's amount is what left it plus what it holds (`LineHeld`).
- `Stable`: `ReplayStable`. The second replay reads the movements the first one wrote. They differ from those the first one read in amounts and in the rates of
  issues, and a replay reads neither (`SameMoves`); layers get other ids, but only their order counts (`Renames`, `SameRun`).

Only model-checked: liveness (`EventsSettle`, `RepairsFinish`, `DueIsReleased`), since fairness and ENABLED are
out of the prover's reach. Every other property of the passing runs is a theorem.
The violations are not theorems: a run shows each by a behaviour.

## 5. Not modelled, and the plan

`PROJECT.json` gives every component's status. Most of the repository's lines are TypeScript that shows things: registers, dashboards, forms, printing, columns. They
hold no state that outlives a screen, and no property of TLA+ kind; the rules they follow are in the modules above and on the server, so
the modules stand for a small part of those lines and for most of what can go wrong between them.

What would come next, most important first:

1. **PendingQuantities**: settle, unsettle and cancel; two settlements of one row.
2. **Packing quantities**: `splitConsumption()` against a reference definition, and `from_packing` sales.
3. `revise()` in DocumentEntry, `rebuildOnHand()` beside postings, and two sales that both pass the negative-stock check.
4. **RecalcJobs**: the queue with FAILED, cancelled and dry runs, its liveness, and replays against live postings (a landed cost
   credited on a quantity an issue has just taken; `PROJECT.json` lists it).
5. **Inbound**: received events with redelivery and crashes.
6. Pure algorithms against reference definitions: `allocateCharge()` with `settleResidual()`,
   `computeWacAfterReceipt()`, the BOM explosion.

Left out on purpose: reads without state (reports, reconciliation, pricing previews), masters guarded by database constraints,
settings and period locks (a refused business rule wherever they matter), the audit log, one-time
migration and operator scripts, and the mobile shell.
