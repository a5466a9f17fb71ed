------------------------- MODULE ReservationsProofs -------------------------
(***************************************************************************)
(* Proofs about Reservations, for any number of requests, lines, documents *)
(* and quantities.  The liveness property stays with TLC.                  *)
(***************************************************************************)
EXTENDS Reservations, SumTheorems, SequenceTheorems, TLAPS

Workers == Procs \cup {Cron}

-----------------------------------------------------------------------------
(* The inductive invariant.                                                *)

\* What an update takes from the bucket.
Takes(t) == IF t.take > 0 THEN t.take ELSE 0

\* A task was decided on an open row, and writes a consistent one over it: with
\* as much less open as it takes from the bucket.
Fits(t, ids) ==
    /\ t.op = "reserve" => t.row.done = 0 /\ t.row.qty \in Nat /\ t.row.status = "active"
    /\ t.op = "update" =>
        /\ t.id \in ids
        /\ IsOpen(t.read)
        /\ Written(t.read, t).done = t.read.done + t.issued
        /\ t.read.done <= t.read.qty =>
              /\ Written(t.read, t).done <= Written(t.read, t).qty
              /\ OpenOf(Written(t.read, t)) = OpenOf(t.read) - Takes(t)
        /\ \A b \in t.rest : b.id \in ids /\ IsOpen(b.row)

\* What there would be on hand without the posted sales: it never changes.
Stock == onhand + Sold

\* The bucket a task saw covers what it is about to do, within such a stock.
Covered(t, stock) ==
    /\ t.op = "reserve" /\ t.saw # None => t.saw + t.row.qty <= stock
    /\ t.op = "update" /\ t.saw # None /\ t.take > 0 => t.saw >= t.take
    /\ t.op = "post" /\ t.saw # None /\ t.doc \in Holds => t.saw + 1 <= stock
    /\ t.op = "post" /\ t.saw # None /\ t.doc \in Frees => t.saw >= 1

TasksFit == \A p \in Workers : Fits(task[p], Ids) /\ (~lost => Covered(task[p], Stock))

\* A sale has its movement once it is posted, and not before.
MovesFit ==
    ~lost => \A d \in Documents : "physical" \in moves[d] <=> d \in Issues /\ status[d] \notin Postable

\* What was issued of a reservation, and nothing beyond the last one.
Counted ==
    ~lost =>
        /\ \A i \in Ids : rows[i].done = told[i] /\ rows[i].done <= rows[i].qty
        /\ \A i \in 1..MaxRows : i \notin Ids => told[i] = 0

Reserving(p, line) == line # None /\ task[p].op = "reserve" /\ task[p].row.line = line
OpenFor(i, line) == line # None /\ rows[i].line = line /\ IsOpen(rows[i])

\* No line has two open reservations, or one and a request about to add one,
\* or two such requests.
OncePerLine ==
    ~raced /\ ~lost =>
        \A line \in Lines :
            /\ \A i, j \in Ids : OpenFor(i, line) /\ OpenFor(j, line) => i = j
            /\ \A p \in Procs, i \in Ids : ~(Reserving(p, line) /\ OpenFor(i, line))
            /\ \A p, o \in Procs : Reserving(p, line) /\ Reserving(o, line) => p = o

IInv == TypeOK /\ TasksFit /\ Counted /\ OncePerLine /\ MovesFit /\ ShortOnlyBySales /\ BucketIsReserved

-----------------------------------------------------------------------------
(* A task is what its operation says.                                      *)
LEMMA TaskKinds ==
    ASSUME NEW t \in Task
    PROVE  /\ t.op = "reserve" => t \in ReserveTask
           /\ t.op = "update" => t \in UpdateTask
           /\ t.op = "post" => t \in PostTask
           /\ t.op \in {"reverse", "fail"} => t \in StatusTask
  BY DEF Task, Idle, ReserveTask, UpdateTask, PostTask, StatusTask

LEMMA UpdateTyped ==
    ASSUME NEW i \in 1..MaxRows, NEW r \in Row, NEW take \in Int, NEW new \in Row,
           NEW columns \in SUBSET Columns, NEW issued \in Nat,
           NEW rest \in SUBSET [id : 1..MaxRows, row : Row]
    PROVE  Update(i, r, take, new, columns, issued, rest) \in UpdateTask
  BY DEF Update, UpdateTask

LEMMA WrittenTyped ==
    ASSUME NEW r \in Row, NEW t \in UpdateTask
    PROVE  Written(r, t) \in Row
  BY DEF Written, UpdateTask, Row

-----------------------------------------------------------------------------
(* What the reservations and the posted documents add up to.               *)
OpenQtys == [i \in Ids |-> OpenOf(rows[i])]
Effects == [d \in Documents |-> PostedEffect(d)]

SumsFit ==
    /\ Reserved = SumFunctionOnSet(OpenQtys, Ids) /\ Reserved \in Int
    /\ Held = SumFunctionOnSet(Effects, Documents) /\ Held \in Int
    /\ IsFiniteSet(Ids) /\ \A i \in Ids : OpenQtys[i] \in Int
    /\ IsFiniteSet(Documents) /\ \A d \in Documents : Effects[d] \in Int

LEMMA SumsAreThose == TypeOK => SumsFit
  <1> SUFFICES ASSUME TypeOK PROVE SumsFit
    OBVIOUS
  <1>1. DOMAIN OpenQtys = Ids /\ DOMAIN Effects = Documents
    BY DEF OpenQtys, Effects
  <1>2. Reserved = SumFunctionOnSet(OpenQtys, Ids) /\ Held = SumFunctionOnSet(Effects, Documents)
    BY <1>1 DEF Reserved, Held, SumFunction, OpenQtys, Effects
  <1>3. IsFiniteSet(Ids) /\ IsFiniteSet(Documents)
    <2>1. Ids = 1..Len(rows) /\ Len(rows) \in Nat
      BY DEF TypeOK, Ids
    <2> QED
      BY <2>1, FS_Interval, DocumentsAssumption DEF Documents
  <1>4. \A i \in Ids : OpenQtys[i] \in Int
    <2>1. \A i \in Ids : rows[i] \in Row
      BY DEF TypeOK, Ids
    <2>2. \A r \in Row : OpenOf(r) \in Int
      BY DEF OpenOf, OpenQty, Row
    <2> QED
      BY <2>1, <2>2 DEF OpenQtys
  <1>5. \A d \in Documents : Effects[d] \in Int
    BY DEF Effects, PostedEffect, Effect
  <1>6. Reserved \in Int /\ Held \in Int
    BY <1>2, <1>3, <1>4, <1>5, SumInt
  <1> QED
    BY <1>2, <1>3, <1>4, <1>5, <1>6 DEF SumsFit

LEMMA Summed ==
    ASSUME TypeOK, TypeOK'
    PROVE  /\ Reserved = SumFunctionOnSet(OpenQtys, Ids) /\ Reserved' = SumFunctionOnSet(OpenQtys', Ids')
           /\ Held = SumFunctionOnSet(Effects, Documents) /\ Held' = SumFunctionOnSet(Effects', Documents)
           /\ Reserved \in Int /\ Held \in Int
           /\ IsFiniteSet(Ids) /\ IsFiniteSet(Documents)
           /\ \A i \in Ids : OpenQtys[i] \in Int
           /\ \A i \in Ids' : OpenQtys'[i] \in Int
           /\ \A d \in Documents : Effects[d] \in Int /\ Effects'[d] \in Int
  <1>1. SumsFit /\ SumsFit'
    BY SumsAreThose, PTL
  <1>2. /\ Reserved' = SumFunctionOnSet(OpenQtys, Ids)' /\ Held' = SumFunctionOnSet(Effects, Documents)'
        /\ \A i \in Ids' : OpenQtys'[i] \in Int
        /\ \A d \in Documents : Effects'[d] \in Int
    BY <1>1 DEF SumsFit, Documents
  <1>3. Documents' = Documents
    BY DEF Documents
  <1> QED
    BY <1>1, <1>2, <1>3 DEF SumsFit

\* Only rows, statuses and the bucket itself matter to what they hold.
LEMMA BucketUnmoved ==
    ASSUME BucketIsReserved, UNCHANGED <<rows, bucket, status>>, lost => lost', strayed => strayed'
    PROVE  BucketIsReserved'
  <1>1. Reserved' = Reserved
    BY DEF Reserved, Ids
  <1>2. Held' = Held
    BY DEF Held, PostedEffect
  <1> QED
    BY <1>1, <1>2 DEF BucketIsReserved

\* A row joins.
LEMMA RowJoins ==
    ASSUME TypeOK, TypeOK', NEW r, rows' = Append(rows, r), r \in Row
    PROVE  Reserved' = Reserved + OpenOf(r)
  <1> DEFINE n == Len(rows) + 1
             F == OpenQtys
             G == OpenQtys'
  <1>1. Ids = 1..Len(rows) /\ Len(rows) \in Nat /\ Ids' = Ids \cup {n} /\ n \notin Ids
    BY DEF TypeOK, Ids
  <1>2. G[n] = OpenOf(r) /\ \A i \in Ids : G[i] = F[i]
    BY <1>1 DEF TypeOK, Ids, OpenQtys
  <1>3. /\ Reserved' = SumFunctionOnSet(G, Ids') /\ Reserved = SumFunctionOnSet(F, Ids)
        /\ IsFiniteSet(Ids) /\ \A i \in Ids \cup {n} : G[i] \in Int
    <2>1. Reserved' = SumFunctionOnSet(G, Ids') /\ \A i \in Ids' : G[i] \in Int
      BY Summed
    <2> QED
      BY <1>1, <2>1, Summed
  <1> HIDE DEF F, G
  <1>4. SumFunctionOnSet(G, Ids \cup {n}) = SumFunctionOnSet(G, Ids) + G[n]
    BY <1>1, <1>3, SumJoin
  <1>5. SumFunctionOnSet(G, Ids) = SumFunctionOnSet(F, Ids)
    BY <1>2, <1>3, SumSame
  <1> QED
    BY <1>1, <1>2, <1>3, <1>4, <1>5

\* A row is written.
LEMMA RowChanges ==
    ASSUME TypeOK, TypeOK', NEW i \in Ids, NEW r, rows' = [rows EXCEPT ![i] = r]
    PROVE  Reserved' = Reserved - OpenOf(rows[i]) + OpenOf(r)
  <1> DEFINE F == OpenQtys
             G == OpenQtys'
  <1>1. Ids' = Ids
    BY DEF TypeOK, Ids
  <1>2. G[i] = OpenOf(r) /\ F[i] = OpenOf(rows[i]) /\ \A j \in Ids \ {i} : G[j] = F[j]
    BY <1>1 DEF TypeOK, Ids, OpenQtys
  <1>3. /\ Reserved' = SumFunctionOnSet(G, Ids) /\ Reserved = SumFunctionOnSet(F, Ids)
        /\ IsFiniteSet(Ids) /\ \A j \in Ids : F[j] \in Int /\ G[j] \in Int
    <2>1. Reserved' = SumFunctionOnSet(G, Ids') /\ \A j \in Ids' : G[j] \in Int
      BY Summed
    <2> QED
      BY <1>1, <2>1, Summed
  <1> HIDE DEF F, G
  <1>4. SumFunctionOnSet(G, Ids) = SumFunctionOnSet(F, Ids) - F[i] + G[i]
    BY <1>2, <1>3, SumChange
  <1> QED
    BY <1>2, <1>3, <1>4

\* A document is posted or reversed.
LEMMA StatusChanges ==
    ASSUME TypeOK, TypeOK', NEW d \in Documents, NEW s, status' = [status EXCEPT ![d] = s]
    PROVE  Held' = Held - PostedEffect(d) + IF s = "POSTED" THEN Effect(d) ELSE 0
  <1> DEFINE F == Effects
             G == Effects'
             e == IF s = "POSTED" THEN Effect(d) ELSE 0
  <1>1. G[d] = e /\ F[d] = PostedEffect(d) /\ \A x \in Documents \ {d} : G[x] = F[x]
    BY DEF TypeOK, Effects, PostedEffect
  <1>2. /\ Held' = SumFunctionOnSet(G, Documents) /\ Held = SumFunctionOnSet(F, Documents)
        /\ IsFiniteSet(Documents) /\ \A x \in Documents : F[x] \in Int /\ G[x] \in Int
    <2>1. Held' = SumFunctionOnSet(G, Documents) /\ \A x \in Documents : G[x] \in Int
      BY Summed
    <2> QED
      BY <2>1, Summed
  <1> HIDE DEF F, G, e
  <1>3. SumFunctionOnSet(G, Documents) = SumFunctionOnSet(F, Documents) - F[d] + G[d]
    BY <1>1, <1>2, SumChange
  <1>4. Held' = Held - PostedEffect(d) + e
    BY <1>1, <1>2, <1>3
  <1> QED
    BY <1>4 DEF e

\* Nor does the stock before sales, unless one of the two moves.
LEMMA StockUnmoved ==
    ASSUME UNCHANGED <<onhand, status>>
    PROVE  Stock' = Stock
  BY DEF Stock, Sold, PostedIssue

Sales == [d \in Documents |-> PostedIssue(d)]

SoldFits ==
    /\ Sold = SumFunctionOnSet(Sales, Documents) /\ Sold \in Nat
    /\ \A d \in Documents : Sales[d] \in Nat
    /\ onhand \in Int /\ Stock \in Int /\ onhand <= Stock

LEMMA SoldIsThat == TypeOK => SoldFits
  <1> SUFFICES ASSUME TypeOK PROVE SoldFits
    OBVIOUS
  <1>1. DOMAIN Sales = Documents
    BY DEF Sales
  <1>2. Sold = SumFunctionOnSet(Sales, Documents)
    BY <1>1 DEF Sold, SumFunction, Sales
  <1>3. \A d \in Documents : Sales[d] \in Nat
    BY DEF Sales, PostedIssue, Issued
  <1>4. Sold \in Nat
    BY <1>2, <1>3, SumNat, SumsAreThose DEF SumsFit
  <1>5. onhand \in Int
    BY DEF TypeOK
  <1>6. Stock \in Int /\ onhand <= Stock
    BY <1>4, <1>5 DEF Stock
  <1> QED
    BY <1>2, <1>3, <1>4, <1>5, <1>6 DEF SoldFits

\* A sale that is posted or reversed moves the two against each other.
LEMMA StockKept ==
    ASSUME TypeOK, TypeOK', NEW d \in Documents, NEW s, status' = [status EXCEPT ![d] = s],
           onhand' = onhand + PostedIssue(d) - IF s = "POSTED" THEN Issued(d) ELSE 0
    PROVE  Stock' = Stock
  <1> DEFINE F == Sales
             G == Sales'
             e == IF s = "POSTED" THEN Issued(d) ELSE 0
  <1>1. G[d] = e /\ F[d] = PostedIssue(d) /\ \A x \in Documents \ {d} : G[x] = F[x]
    BY DEF TypeOK, Sales, PostedIssue
  <1>2. SoldFits /\ SoldFits'
    BY SoldIsThat, PTL
  <1>3. /\ Sold' = SumFunctionOnSet(G, Documents) /\ Sold = SumFunctionOnSet(F, Documents)
        /\ IsFiniteSet(Documents) /\ \A x \in Documents : F[x] \in Int /\ G[x] \in Int
    <2>1. Sold' = SumFunctionOnSet(G, Documents) /\ \A x \in Documents : G[x] \in Nat
      BY <1>2 DEF SoldFits, Documents
    <2> QED
      BY <1>2, <2>1, SumsAreThose DEF SoldFits, SumsFit
  <1>4. onhand' = onhand + PostedIssue(d) - e
    OBVIOUS
  <1> HIDE DEF F, G, e
  <1>5. SumFunctionOnSet(G, Documents) = SumFunctionOnSet(F, Documents) - F[d] + G[d]
    BY <1>1, <1>3, SumChange
  <1>6. onhand \in Int /\ Sold \in Int /\ F[d] \in Int /\ G[d] \in Int
    BY <1>2, <1>3 DEF SoldFits
  <1>7. Stock' = onhand' + Sold' /\ Stock = onhand + Sold
    BY DEF Stock
  <1> QED
    BY <1>1, <1>3, <1>4, <1>5, <1>6, <1>7

-----------------------------------------------------------------------------
(* A step that only gives a process another task keeps the invariant, if   *)
(* the task fits and reserves for no new line.                             *)
LEMMA TaskStep ==
    ASSUME IInv, NEW p \in Workers, NEW t \in Task,
           Step(p, t), Fits(t, Ids), Covered(t, Stock),
           t.op = "reserve" => task[p].op = "reserve" /\ t.row = task[p].row,
           UNCHANGED <<stored, ghosts>>, kills' \in 0..MaxKills
    PROVE  IInv'
  <1>1. TypeOK'
    BY DEF IInv, TypeOK, Step, stored, ghosts, Documents, Workers
  <1>2. TasksFit'
    <2>1. /\ DOMAIN task = Workers /\ rows' = rows
          /\ task' = [task EXCEPT ![p] = t]
      BY DEF IInv, TypeOK, Workers, Step, stored
    <2>2. \A o \in Workers : task'[o] = IF o = p THEN t ELSE task[o]
      BY <2>1
    <2>3. \A o \in Workers : Fits(task'[o], Ids) /\ (~lost => Covered(task'[o], Stock))
      BY <2>2 DEF IInv, TasksFit
    <2>4. Stock' = Stock /\ lost' = lost
      BY StockUnmoved DEF stored, ghosts
    <2> QED
      BY <2>1, <2>3, <2>4 DEF TasksFit, Ids, Fits, Covered, IsOpen, Written
  <1>3. Counted'
    BY DEF IInv, Counted, stored, ghosts, Ids
  <1>4. OncePerLine'
    <2>1. /\ rows' = rows /\ raced' = raced /\ lost' = lost
          /\ \A o \in Procs : task'[o] = IF o = p THEN t ELSE task[o]
      BY DEF IInv, TypeOK, Step, stored, ghosts
    <2>2. \A o \in Procs, line \in Lines : Reserving(o, line)' => Reserving(o, line)
      BY <2>1 DEF Reserving
    <2>3. \A i \in Ids, line \in Lines : OpenFor(i, line)' <=> OpenFor(i, line)
      BY <2>1 DEF OpenFor, IsOpen, Ids
    <2>4. Ids' = Ids
      BY <2>1 DEF Ids
    <2> QED
      BY <2>1, <2>2, <2>3, <2>4 DEF IInv, OncePerLine
  <1>5. ShortOnlyBySales' /\ MovesFit'
    BY StockUnmoved DEF IInv, ShortOnlyBySales, MovesFit, Stock, stored, ghosts
  <1>6. BucketIsReserved'
    BY BucketUnmoved DEF IInv, stored, ghosts
  <1> QED
    BY <1>1, <1>2, <1>3, <1>4, <1>5, <1>6 DEF IInv

-----------------------------------------------------------------------------
(* The tasks that handlers give themselves.                                *)

\* An idle process, or one about to undo a document, promises nothing.
LEMMA IdleFits ==
    Idle \in Task /\ Fits(Idle, Ids) /\ (\A c : Covered(Idle, c)) /\ Idle.op # "reserve"
  BY DEF Idle, Task, Fits, Covered

\* A sweep goes on with a row of its batch, or is done.
LEMMA SweepTask ==
    ASSUME NEW p \in Workers, NEW ids \in SUBSET (1..MaxRows),
           NEW batch \in SUBSET [id : 1..MaxRows, row : Row],
           \A b \in batch : b.id \in ids /\ IsOpen(b.row),
           GoOn(p, batch)
    PROVE  \E t \in Task : Step(p, t) /\ Fits(t, ids) /\ (\A c : Covered(t, c)) /\ t.op # "reserve"
  <1>1. CASE batch = {} /\ Step(p, Idle)
    BY <1>1 DEF Idle, Task, Fits, Covered
  <1>2. ASSUME NEW b \in batch,
               Step(p, Update(b.id, b.row, OpenQty(b.row), [b.row EXCEPT !.status = "expired"],
                        {"status"}, 0, batch \ {b}))
        PROVE  \E t \in Task : Step(p, t) /\ Fits(t, ids) /\ (\A c : Covered(t, c)) /\ t.op # "reserve"
    <2> DEFINE new == [b.row EXCEPT !.status = "expired"]
               t == Update(b.id, b.row, OpenQty(b.row), new, {"status"}, 0, batch \ {b})
    <2>1. b.id \in 1..MaxRows /\ b.row \in Row
      OBVIOUS
    <2>2. new \in Row
      BY <2>1 DEF Row, Statuses, OpenStatuses
    <2>3. OpenQty(b.row) \in Int
      BY <2>1 DEF OpenQty, Row
    <2>4. t \in UpdateTask
      <3> HIDE DEF new
      <3> QED
        BY <2>1, <2>2, <2>3, UpdateTyped DEF Columns
    <2>5. Written(b.row, t).done = b.row.done /\ Written(b.row, t).qty = b.row.qty
      BY DEF Written, Update
    <2>6. /\ t.op = "update" /\ t.id = b.id /\ t.read = b.row /\ t.issued = 0
          /\ t.rest = batch \ {b} /\ t.saw = None
      BY DEF Update
    <2>7. b.row.done + 0 = b.row.done
      BY <2>1 DEF Row
    <2>9. b.row.done <= b.row.qty => OpenOf(Written(b.row, t)) = OpenOf(b.row) - Takes(t)
      <3>1. Written(b.row, t).status = "expired" /\ t.take = OpenQty(b.row)
        BY <2>1 DEF Written, Update, Row
      <3>2. OpenOf(Written(b.row, t)) = 0 /\ OpenOf(b.row) = OpenQty(b.row)
        BY <3>1 DEF OpenOf, IsOpen, OpenStatuses
      <3> HIDE DEF t
      <3> QED
        BY <2>1, <3>1, <3>2 DEF OpenQty, Takes, Row
    <2> HIDE DEF t
    <2>8. Fits(t, ids) /\ \A c : Covered(t, c)
      BY <2>5, <2>6, <2>7, <2>9 DEF Fits, Covered
    <2> QED
      BY <1>2, <2>4, <2>6, <2>8 DEF t, Task
  <1> QED
    BY <1>1, <1>2 DEF GoOn

LEMMA ReleaseInv ==
    ASSUME IInv, NEW p \in Procs, NEW i \in Ids, NEW q \in Qtys, Release(p, i, q)
    PROVE  IInv'
  <1> DEFINE r == rows[i]
             full == q = OpenQty(r)
             new == [r EXCEPT !.status = IF full THEN Closing(r) ELSE r.status,
                              !.qty = IF full THEN r.qty ELSE r.qty - q]
             columns == IF full THEN {"status"} ELSE {"qty"}
             t == Update(i, r, q, new, columns, 0, {})
  <1>1. /\ IsOpen(r) /\ q <= OpenQty(r) /\ Step(p, t)
        /\ UNCHANGED <<stored, kills, ghosts>>
    BY DEF Release
  <1>2. r \in Row /\ i \in 1..MaxRows /\ q \in Nat
    BY BoundsAssumption DEF IInv, TypeOK, Ids, Qtys
  <1>3. /\ new \in Row /\ new.qty = IF full THEN r.qty ELSE r.qty - q
        /\ new.status = IF full THEN Closing(r) ELSE r.status
    <2> DEFINE s == IF full THEN Closing(r) ELSE r.status
               k == IF full THEN r.qty ELSE r.qty - q
    <2>1. s \in Statuses /\ k \in Int
      BY <1>2 DEF Row, Closing, Statuses
    <2>2. new = [r EXCEPT !.status = s, !.qty = k]
      OBVIOUS
    <2> HIDE DEF r, s, k, new
    <2>3. new = [line |-> r.line, qty |-> k, done |-> r.done, status |-> s,
                 expires |-> r.expires, doc |-> r.doc]
      BY <1>2, <2>2 DEF Row
    <2>4. new \in Row /\ new.qty = k /\ new.status = s
      BY <1>2, <2>1, <2>3 DEF Row
    <2> QED
      BY <2>4 DEF k, s
  <1>4. columns \in SUBSET Columns
    BY DEF Columns
  <1>5. t \in UpdateTask
    <2> HIDE DEF new, columns, r
    <2> QED
      BY <1>2, <1>3, <1>4, UpdateTyped
  <1>6. /\ t.op = "update" /\ t.id = i /\ t.read = r /\ t.issued = 0 /\ t.rest = {} /\ t.saw = None
        /\ t.new = new /\ t.columns = columns /\ t.take = q
    BY DEF Update
  <1>7. /\ Written(r, t).done = r.done
        /\ Written(r, t).qty = IF full THEN r.qty ELSE r.qty - q
        /\ Written(r, t).status = IF full THEN Closing(r) ELSE r.status
    <2>1. "done" \notin columns /\ ("qty" \in columns <=> ~full) /\ ("status" \in columns <=> full)
      OBVIOUS
    <2> HIDE DEF t, new, columns, full, r
    <2> QED
      BY <1>3, <1>6, <2>1 DEF Written
  <1>8. r.done <= r.qty => Written(r, t).done <= Written(r, t).qty
    BY <1>1, <1>2, <1>7 DEF OpenQty, Row
  <1>9. r.done + 0 = r.done
    BY <1>2 DEF Row
  <1>12. OpenOf(Written(r, t)) = OpenOf(r) - Takes(t)
    <2>1. r.qty \in Int /\ r.done \in Int /\ OpenOf(r) = r.qty - r.done /\ Takes(t) = q
      BY <1>1, <1>2, <1>6 DEF OpenOf, OpenQty, Row, Takes
    <2>2. CASE full
      <3>1. OpenOf(Written(r, t)) = 0
        BY <1>7, <2>2 DEF OpenOf, IsOpen, OpenStatuses, Closing
      <3> QED
        BY <1>2, <2>1, <2>2, <3>1 DEF OpenQty
    <2>3. CASE ~full
      <3>1. OpenOf(Written(r, t)) = r.qty - q - r.done
        BY <1>1, <1>7, <2>3 DEF OpenOf, IsOpen, OpenQty
      <3> QED
        BY <1>2, <2>1, <3>1
    <2> QED
      BY <2>2, <2>3
  <1>10. Fits(t, Ids) /\ Covered(t, Stock)
    <2> HIDE DEF t, r
    <2> QED
      BY <1>1, <1>6, <1>7, <1>8, <1>9, <1>12 DEF Fits, Covered
  <1>11. t \in Task /\ kills' \in 0..MaxKills
    BY <1>1, <1>5 DEF Task, IInv, TypeOK
  <1> HIDE DEF t
  <1> QED
    BY <1>1, <1>6, <1>10, <1>11, TaskStep DEF Workers

LEMMA FulfilInv ==
    ASSUME IInv, NEW p \in Procs, NEW i \in Ids, NEW q \in Qtys,
           NEW closing \in BOOLEAN, NEW d \in Issues \cup {None}, Fulfil(p, i, q, closing, d)
    PROVE  IInv'
  <1> DEFINE r == rows[i]
             closes == closing \/ q = OpenQty(r)
             new == [r EXCEPT !.done = r.done + q, !.status = Standing(closes),
                              !.doc = IF d = None THEN r.doc ELSE d]
             columns == IF d = None THEN {"done", "status"} ELSE {"done", "status", "doc"}
             take == Taken(OpenQty(r), q, closes)
             t == Update(i, r, take, new, columns, q, {})
  <1>1. /\ IsOpen(r) /\ q <= OpenQty(r) /\ Step(p, t)
        /\ UNCHANGED <<stored, kills, ghosts>>
    BY DEF Fulfil
  <1>2. r \in Row /\ i \in 1..MaxRows /\ q \in Nat
    BY BoundsAssumption DEF IInv, TypeOK, Ids, Qtys
  <1>3. new \in Row /\ new.done = r.done + q /\ new.status = Standing(closes)
    <2> DEFINE s == Standing(closes)
               k == r.done + q
               o == IF d = None THEN r.doc ELSE d
    <2>1. s \in Statuses
      BY DEF Standing, Statuses, OpenStatuses
    <2>2. k \in Int /\ o \in Issues \cup {None}
      BY <1>2 DEF Row
    <2>3. new = [r EXCEPT !.done = k, !.status = s, !.doc = o]
      OBVIOUS
    <2> HIDE DEF r, s, k, o, new
    <2>4. new = [line |-> r.line, qty |-> r.qty, done |-> k, status |-> s,
                 expires |-> r.expires, doc |-> o]
      BY <1>2, <2>3 DEF Row
    <2>5. new \in Row /\ new.done = k /\ new.status = s
      BY <1>2, <2>1, <2>2, <2>4 DEF Row
    <2> QED
      BY <2>5 DEF k, s
  <1>4. columns \in SUBSET Columns /\ take \in Int
    BY <1>2 DEF Columns, Taken, OpenQty, Row
  <1>5. t \in UpdateTask
    <2> HIDE DEF new, columns, r, take
    <2> QED
      BY <1>2, <1>3, <1>4, UpdateTyped
  <1>6. /\ t.op = "update" /\ t.id = i /\ t.read = r /\ t.issued = q /\ t.rest = {} /\ t.saw = None
        /\ t.new = new /\ t.columns = columns /\ t.take = take
    BY DEF Update
  <1>7. /\ Written(r, t).done = r.done + q /\ Written(r, t).qty = r.qty
        /\ Written(r, t).status = Standing(closes)
    <2>1. "done" \in columns /\ "qty" \notin columns /\ "status" \in columns
      OBVIOUS
    <2> HIDE DEF t, new, columns, r
    <2> QED
      BY <1>3, <1>6, <2>1 DEF Written
  <1>8. Written(r, t).done <= Written(r, t).qty
    BY <1>1, <1>2, <1>7 DEF OpenQty, Row
  <1>11. OpenOf(Written(r, t)) = OpenOf(r) - Takes(t)
    <2>1. r.qty \in Int /\ r.done \in Int /\ OpenOf(r) = r.qty - r.done /\ q <= r.qty - r.done
      BY <1>1, <1>2 DEF OpenOf, OpenQty, Row
    <2>2. CASE closes
      <3>1. OpenOf(Written(r, t)) = 0 /\ take = r.qty - r.done
        BY <1>7, <2>2 DEF OpenOf, IsOpen, OpenStatuses, Standing, Taken, OpenQty
      <3> QED
        BY <1>2, <1>6, <2>1, <3>1 DEF Takes
    <2>3. CASE ~closes
      <3>1. OpenOf(Written(r, t)) = r.qty - (r.done + q) /\ take = q
        BY <1>7, <2>3 DEF OpenOf, IsOpen, OpenStatuses, Standing, Taken, OpenQty
      <3> QED
        BY <1>2, <1>6, <2>1, <3>1 DEF Takes
    <2> QED
      BY <2>2, <2>3
  <1>9. Fits(t, Ids) /\ Covered(t, Stock)
    <2> HIDE DEF t, r
    <2> QED
      BY <1>1, <1>6, <1>7, <1>8, <1>11 DEF Fits, Covered
  <1>10. t \in Task /\ kills' \in 0..MaxKills
    BY <1>1, <1>5 DEF Task, IInv, TypeOK
  <1> HIDE DEF t
  <1> QED
    BY <1>1, <1>6, <1>9, <1>10, TaskStep DEF Workers

LEMMA ExpireDueInv ==
    ASSUME IInv, ExpireDue
    PROVE  IInv'
  <1> DEFINE batch == {[id |-> i, row |-> rows[i]] : i \in Due}
  <1>1. /\ Ids \in SUBSET (1..MaxRows)
        /\ \A i \in Ids : rows[i] \in Row
    BY BoundsAssumption DEF IInv, TypeOK, Ids
  <1>2. Due \subseteq Ids /\ \A i \in Due : IsOpen(rows[i])
    BY DEF Due, IsDue
  <1>3. batch \in SUBSET [id : 1..MaxRows, row : Row]
    BY <1>1, <1>2
  <1>4. \A b \in batch : b.id \in Ids /\ IsOpen(b.row)
    BY <1>2
  <1>5. GoOn(Cron, batch) /\ UNCHANGED <<stored, kills, ghosts>>
    BY DEF ExpireDue
  <1> HIDE DEF batch
  <1>6. PICK t \in Task : Step(Cron, t) /\ Fits(t, Ids) /\ (\A c : Covered(t, c)) /\ t.op # "reserve"
    BY <1>1, <1>3, <1>4, <1>5, SweepTask DEF Workers
  <1>7. kills' \in 0..MaxKills
    BY <1>5 DEF IInv, TypeOK
  <1> QED
    BY <1>5, <1>6, <1>7, TaskStep DEF Workers

LEMMA DocumentTaskInv ==
    ASSUME IInv, NEW p \in Procs, NEW d \in Documents,
           PostDocument(p, d) \/ ReverseDocument(p, d)
    PROVE  IInv'
  <1>1. UNCHANGED <<stored, kills, ghosts>> /\ kills' \in 0..MaxKills
    BY DEF PostDocument, ReverseDocument, IInv, TypeOK
  <1>2. CASE PostDocument(p, d)
    <2> DEFINE t == [op |-> "post", doc |-> d, saw |-> None]
    <2>1. Step(p, t)
      BY <1>2 DEF PostDocument
    <2>2. t \in Task /\ Fits(t, Ids) /\ Covered(t, Stock) /\ t.op # "reserve"
      BY DEF Task, PostTask, Fits, Covered
    <2> HIDE DEF t
    <2> QED
      BY <1>1, <2>1, <2>2, TaskStep DEF Workers
  <1>3. CASE ReverseDocument(p, d)
    <2> DEFINE t == [op |-> "reverse", doc |-> d]
    <2>1. Step(p, t)
      BY <1>3 DEF ReverseDocument
    <2>2. t \in Task /\ Fits(t, Ids) /\ Covered(t, Stock) /\ t.op # "reserve"
      BY DEF Task, StatusTask, Fits, Covered
    <2> HIDE DEF t
    <2> QED
      BY <1>1, <2>1, <2>2, TaskStep DEF Workers
  <1> QED
    BY <1>2, <1>3

LEMMA KillInv ==
    ASSUME IInv, NEW p \in Workers, Kill(p)
    PROVE  IInv'
  <1>1. kills' \in 0..MaxKills
    BY ProcsAssumption, BoundsAssumption DEF Kill, IInv, TypeOK
  <1>2. Step(p, Idle) /\ UNCHANGED <<stored, ghosts>>
    BY DEF Kill
  <1> QED
    BY <1>1, <1>2, IdleFits, TaskStep

\* A post that is refused goes on to the catch block.
LEMMA FailTaskInv ==
    ASSUME IInv, NEW p \in Workers, task[p].op = "post", Step(p, [op |-> "fail", doc |-> task[p].doc]),
           UNCHANGED <<stored, kills, ghosts>>
    PROVE  IInv'
  <1> DEFINE t == [op |-> "fail", doc |-> task[p].doc]
  <1>1. task[p].doc \in Documents /\ kills' \in 0..MaxKills
    BY TaskKinds DEF IInv, TypeOK, Workers, PostTask
  <1>2. t \in Task /\ Fits(t, Ids) /\ Covered(t, Stock) /\ t.op # "reserve"
    BY <1>1 DEF Task, StatusTask, Fits, Covered
  <1>3. Step(p, t)
    OBVIOUS
  <1> HIDE DEF t
  <1> QED
    BY <1>1, <1>2, <1>3, TaskStep

\* What the check saw covers the task from then on.
LEMMA CheckInv ==
    ASSUME IInv, NEW p \in Workers, Check(p)
    PROVE  IInv'
  <1>1. UNCHANGED <<stored, kills, ghosts>> /\ kills' \in 0..MaxKills
    BY DEF Check, IInv, TypeOK
  <1>2. CASE Step(p, Idle)
    BY <1>1, <1>2, IdleFits, TaskStep
  <1>3. CASE task[p].op = "post" /\ Step(p, [op |-> "fail", doc |-> task[p].doc])
    BY <1>1, <1>3, FailTaskInv
  <1>4. CASE (Suffices(task[p]) \/ MayOverdraw(task[p])) /\ Step(p, [task[p] EXCEPT !.saw = bucket])
    <2> DEFINE old == task[p]
               t == [old EXCEPT !.saw = bucket]
    <2>1. Step(p, t) /\ old.op \in {"reserve", "update", "post"}
      BY <1>4 DEF Check
    <2>7. onhand \in Int /\ Stock \in Int /\ onhand <= Stock
      BY SoldIsThat DEF IInv, SoldFits
    <2>2. old \in Task /\ bucket \in Int /\ Fits(old, Ids)
      BY DEF IInv, TypeOK, Workers, TasksFit
    <2>3. \/ old \in ReserveTask /\ old.op = "reserve"
          \/ old \in UpdateTask /\ old.op = "update"
          \/ old \in PostTask /\ old.op = "post"
      BY <2>1, <2>2, TaskKinds
    <2> HIDE DEF old
    <2>4. CASE old \in ReserveTask /\ old.op = "reserve"
      <3>1. t \in ReserveTask /\ t.op = "reserve" /\ t.row = old.row /\ t.saw = bucket
        BY <2>2, <2>4 DEF ReserveTask
      <3>2. bucket + old.row.qty <= onhand
        BY <1>4, <2>4 DEF Suffices, MayOverdraw, old
      <3> HIDE DEF t
      <3>4. bucket + old.row.qty <= Stock
        BY <2>2, <2>4, <2>7, <3>2 DEF ReserveTask, Row
      <3>3. Fits(t, Ids) /\ Covered(t, Stock) /\ t \in Task
        BY <2>2, <2>4, <3>1, <3>4 DEF Fits, Covered, Task
      <3> QED
        BY <1>1, <2>1, <2>4, <3>1, <3>3, TaskStep DEF old
    <2>5. CASE old \in UpdateTask /\ old.op = "update"
      <3>1. /\ t \in UpdateTask /\ t.op = "update" /\ t.saw = bucket
            /\ t.id = old.id /\ t.read = old.read /\ t.issued = old.issued /\ t.rest = old.rest
            /\ t.new = old.new /\ t.columns = old.columns /\ t.take = old.take
        BY <2>2, <2>5 DEF UpdateTask
      <3>2. old.take > 0 => bucket >= old.take
        BY <1>4, <2>5 DEF Suffices, MayOverdraw, old
      <3> HIDE DEF t
      <3>3. Written(t.read, t) = Written(old.read, old)
        BY <3>1 DEF Written
      <3>4. Fits(t, Ids) /\ Covered(t, Stock) /\ t \in Task
        BY <2>2, <2>5, <3>1, <3>2, <3>3 DEF Fits, Covered, Task, Takes
      <3> QED
        BY <1>1, <2>1, <3>1, <3>4, TaskStep
    <2>6. CASE old \in PostTask /\ old.op = "post"
      <3>1. t \in PostTask /\ t.op = "post" /\ t.saw = bucket /\ t.doc = old.doc
        BY <2>2, <2>6 DEF PostTask
      <3>2. /\ old.doc \in Holds => bucket + 1 <= onhand
            /\ old.doc \in Frees => bucket >= 1
        BY <1>4, <2>6, DocumentsAssumption DEF Suffices, MayOverdraw, old
      <3> HIDE DEF t
      <3>4. old.doc \in Holds => bucket + 1 <= Stock
        BY <2>2, <2>7, <3>2
      <3>3. Fits(t, Ids) /\ Covered(t, Stock) /\ t \in Task
        BY <2>2, <2>6, <3>1, <3>2, <3>4 DEF Fits, Covered, Task
      <3> QED
        BY <1>1, <2>1, <3>1, <3>3, TaskStep
    <2> QED
      BY <2>3, <2>4, <2>5, <2>6
  <1> QED
    BY <1>2, <1>3, <1>4 DEF Check

-----------------------------------------------------------------------------
(* The steps that write.                                                   *)
LEMMA RowsTyped ==
    ASSUME TypeOK
    PROVE  /\ Ids = 1..Len(rows) /\ Len(rows) \in 0..MaxRows
           /\ \A i \in Ids : rows[i] \in Row
  BY BoundsAssumption DEF TypeOK, Ids

\* Unless another request is about to reserve for the line (raced), nobody has
\* an open reservation for it or is about to add one.
LEMMA CreateInv ==
    ASSUME IInv, NEW p \in Procs, NEW line \in Lines \cup {None}, NEW q \in Qtys,
           NEW e \in BOOLEAN, NEW d \in Issues \cup {None}, Create(p, line, q, e, d)
    PROVE  IInv'
  <1> DEFINE r == [line |-> line, qty |-> q, done |-> 0, status |-> "active",
                   expires |-> e, doc |-> d]
             t == [op |-> "reserve", saw |-> None, row |-> r]
  <1>1. /\ Step(p, t) /\ ~Duplicate(line)
        /\ raced' = (raced \/ \E o \in Procs : /\ task[o].op = "reserve" /\ line # None
                                               /\ task[o].row.line = line)
        /\ UNCHANGED <<stored, kills, told, crossed, strayed, lost>>
    BY DEF Create
  <1>2. r \in Row /\ r.line = line /\ r.done = 0 /\ r.qty \in Nat /\ r.status = "active"
    BY BoundsAssumption DEF Row, Statuses, OpenStatuses, Qtys
  <1> HIDE DEF r
  <1>3. t \in Task /\ t.op = "reserve" /\ t.row = r /\ t.saw = None
    BY <1>2 DEF Task, ReserveTask
  <1> HIDE DEF t
  <1>4. \A o \in Workers : task'[o] = IF o = p THEN t ELSE task[o]
    BY <1>1 DEF IInv, TypeOK, Step, Workers
  <1>5. rows' = rows /\ bucket' = bucket /\ status' = status /\ Ids' = Ids
    BY <1>1 DEF stored, Ids
  <1>6. TypeOK'
    <2>1. task' \in [Workers -> Task]
      BY <1>1, <1>3 DEF IInv, TypeOK, Step, Workers
    <2>2. raced' \in BOOLEAN
      BY <1>1 DEF IInv, TypeOK
    <2> QED
      BY <1>1, <2>1, <2>2 DEF IInv, TypeOK, stored, Workers, Documents
  <1>7. TasksFit'
    <2>1. Fits(t, Ids) /\ Covered(t, Stock)
      BY <1>2, <1>3 DEF Fits, Covered
    <2>2. \A o \in Workers : Fits(task'[o], Ids) /\ (~lost => Covered(task'[o], Stock))
      BY <1>4, <2>1 DEF IInv, TasksFit
    <2>3. Stock' = Stock /\ lost' = lost
      BY <1>1, StockUnmoved DEF stored
    <2> QED
      BY <1>5, <2>2, <2>3 DEF TasksFit, Fits, Covered, Written, IsOpen
  <1>8. Counted'
    BY <1>1, <1>5 DEF IInv, Counted
  <1>9. OncePerLine'
    <2> SUFFICES ASSUME ~raced', ~lost', NEW l \in Lines
                 PROVE  /\ \A i, j \in Ids : OpenFor(i, l)' /\ OpenFor(j, l)' => i = j
                        /\ \A o \in Procs, i \in Ids : ~(Reserving(o, l)' /\ OpenFor(i, l)')
                        /\ \A o, w \in Procs : Reserving(o, l)' /\ Reserving(w, l)' => o = w
      BY <1>5 DEF OncePerLine
    <2>1. ~raced /\ ~lost /\ \A o \in Procs : ~Reserving(o, line)
      BY <1>1 DEF Reserving
    <2>2. \A i \in Ids : ~OpenFor(i, line)
      BY <1>1 DEF Duplicate, OpenFor
    <2>3. \A i \in Ids : OpenFor(i, l)' <=> OpenFor(i, l)
      BY <1>5 DEF OpenFor, IsOpen
    <2>4. \A o \in Procs : Reserving(o, l)' => (o = p /\ l = line) \/ (o # p /\ Reserving(o, l))
      BY <1>2, <1>3, <1>4 DEF Reserving, Workers
    <2> QED
      BY <2>1, <2>2, <2>3, <2>4 DEF IInv, OncePerLine
  <1>10. ShortOnlyBySales' /\ MovesFit'
    BY <1>1, <1>5, StockUnmoved DEF IInv, ShortOnlyBySales, MovesFit, Stock, stored
  <1>11. BucketIsReserved'
    BY <1>1, <1>5, BucketUnmoved DEF IInv
  <1> QED
    BY <1>6, <1>7, <1>8, <1>9, <1>10, <1>11 DEF IInv

\* A journal keeps its type.
LEMMA JournalTyped ==
    ASSUME TypeOK, NEW d \in Documents \cup {None}, NEW n \in Int
    PROVE  Journaled(d, n) \in [Documents -> Int]
  BY DEF TypeOK, Journaled

LEMMA InsertInv ==
    ASSUME IInv, NEW p \in Procs, Insert(p)
    PROVE  IInv'
  <1> DEFINE t == task[p]
             r == t.row
  <1>1. /\ t.op = "reserve" /\ t.saw # None /\ Len(rows) < MaxRows
        /\ rows' = Append(rows, r) /\ bucket' = bucket + r.qty
        /\ journal' = Journaled(r.doc, r.qty)
        /\ crossed' = (crossed \/ bucket # t.saw)
        /\ Step(p, Idle)
        /\ UNCHANGED <<lapsed, onhand, status, moves, kills, told, raced, strayed, lost>>
    BY DEF Insert
  <1>2. t \in Task /\ Fits(t, Ids) /\ (~lost => Covered(t, Stock))
    BY DEF IInv, TypeOK, TasksFit, Workers
  <1> HIDE DEF t
  <1>3. r \in Row /\ r.done = 0 /\ r.qty \in Nat /\ t.saw \in Int
    BY <1>1, <1>2, TaskKinds DEF ReserveTask, Fits
  <1>4. /\ Ids = 1..Len(rows) /\ Len(rows) \in Nat /\ Len(rows') = Len(rows) + 1
        /\ Ids' = 1..(Len(rows) + 1) /\ Ids \subseteq Ids'
        /\ rows'[Len(rows) + 1] = r /\ \A i \in Ids : rows'[i] = rows[i]
    BY <1>1, <1>3, RowsTyped DEF IInv, TypeOK, Ids
  <1>5. \A o \in Workers : task'[o] = IF o = p THEN Idle ELSE task[o]
    BY <1>1 DEF IInv, TypeOK, Step, Workers
  <1>12. Stock' = Stock /\ Stock \in Int
    BY <1>1, StockUnmoved, SoldIsThat DEF IInv, SoldFits
  <1>13. MovesFit'
    BY <1>1 DEF IInv, MovesFit
  <1>6. TypeOK'
    <2>1. rows' \in Seq(Row) /\ Len(rows') <= MaxRows /\ lapsed' \subseteq 1..Len(rows')
      BY <1>1, <1>3, <1>4, BoundsAssumption DEF IInv, TypeOK
    <2>2. bucket' \in Int /\ crossed' \in BOOLEAN
      BY <1>1, <1>3 DEF IInv, TypeOK
    <2>3. journal' \in [Documents -> Int]
      <3>1. r.doc \in Documents \cup {None} /\ r.qty \in Int
        BY <1>3 DEF Row, Documents
      <3> QED
        BY <1>1, <3>1, JournalTyped DEF IInv
    <2>4. task' \in [Workers -> Task]
      BY <1>1, IdleFits DEF IInv, TypeOK, Step, Workers
    <2> QED
      BY <1>1, <2>1, <2>2, <2>3, <2>4 DEF IInv, TypeOK, Workers, Documents
  <1>7. TasksFit'
    <2>1. \A o \in Workers : Fits(task'[o], Ids') /\ (~lost => Covered(task'[o], Stock))
      BY <1>4, <1>5, IdleFits DEF IInv, TasksFit, Fits, Idle
    <2> QED
      BY <1>1, <1>12, <2>1 DEF TasksFit, Fits, Covered, Written, IsOpen
  <1>8. Counted'
    <2> SUFFICES ASSUME ~lost'
                 PROVE  /\ \A i \in Ids' : rows'[i].done = told'[i] /\ rows'[i].done <= rows'[i].qty
                        /\ \A i \in 1..MaxRows : i \notin Ids' => told'[i] = 0
      BY DEF Counted
    <2>1. told' = told /\ Counted /\ ~lost
      BY <1>1 DEF IInv
    <2>2. Len(rows) + 1 \in 1..MaxRows /\ Len(rows) + 1 \notin Ids
      BY <1>1, <1>4, BoundsAssumption
    <2>3. told[Len(rows) + 1] = 0
      BY <2>1, <2>2 DEF Counted
    <2>4. \A i \in Ids' : i \in Ids \/ i = Len(rows) + 1
      BY <1>4
    <2> QED
      BY <1>3, <1>4, <2>1, <2>3, <2>4 DEF Counted
  <1>9. OncePerLine'
    <2> SUFFICES ASSUME ~raced', ~lost', NEW l \in Lines
                 PROVE  /\ \A i, j \in Ids' : OpenFor(i, l)' /\ OpenFor(j, l)' => i = j
                        /\ \A o \in Procs, i \in Ids' : ~(Reserving(o, l)' /\ OpenFor(i, l)')
                        /\ \A o, w \in Procs : Reserving(o, l)' /\ Reserving(w, l)' => o = w
      BY DEF OncePerLine
    <2>1. ~raced /\ ~lost
      BY <1>1
    <2>2. \A i \in Ids' : OpenFor(i, l)' => (i \in Ids /\ OpenFor(i, l)) \/ (i = Len(rows) + 1 /\ Reserving(p, l))
      BY <1>1, <1>4 DEF OpenFor, Reserving, IsOpen, t
    <2>3. \A o \in Procs : Reserving(o, l)' => o # p /\ Reserving(o, l)
      BY <1>5 DEF Reserving, Workers, Idle
    <2> QED
      BY <2>1, <2>2, <2>3 DEF IInv, OncePerLine
  <1>10. ShortOnlyBySales'
    <2> SUFFICES ASSUME ~crossed', ~lost', ~strayed',
                        \A x \in Holds \cup Frees : status'[x] # "REVERSED"
                 PROVE  bucket' \in 0..Stock'
      BY DEF ShortOnlyBySales, Stock
    <2>1. bucket \in 0..Stock /\ bucket = t.saw
      BY <1>1 DEF IInv, ShortOnlyBySales, Stock
    <2>2. t.saw + r.qty <= Stock
      BY <1>1, <1>2 DEF Covered
    <2> QED
      BY <1>1, <1>3, <1>12, <2>1, <2>2
  <1>11. BucketIsReserved'
    <2>1. Reserved' = Reserved + OpenOf(r) /\ Reserved \in Int /\ Held \in Int
      BY <1>1, <1>3, <1>6, RowJoins, Summed DEF IInv
    <2>2. Held' = Held
      BY <1>1 DEF Held, PostedEffect
    <2>3. OpenOf(r) = r.qty
      BY <1>1, <1>2, <1>3 DEF Fits, OpenOf, IsOpen, OpenStatuses, OpenQty
    <2> QED
      BY <1>1, <1>3, <2>1, <2>2, <2>3 DEF IInv, BucketIsReserved
  <1> QED
    BY <1>6, <1>7, <1>8, <1>9, <1>10, <1>11, <1>13 DEF IInv

\* The write keeps a row consistent, and closes it or leaves it open, as long
\* as the row still is what the task was decided on.
LEMMA ApplyReleaseInv ==
    ASSUME IInv, NEW p \in Workers, ApplyRelease(p)
    PROVE  IInv'
  <1> DEFINE t == task[p]
             n == IF t.take > 0 THEN t.take ELSE 0
             w == Written(rows[t.id], t)
  <1>1. /\ t.op = "update" /\ t.saw # None
        /\ lost' = (lost \/ rows[t.id] # t.read)
        /\ rows' = [rows EXCEPT ![t.id] = w]
        /\ bucket' = bucket - n
        /\ journal' = Journaled(t.read.doc, -n)
        /\ told' = [told EXCEPT ![t.id] = @ + t.issued]
        /\ crossed' = (crossed \/ (n > 0 /\ bucket # t.saw))
        /\ GoOn(p, t.rest)
        /\ UNCHANGED <<lapsed, onhand, status, moves, kills, raced, strayed>>
    BY DEF ApplyRelease
  <1>2. t \in Task /\ Fits(t, Ids) /\ (~lost => Covered(t, Stock))
    BY DEF IInv, TypeOK, TasksFit, Workers
  <1>17. Stock' = Stock /\ Stock \in Int
    BY <1>1, StockUnmoved, SoldIsThat DEF IInv, SoldFits
  <1>18. MovesFit'
    BY <1>1 DEF IInv, MovesFit
  <1>3. /\ Ids = 1..Len(rows) /\ Len(rows) \in 0..MaxRows /\ Ids \in SUBSET (1..MaxRows)
        /\ \A i \in Ids : rows[i] \in Row
    BY RowsTyped, BoundsAssumption DEF IInv
  <1> HIDE DEF t
  <1>4. /\ t.id \in Ids /\ IsOpen(t.read) /\ t.read \in Row /\ t.issued \in Nat /\ t.take \in Int
        /\ t.saw \in Int
        /\ t.rest \in SUBSET [id : 1..MaxRows, row : Row]
        /\ \A b \in t.rest : b.id \in Ids /\ IsOpen(b.row)
        /\ Written(t.read, t).done = t.read.done + t.issued
        /\ t.read.done <= t.read.qty => Written(t.read, t).done <= Written(t.read, t).qty
    BY <1>1, <1>2, TaskKinds DEF UpdateTask, Fits
  <1>16. t.read.done <= t.read.qty => OpenOf(Written(t.read, t)) = OpenOf(t.read) - n
    BY <1>1, <1>2 DEF Fits, Takes
  <1>5. w \in Row /\ w.line = rows[t.id].line
    <2>1. w \in Row
      BY <1>1, <1>2, <1>3, <1>4, TaskKinds, WrittenTyped
    <2> QED
      BY <2>1 DEF Written
  <1> HIDE DEF w
  <1>6. /\ rows' \in Seq(Row) /\ Len(rows') = Len(rows) /\ Ids' = Ids
        /\ \A i \in Ids : rows'[i] = IF i = t.id THEN w ELSE rows[i]
    BY <1>1, <1>3, <1>4, <1>5 DEF IInv, TypeOK, Ids
  <1>7. PICK s \in Task : Step(p, s) /\ Fits(s, Ids) /\ (\A c : Covered(s, c)) /\ s.op # "reserve"
    BY <1>1, <1>3, <1>4, SweepTask
  <1>8. \A o \in Workers : task'[o] = IF o = p THEN s ELSE task[o]
    BY <1>7 DEF IInv, TypeOK, Step, Workers
  <1>9. n \in Nat
    BY <1>4
  <1> HIDE DEF n
  <1>10. TypeOK'
    <2>1. bucket' \in Int /\ crossed' \in BOOLEAN /\ lost' \in BOOLEAN
      BY <1>1, <1>9 DEF IInv, TypeOK
    <2>2. journal' \in [Documents -> Int]
      <3>1. t.read.doc \in Documents \cup {None} /\ -n \in Int
        BY <1>4, <1>9 DEF Row, Documents
      <3> QED
        BY <1>1, <3>1, JournalTyped DEF IInv
    <2>3. task' \in [Workers -> Task]
      BY <1>7 DEF IInv, TypeOK, Step, Workers
    <2>4. told' \in [1..MaxRows -> Nat]
      BY <1>1, <1>3, <1>4 DEF IInv, TypeOK
    <2>5. Len(rows') <= MaxRows /\ lapsed' \subseteq 1..Len(rows')
      BY <1>1, <1>6 DEF IInv, TypeOK
    <2> QED
      BY <1>1, <1>6, <2>1, <2>2, <2>3, <2>4, <2>5 DEF IInv, TypeOK, Workers, Documents
  <1>11. TasksFit'
    <2>1. \A o \in Workers : Fits(task'[o], Ids) /\ (~lost => Covered(task'[o], Stock))
      BY <1>7, <1>8 DEF IInv, TasksFit
    <2> QED
      BY <1>1, <1>6, <1>17, <2>1 DEF TasksFit, Fits, Covered, Written, IsOpen
  <1>12. Counted'
    <2> SUFFICES ASSUME ~lost'
                 PROVE  /\ \A i \in Ids : rows'[i].done = told'[i] /\ rows'[i].done <= rows'[i].qty
                        /\ \A i \in 1..MaxRows : i \notin Ids => told'[i] = 0
      BY <1>6 DEF Counted
    <2>1. rows[t.id] = t.read /\ Counted /\ ~lost
      BY <1>1 DEF IInv
    <2>2. \A i \in 1..MaxRows : told'[i] = IF i = t.id THEN told[i] + t.issued ELSE told[i]
      BY <1>1 DEF IInv, TypeOK
    <2>3. w.done = told[t.id] + t.issued /\ w.done <= w.qty
      BY <1>4, <2>1 DEF Counted, w
    <2> QED
      BY <1>3, <1>4, <1>6, <2>1, <2>2, <2>3 DEF Counted
  <1>13. OncePerLine'
    <2> SUFFICES ASSUME ~raced', ~lost', NEW l \in Lines
                 PROVE  /\ \A i, j \in Ids : OpenFor(i, l)' /\ OpenFor(j, l)' => i = j
                        /\ \A o \in Procs, i \in Ids : ~(Reserving(o, l)' /\ OpenFor(i, l)')
                        /\ \A o, v \in Procs : Reserving(o, l)' /\ Reserving(v, l)' => o = v
      BY <1>6 DEF OncePerLine
    <2>1. ~raced /\ ~lost /\ rows[t.id] = t.read
      BY <1>1
    <2>2. \A i \in Ids : OpenFor(i, l)' => OpenFor(i, l)
      BY <1>4, <1>5, <1>6, <2>1 DEF OpenFor, IsOpen
    <2>3. \A o \in Procs : Reserving(o, l)' => Reserving(o, l)
      BY <1>7, <1>8 DEF Reserving, Workers
    <2> QED
      BY <2>1, <2>2, <2>3 DEF IInv, OncePerLine
  <1>14. ShortOnlyBySales'
    <2> SUFFICES ASSUME ~crossed', ~lost', ~strayed',
                        \A x \in Holds \cup Frees : status'[x] # "REVERSED"
                 PROVE  bucket' \in 0..Stock'
      BY DEF ShortOnlyBySales, Stock
    <2>1. bucket \in 0..Stock
      BY <1>1 DEF IInv, ShortOnlyBySales, Stock
    <2>2. n > 0 => bucket = t.saw
      BY <1>1
    <2>3. n > 0 => t.take > 0 /\ n = t.take
      BY <1>4 DEF n
    <2>4. t.take > 0 => t.saw >= t.take
      BY <1>1, <1>2 DEF Covered
    <2> QED
      BY <1>1, <1>4, <1>9, <1>17, <2>1, <2>2, <2>3, <2>4
  <1>15. BucketIsReserved'
    <2> SUFFICES ASSUME ~lost', ~strayed'
                 PROVE  bucket' = Reserved' + Held'
      BY DEF BucketIsReserved
    <2>1. rows[t.id] = t.read /\ ~lost /\ ~strayed /\ bucket = Reserved + Held
      BY <1>1 DEF IInv, BucketIsReserved
    <2>2. t.read.done <= t.read.qty
      BY <1>4, <2>1 DEF IInv, Counted
    <2>3. OpenOf(w) = OpenOf(rows[t.id]) - n
      BY <1>16, <2>1, <2>2 DEF w
    <2>4. Reserved' = Reserved - OpenOf(rows[t.id]) + OpenOf(w) /\ Reserved \in Int /\ Held \in Int
      BY <1>1, <1>4, <1>10, RowChanges, Summed DEF IInv
    <2>5. Held' = Held
      BY <1>1 DEF Held, PostedEffect
    <2>6. OpenOf(rows[t.id]) \in Int
      BY <1>3, <1>4 DEF OpenOf, OpenQty, Row
    <2> QED
      BY <1>1, <1>9, <2>1, <2>3, <2>4, <2>5, <2>6
  <1> QED
    BY <1>10, <1>11, <1>12, <1>13, <1>14, <1>15, <1>18 DEF IInv

\* A document's commit touches no reservation, and leaves its process idle.
LEMMA WritesNoRow ==
    ASSUME IInv, NEW p \in Workers, Step(p, Idle),
           UNCHANGED <<rows, told, raced>>, ~lost' => ~lost /\ Stock' = Stock,
           TypeOK', MovesFit', ShortOnlyBySales', BucketIsReserved'
    PROVE  IInv'
  <1>1. \A o \in Workers : task'[o] = IF o = p THEN Idle ELSE task[o]
    BY DEF IInv, TypeOK, Step, Workers
  <1>2. Ids' = Ids
    BY DEF Ids
  <1>3. TasksFit'
    <2>1. \A o \in Workers : Fits(task'[o], Ids) /\ (~lost => Covered(task'[o], Stock))
      BY <1>1, IdleFits DEF IInv, TasksFit
    <2> QED
      BY <1>2, <2>1 DEF TasksFit, Fits, Covered, Written, IsOpen
  <1>4. Counted'
    BY <1>2 DEF IInv, Counted
  <1>5. OncePerLine'
    <2>1. \A o \in Procs, l \in Lines : Reserving(o, l)' => Reserving(o, l)
      BY <1>1 DEF Reserving, Workers, Idle
    <2>2. \A i \in Ids, l \in Lines : OpenFor(i, l)' <=> OpenFor(i, l)
      BY DEF OpenFor, IsOpen
    <2> QED
      BY <1>2, <2>1, <2>2 DEF IInv, OncePerLine
  <1> QED
    BY <1>3, <1>4, <1>5 DEF IInv

LEMMA CommitPostInv ==
    ASSUME IInv, NEW p \in Procs, CommitPost(p)
    PROVE  IInv'
  <1> DEFINE t == task[p]
             d == t.doc
  <1>1. /\ t.op = "post" /\ t.saw # None
        /\ lost' = (lost \/ status[d] \notin Postable)
        /\ status' = [status EXCEPT ![d] = "POSTED"]
        /\ bucket' = bucket + Effect(d)
        /\ journal' = Journaled(d, Effect(d))
        /\ onhand' = onhand - Issued(d)
        /\ moves' = [moves EXCEPT ![d] = @ \cup Moving(d)]
        /\ crossed' = (crossed \/ (Effect(d) # 0 /\ bucket # t.saw))
        /\ Step(p, Idle)
        /\ UNCHANGED <<rows, lapsed, kills, told, raced, strayed>>
    BY DEF CommitPost
  <1>2. t \in Task /\ (~lost => Covered(t, Stock))
    BY DEF IInv, TypeOK, TasksFit, Workers
  <1> HIDE DEF t
  <1>3. d \in Documents /\ t.saw \in Int
    BY <1>1, <1>2, TaskKinds DEF PostTask
  <1>4. Effect(d) \in Int /\ Issued(d) \in Int
    BY DEF Effect, Issued
  <1>5. ~lost' => ~lost /\ status[d] \in Postable
    BY <1>1
  <1>6. TypeOK'
    <2>1. bucket' \in Int /\ onhand' \in Int /\ crossed' \in BOOLEAN /\ lost' \in BOOLEAN
      BY <1>1, <1>4 DEF IInv, TypeOK
    <2>5. moves' \in [Documents -> SUBSET {"physical", "reversal"}]
      BY <1>1, <1>3 DEF IInv, TypeOK, Moving
    <2>2. journal' \in [Documents -> Int]
      BY <1>1, <1>3, <1>4, JournalTyped DEF IInv
    <2>3. task' \in [Workers -> Task]
      BY <1>1, IdleFits DEF IInv, TypeOK, Step, Workers
    <2>4. status' \in [Documents -> DocumentStatus]
      BY <1>1 DEF IInv, TypeOK, DocumentStatus
    <2> QED
      BY <1>1, <2>1, <2>2, <2>3, <2>4, <2>5 DEF IInv, TypeOK, Workers, Documents
  <1>9. status'[d] = "POSTED" /\ \A x \in Documents \ {d} : status'[x] = status[x]
    BY <1>1, <1>3 DEF IInv, TypeOK
  <1>10. ~lost' => Stock' = Stock
    <2> SUFFICES ASSUME ~lost' PROVE Stock' = Stock
      OBVIOUS
    <2>1. PostedIssue(d) = 0
      BY <1>5 DEF PostedIssue, Postable
    <2>2. onhand' = onhand + PostedIssue(d) - IF "POSTED" = "POSTED" THEN Issued(d) ELSE 0
      BY <1>1, <1>4, <2>1 DEF IInv, TypeOK
    <2> QED
      BY <1>1, <1>3, <1>6, <2>2, StockKept DEF IInv
  <1>11. MovesFit'
    <2> SUFFICES ASSUME ~lost', NEW x \in Documents
                 PROVE  "physical" \in moves'[x] <=> x \in Issues /\ status'[x] \notin Postable
      BY DEF MovesFit, Documents
    <2>1. "physical" \in moves[x] <=> x \in Issues /\ status[x] \notin Postable
      BY <1>5 DEF IInv, MovesFit
    <2>2. moves'[x] = IF x = d THEN moves[x] \cup Moving(d) ELSE moves[x]
      BY <1>1 DEF IInv, TypeOK
    <2> QED
      BY <1>5, <1>9, <2>1, <2>2 DEF Postable, Moving
  <1>7. ShortOnlyBySales'
    <2> SUFFICES ASSUME ~crossed', ~lost', ~strayed',
                        \A x \in Holds \cup Frees : status'[x] # "REVERSED"
                 PROVE  bucket' \in 0..Stock'
      BY DEF ShortOnlyBySales, Stock
    <2>1. \A x \in Holds \cup Frees : status[x] # "REVERSED"
      BY <1>5, <1>9 DEF Postable, Documents
    <2>2. ~crossed /\ ~strayed
      BY <1>1
    <2>3. bucket \in 0..Stock /\ Stock' = Stock /\ Stock \in Int
      BY <1>5, <1>10, <2>1, <2>2, SoldIsThat DEF IInv, ShortOnlyBySales, Stock, SoldFits
    <2>4. Effect(d) # 0 => bucket = t.saw
      BY <1>1
    <2>5. /\ d \in Holds => t.saw + 1 <= Stock
          /\ d \in Frees => t.saw >= 1
      BY <1>1, <1>2, <1>5 DEF Covered
    <2> QED
      BY <1>1, <2>3, <2>4, <2>5 DEF Effect
  <1>8. BucketIsReserved'
    <2> SUFFICES ASSUME ~lost', ~strayed'
                 PROVE  bucket' = Reserved' + Held'
      BY DEF BucketIsReserved
    <2>1. status[d] \in Postable /\ bucket = Reserved + Held
      BY <1>1, <1>5 DEF IInv, BucketIsReserved
    <2>2. Held' = Held - PostedEffect(d) + Effect(d) /\ Reserved \in Int /\ Held \in Int
      BY <1>1, <1>3, <1>6, StatusChanges, Summed DEF IInv
    <2>3. PostedEffect(d) = 0
      BY <2>1 DEF PostedEffect, Postable
    <2>4. Reserved' = Reserved
      BY <1>1 DEF Reserved, Ids
    <2> QED
      BY <1>1, <1>4, <2>1, <2>2, <2>3, <2>4
  <1> QED
    BY <1>1, <1>5, <1>6, <1>7, <1>8, <1>10, <1>11, WritesNoRow DEF Workers

LEMMA MarkFailedInv ==
    ASSUME IInv, NEW p \in Procs, MarkFailed(p)
    PROVE  IInv'
  <1> DEFINE t == task[p]
             d == t.doc
  <1>1. /\ t.op = "fail"
        /\ lost' = (lost \/ status[d] \notin Postable)
        /\ status' = [status EXCEPT ![d] = "FAILED"]
        /\ Step(p, Idle)
        /\ UNCHANGED <<rows, lapsed, onhand, bucket, journal, moves, kills, told, raced, crossed, strayed>>
    BY DEF MarkFailed
  <1>2. t \in Task
    BY DEF IInv, TypeOK, Workers
  <1> HIDE DEF t
  <1>3. d \in Documents
    BY <1>1, <1>2, TaskKinds DEF StatusTask
  <1>4. ~lost' => ~lost /\ status[d] \in Postable
    BY <1>1
  <1>5. TypeOK'
    <2>1. task' \in [Workers -> Task] /\ lost' \in BOOLEAN
      BY <1>1, IdleFits DEF IInv, TypeOK, Step, Workers
    <2>2. status' \in [Documents -> DocumentStatus]
      BY <1>1 DEF IInv, TypeOK, DocumentStatus
    <2> QED
      BY <1>1, <2>1, <2>2 DEF IInv, TypeOK, Workers, Documents
  <1>6. status'[d] = "FAILED" /\ \A x \in Documents \ {d} : status'[x] = status[x]
    BY <1>1, <1>3 DEF IInv, TypeOK
  <1>7. "FAILED" # "POSTED"
    OBVIOUS
  <1>8. ~lost' => Stock' = Stock
    <2> SUFFICES ASSUME ~lost' PROVE Stock' = Stock
      OBVIOUS
    <2>1. PostedIssue(d) = 0
      BY <1>4 DEF PostedIssue, Postable
    <2>2. onhand' = onhand + PostedIssue(d) - IF "FAILED" = "POSTED" THEN Issued(d) ELSE 0
      BY <1>1, <1>7, <2>1 DEF IInv, TypeOK
    <2> QED
      BY <1>1, <1>3, <1>5, <2>2, StockKept DEF IInv
  <1>9. MovesFit'
    BY <1>1, <1>4, <1>6 DEF IInv, MovesFit, Postable, Documents
  <1>10. ShortOnlyBySales'
    <2> SUFFICES ASSUME ~crossed', ~lost', ~strayed',
                        \A x \in Holds \cup Frees : status'[x] # "REVERSED"
                 PROVE  bucket' \in 0..Stock'
      BY DEF ShortOnlyBySales, Stock
    <2>1. \A x \in Holds \cup Frees : status[x] # "REVERSED"
      BY <1>4, <1>6 DEF Postable, Documents
    <2> QED
      BY <1>1, <1>8, <2>1 DEF IInv, ShortOnlyBySales, Stock
  <1>11. BucketIsReserved'
    <2> SUFFICES ASSUME ~lost', ~strayed'
                 PROVE  bucket' = Reserved' + Held'
      BY DEF BucketIsReserved
    <2>1. status[d] \in Postable /\ bucket = Reserved + Held
      BY <1>1, <1>4 DEF IInv, BucketIsReserved
    <2>2. Held' = Held - PostedEffect(d) + 0 /\ Held \in Int
      BY <1>1, <1>3, <1>5, <1>7, StatusChanges, Summed DEF IInv
    <2>3. PostedEffect(d) = 0
      BY <2>1 DEF PostedEffect, Postable
    <2>4. Reserved' = Reserved
      BY <1>1 DEF Reserved, Ids
    <2> QED
      BY <1>1, <2>1, <2>2, <2>3, <2>4
  <1> QED
    BY <1>1, <1>4, <1>5, <1>8, <1>9, <1>10, <1>11, WritesNoRow DEF Workers

LEMMA CommitReverseInv ==
    ASSUME IInv, NEW p \in Procs, CommitReverse(p)
    PROVE  IInv'
  <1> DEFINE t == task[p]
             d == t.doc
  <1>1. /\ t.op = "reverse"
        /\ lost' = (lost \/ status[d] # "POSTED")
        /\ status' = [status EXCEPT ![d] = "REVERSED"]
        /\ onhand' = onhand + PutBack(d)
        /\ moves' = [moves EXCEPT ![d] = IF "physical" \in @ THEN @ \cup {"reversal"} ELSE @]
        /\ bucket' = bucket - journal[d]
        /\ strayed' = (strayed \/ journal[d] # Effect(d))
        /\ Step(p, Idle)
        /\ UNCHANGED <<rows, lapsed, journal, kills, told, raced, crossed>>
    BY DEF CommitReverse
  <1>2. t \in Task
    BY DEF IInv, TypeOK, Workers
  <1> HIDE DEF t
  <1>3. d \in Documents
    BY <1>1, <1>2, TaskKinds DEF StatusTask
  <1>4. TypeOK'
    <2>1. bucket' \in Int /\ onhand' \in Int
      BY <1>1, <1>3 DEF IInv, TypeOK, PutBack, Issued
    <2>5. moves' \in [Documents -> SUBSET {"physical", "reversal"}]
      BY <1>1, <1>3 DEF IInv, TypeOK
    <2>2. strayed' \in BOOLEAN /\ lost' \in BOOLEAN
      BY <1>1 DEF IInv, TypeOK
    <2>3. task' \in [Workers -> Task]
      BY <1>1, IdleFits DEF IInv, TypeOK, Step, Workers
    <2>4. status' \in [Documents -> DocumentStatus]
      BY <1>1 DEF IInv, TypeOK, DocumentStatus
    <2> QED
      BY <1>1, <2>1, <2>2, <2>3, <2>4, <2>5 DEF IInv, TypeOK, Workers, Documents
  <1>5. status'[d] = "REVERSED" /\ \A x \in Documents \ {d} : status'[x] = status[x]
    BY <1>1, <1>3 DEF IInv, TypeOK
  <1>7. ~lost' => ~lost /\ status[d] = "POSTED"
    BY <1>1
  <1>9. "REVERSED" # "POSTED"
    OBVIOUS
  <1>10. ~lost' => Stock' = Stock
    <2> SUFFICES ASSUME ~lost' PROVE Stock' = Stock
      OBVIOUS
    <2>1. PostedIssue(d) = Issued(d) /\ PutBack(d) = Issued(d) /\ Issued(d) \in Int
      BY <1>3, <1>7 DEF IInv, MovesFit, PostedIssue, PutBack, Postable, Issued
    <2>2. onhand' = onhand + PostedIssue(d) - IF "REVERSED" = "POSTED" THEN Issued(d) ELSE 0
      BY <1>1, <1>9, <2>1 DEF IInv, TypeOK
    <2> QED
      BY <1>1, <1>3, <1>4, <2>2, StockKept DEF IInv
  <1>11. MovesFit'
    <2> SUFFICES ASSUME ~lost', NEW x \in Documents
                 PROVE  "physical" \in moves'[x] <=> x \in Issues /\ status'[x] \notin Postable
      BY DEF MovesFit, Documents
    <2>1. "physical" \in moves[x] <=> x \in Issues /\ status[x] \notin Postable
      BY <1>7 DEF IInv, MovesFit
    <2>2. "physical" \in moves'[x] <=> "physical" \in moves[x]
      BY <1>1 DEF IInv, TypeOK
    <2> QED
      BY <1>5, <1>7, <2>1, <2>2 DEF Postable
  <1>6. ShortOnlyBySales'
    <2> SUFFICES ASSUME ~crossed', ~lost', ~strayed',
                        \A x \in Holds \cup Frees : status'[x] # "REVERSED"
                 PROVE  bucket' \in 0..Stock'
      BY DEF ShortOnlyBySales, Stock
    <2>1. d \in Issues /\ \A x \in Holds \cup Frees : status[x] # "REVERSED"
      BY <1>3, <1>5, <1>7 DEF Documents
    <2>2. journal[d] = 0
      BY <1>1, <2>1, DocumentsAssumption DEF Effect
    <2>3. bucket \in 0..Stock
      BY <1>1, <1>7, <2>1 DEF IInv, ShortOnlyBySales, Stock
    <2> QED
      BY <1>1, <1>10, <2>2, <2>3
  <1>8. BucketIsReserved'
    <2> SUFFICES ASSUME ~lost', ~strayed'
                 PROVE  bucket' = Reserved' + Held'
      BY DEF BucketIsReserved
    <2>1. status[d] = "POSTED" /\ journal[d] = Effect(d) /\ bucket = Reserved + Held
      BY <1>1 DEF IInv, BucketIsReserved
    <2>2. Held' = Held - PostedEffect(d) + 0 /\ Reserved \in Int /\ Held \in Int
      BY <1>1, <1>3, <1>4, <1>9, StatusChanges, Summed DEF IInv
    <2>3. PostedEffect(d) = Effect(d) /\ Effect(d) \in Int
      BY <2>1 DEF PostedEffect, Effect
    <2>4. Reserved' = Reserved
      BY <1>1 DEF Reserved, Ids
    <2> QED
      BY <1>1, <2>1, <2>2, <2>3, <2>4
  <1> QED
    BY <1>1, <1>4, <1>6, <1>7, <1>8, <1>10, <1>11, WritesNoRow DEF Workers

LEMMA IndexRefusesInv ==
    ASSUME IInv, NEW p \in Procs, IndexRefuses(p)
    PROVE  IInv'
  <1>1. UNCHANGED <<stored, kills, ghosts>> /\ kills' \in 0..MaxKills
    BY DEF IndexRefuses, IInv, TypeOK
  <1>2. CASE task[p].op = "post" /\ Step(p, [op |-> "fail", doc |-> task[p].doc])
    BY <1>1, <1>2, FailTaskInv DEF Workers
  <1>3. CASE Step(p, Idle)
    BY <1>1, <1>3, IdleFits, TaskStep DEF Workers
  <1> QED
    BY <1>2, <1>3 DEF IndexRefuses

LEMMA LapseInv ==
    ASSUME IInv, NEW i \in Ids, Lapse(i)
    PROVE  IInv'
  <1>1. /\ lapsed' = lapsed \cup {i}
        /\ UNCHANGED <<rows, onhand, bucket, status, journal, moves, task, kills, ghosts>>
    BY DEF Lapse
  <1>2. TypeOK'
    BY <1>1, RowsTyped DEF IInv, TypeOK, ghosts, Documents
  <1>3. TasksFit'
    BY <1>1, StockUnmoved DEF IInv, TasksFit, Fits, Covered, Written, IsOpen, Ids, ghosts
  <1>4. Counted' /\ ShortOnlyBySales' /\ MovesFit'
    BY <1>1, StockUnmoved DEF IInv, Counted, ShortOnlyBySales, MovesFit, Stock, Ids, ghosts
  <1>5. OncePerLine'
    BY <1>1 DEF IInv, OncePerLine, Reserving, OpenFor, IsOpen, Ids, ghosts
  <1>6. BucketIsReserved'
    BY <1>1, BucketUnmoved DEF IInv, ghosts
  <1> QED
    BY <1>2, <1>3, <1>4, <1>5, <1>6 DEF IInv

-----------------------------------------------------------------------------
(* The theorems.                                                           *)
LEMMA InitInv == Init => IInv
  <1> SUFFICES ASSUME Init PROVE IInv
    OBVIOUS
  <1>1. TypeOK
    <2>1. rows \in Seq(Row) /\ Len(rows) = 0
      BY DEF Init
    <2>2. task \in [Procs \cup {Cron} -> Task]
      BY IdleFits DEF Init
    <2>3. /\ told \in [1..MaxRows -> Nat]
          /\ journal \in [Documents -> Int] /\ moves \in [Documents -> SUBSET {"physical", "reversal"}]
      BY DEF Init
    <2>4. 0 \in 0..MaxKills /\ 0 <= MaxRows
      BY BoundsAssumption
    <2>5. /\ bucket \in Int /\ onhand \in Int
          /\ lapsed \subseteq 1..Len(rows) /\ kills \in 0..MaxKills
      BY <2>4, BoundsAssumption DEF Init
    <2>6. status \in [Documents -> DocumentStatus]
      BY DEF Init, DocumentStatus
    <2>7. {raced, crossed, strayed, lost} \subseteq BOOLEAN
      BY DEF Init
    <2>8. Len(rows) <= MaxRows
      BY <2>1, <2>4
    <2> QED
      BY <2>1, <2>2, <2>3, <2>5, <2>6, <2>7, <2>8 DEF TypeOK
  <1>2. Ids = {}
    BY DEF Init, Ids
  <1>3. TasksFit
    BY DEF Init, TasksFit, Workers, Idle, Fits, Covered
  <1>4. Counted
    BY <1>2 DEF Init, Counted
  <1>5. OncePerLine
    BY <1>2 DEF Init, OncePerLine, Reserving, Idle
  <1>6. ShortOnlyBySales
    <2>1. onhand \in Nat /\ bucket = 0 /\ Sold \in Nat
      BY <1>1, BoundsAssumption, SoldIsThat DEF Init, SoldFits
    <2> QED
      BY <2>1 DEF ShortOnlyBySales
  <1>8. MovesFit
    BY DEF Init, MovesFit, Postable
  <1>7. BucketIsReserved
    <2>1. Reserved = 0
      BY <1>1, <1>2, SumsAreThose, SumEmpty DEF SumsFit
    <2>2. \A d \in Documents : Effects[d] = 0
      BY DEF Init, Effects, PostedEffect
    <2>3. Held = 0
      BY <1>1, <2>2, SumsAreThose, SumZero DEF SumsFit
    <2> QED
      BY <2>1, <2>3 DEF Init, BucketIsReserved
  <1> QED
    BY <1>1, <1>3, <1>4, <1>5, <1>6, <1>7, <1>8 DEF IInv

LEMMA NextInv == IInv /\ [Next]_vars => IInv'
  <1> SUFFICES ASSUME IInv, [Next]_vars PROVE IInv'
    OBVIOUS
  <1>1. ASSUME NEW p \in Procs, Request(p) PROVE IInv'
    <2>1. ASSUME NEW line \in Lines \cup {None}, NEW q \in Qtys, NEW e \in BOOLEAN,
                 NEW d \in Issues \cup {None}, Create(p, line, q, e, d)
          PROVE  IInv'
      BY <2>1, CreateInv
    <2>2. ASSUME NEW i \in Ids, NEW q \in Qtys, Release(p, i, q) PROVE IInv'
      BY <2>2, ReleaseInv
    <2>3. ASSUME NEW i \in Ids, NEW q \in Qtys, NEW keep \in BOOLEAN,
                 NEW d \in Issues \cup {None}, Fulfil(p, i, q, ~keep, d)
          PROVE  IInv'
      <3>1. (~keep) \in BOOLEAN
        OBVIOUS
      <3> QED
        BY <2>3, <3>1, FulfilInv
    <2>4. ASSUME NEW d \in Documents, PostDocument(p, d) \/ ReverseDocument(p, d)
          PROVE  IInv'
      BY <2>4, DocumentTaskInv
    <2>5. CASE Insert(p) \/ CommitPost(p) \/ MarkFailed(p) \/ CommitReverse(p) \/ IndexRefuses(p)
      BY <2>5, InsertInv, CommitPostInv, MarkFailedInv, CommitReverseInv, IndexRefusesInv
    <2> QED
      BY <1>1, <2>1, <2>2, <2>3, <2>4, <2>5 DEF Request
  <1>2. ASSUME NEW p \in Workers, Check(p) \/ ApplyRelease(p) PROVE IInv'
    BY <1>2, CheckInv, ApplyReleaseInv
  <1>3. CASE Sweep
    BY <1>2, <1>3, ExpireDueInv DEF Sweep, Workers
  <1>4. ASSUME NEW p \in Workers, Kill(p) PROVE IInv'
    BY <1>4, KillInv
  <1>5. ASSUME NEW i \in Ids, Lapse(i) PROVE IInv'
    BY <1>5, LapseInv
  <1>6. CASE UNCHANGED vars
    <2>1. UNCHANGED <<rows, lapsed, onhand, bucket, status, journal, moves, task, kills,
                      told, raced, crossed, strayed, lost>>
      BY <1>6 DEF vars, stored, ghosts
    <2>2. BucketIsReserved' /\ Stock' = Stock
      BY <2>1, BucketUnmoved, StockUnmoved DEF IInv
    <2>3. ShortOnlyBySales' /\ MovesFit'
      BY <2>1, <2>2 DEF IInv, ShortOnlyBySales, MovesFit, Stock
    <2> QED
      BY <2>1, <2>2, <2>3 DEF IInv, TypeOK, TasksFit, Fits, Covered, Written, IsOpen, Ids, Counted,
                  OncePerLine, Reserving, OpenFor, Documents
  <1> QED
    BY <1>1, <1>2, <1>3, <1>4, <1>5, <1>6 DEF Next, Workers

(***************************************************************************)
(* The inductive invariant holds.                                          *)
(***************************************************************************)
THEOREM Invariant == Spec => []IInv
  BY InitInv, NextInv, PTL DEF Spec

(***************************************************************************)
(* Every column keeps its type, whatever requests, sweeps and documents do *)
(* beside each other.                                                      *)
(***************************************************************************)
THEOREM TypeCorrect == Spec => []TypeOK
  <1>1. IInv => TypeOK
    BY DEF IInv
  <1> QED
    BY <1>1, Invariant, PTL

(***************************************************************************)
(* What fulfil() answered was issued is on the reservation, and within it. *)
(***************************************************************************)
THEOREM IssuedFits == Spec => []IssuedWithinReserved
  <1>1. IInv => IssuedWithinReserved
    BY DEF IInv, Counted, IssuedWithinReserved
  <1> QED
    BY <1>1, Invariant, PTL

(***************************************************************************)
(* An order line has one open reservation, if its retries do not overlap.  *)
(***************************************************************************)
THEOREM LineOnce == Spec => []LineReservedOnce
  <1>1. IInv => LineReservedOnce
    <2> SUFFICES ASSUME IInv, ~raced, ~lost, NEW i \in Ids, NEW j \in Ids,
                        rows[i].line = rows[j].line, rows[i].line # None,
                        IsOpen(rows[i]), IsOpen(rows[j])
                 PROVE  i = j
      BY DEF LineReservedOnce
    <2>1. rows[i].line \in Lines
      BY RowsTyped DEF IInv, Row
    <2> QED
      BY <2>1 DEF IInv, OncePerLine, OpenFor
  <1> QED
    BY <1>1, Invariant, PTL

(***************************************************************************)
(* The bucket is never overdrawn, and what it promises beyond the stock on *)
(* hand is no more than posted sales have taken: unless two movements      *)
(* cross, a write is lost, or a document that moved the bucket is reversed.*)
(***************************************************************************)
THEOREM ShortfallIsSold == Spec => []ShortOnlyBySales
  <1>1. IInv => ShortOnlyBySales
    BY DEF IInv
  <1> QED
    BY <1>1, Invariant, PTL

(***************************************************************************)
(* The bucket holds what is open of the reservations and what the posted   *)
(* documents put there, until an update is lost or a document that a       *)
(* reservation names is reversed.                                          *)
(***************************************************************************)
THEOREM BucketFits == Spec => []BucketIsReserved
  <1>1. IInv => BucketIsReserved
    BY DEF IInv
  <1> QED
    BY <1>1, Invariant, PTL
=============================================================================
