------------------------- MODULE CostAccountsProofs -------------------------
(***************************************************************************)
(* What adds up in CostLayers as long as one process works at a time       *)
(* (Serial, the instance the run checks): what a process has read is then  *)
(* what the tables say when it commits (Fresh).                            *)
(*                                                                         *)
(* The invariant behind the quantities is Tally.  It says, besides what    *)
(* QuantityConserved and TrailMatchesLayers say, which document every row  *)
(* stands for, and that what a posted issue took from the layers (Drawn)   *)
(* and is owed (Owed) is its quantity.  A reversal, which gives back by    *)
(* the consumption rows, and a replay, which starts from nothing, need     *)
(* both.  A replay keeps Tally after every movement, with the movements    *)
(* still to come as drafts (RunRows).                                      *)
(*                                                                         *)
(* The invariant behind the values is AllRated: every amount in the tables *)
(* agrees with its quantity and its rate, which is rounded to the fourth   *)
(* decimal, so the two differ by at most half a grid step per unit. The    *)
(* values add up to that tolerance (ValueHeld, ValueKept), and so does     *)
(* every receipt line with the layer it made (Single, LineHeld,            *)
(* LinesKept). A replay keeps both, movement by movement (RunValue).       *)
(*                                                                         *)
(* That a second replay revises nothing (Stable) needs no invariant: two   *)
(* replays of the same movements give layers that differ by their ids only *)
(* (Renames, SameRun).                                                     *)
(***************************************************************************)
EXTENDS CostLayersProofs

(***************************************************************************)
(* What holds when the operations are serial.                              *)
(***************************************************************************)
Serial == \A p, q \in Procs : p = q

\* What a process has read is what the tables say.
Fresh ==
    /\ \A p \in Procs : call[p].op \in Documents =>
         /\ seen[p].lines = lines /\ seen[p].layers = layers
         /\ Accepts(call[p].op, lines[call[p].line])
    /\ \A p \in Procs : call[p].op = "replay" => seen[p].lines = lines
    /\ Working # {} => replays > 0

LEMMA FreshInit ==
    ASSUME Init
    PROVE  Fresh
PROOF
<1>1. \A p \in Procs : call[p].op = "idle"
  BY DEF Init, Idle
<1>2. Working = {}
  BY <1>1 DEF Working
<1> QED
  BY <1>1, <1>2 DEF Fresh, Documents

\* The only process is idle again.
LEMMA FreshDone ==
    ASSUME Consistent, Serial, NEW p \in Procs, Done(p)
    PROVE  Fresh'
PROOF
<1>1. \A q \in Procs : q = p
  BY DEF Serial
<1>2. call'[p].op = "idle"
  BY CountersAre DEF Done, Idle
<1>3. Working' = {}
  BY <1>1, <1>2 DEF Working
<1> QED
  BY <1>1, <1>2, <1>3 DEF Fresh, Documents

LEMMA FreshStep ==
    ASSUME Consistent, Serial, Fresh, [Next]_vars
    PROVE  Fresh'
PROOF
<1>1. CASE UNCHANGED vars
  <2>1. lines' = lines /\ layers' = layers /\ call' = call /\ seen' = seen /\ replays' = replays
    BY <1>1 DEF vars
  <2>2. Working' = Working
    BY <2>1 DEF Working
  <2> QED
    BY <2>1, <2>2 DEF Fresh
<1>2. ASSUME NEW p \in Procs, NEW o \in Documents, NEW l \in Lines, NEW c \in Charges \cup {0}, Begin(p, o, l, c)
      PROVE  Fresh'
  <2>1. \A q \in Procs : q = p
    BY DEF Serial
  <2>2. /\ call'[p] = [op |-> o, line |-> l, charge |-> c] /\ seen'[p] = [lines |-> lines, layers |-> layers]
        /\ lines' = lines /\ layers' = layers /\ Accepts(o, lines[l])
    BY <1>2, CountersAre DEF Begin, tables
  <2>3. call'[p].op = o /\ call'[p].line = l /\ seen'[p].lines = lines' /\ seen'[p].layers = layers'
    BY <2>2
  <2>4. Working' = {}
    BY <2>1, <2>3 DEF Working, Documents
  <2>5. Accepts(call[p].op, lines[call[p].line])'
    BY <2>2, <2>3 DEF Accepts
  <2> QED
    BY <2>1, <2>3, <2>4, <2>5 DEF Fresh, Documents
<1>3. ASSUME NEW p \in Procs, Session(p)
      PROVE  Fresh'
  <2>1. ASSUME NEW l \in Lines, NEW o \in {"receipt", "issue", "revaluation", "reverse"}, Begin(p, o, l, 0)
        PROVE  Fresh'
    <3>1. o \in Documents /\ 0 \in Charges \cup {0}
      BY <2>1 DEF Documents
    <3> QED
      BY <1>2, <2>1, <3>1
  <2>2. ASSUME NEW l \in Lines, NEW c \in Charges, Begin(p, "landed", l, c)
        PROVE  Fresh'
    <3>1. "landed" \in Documents /\ c \in Charges \cup {0}
      BY DEF Documents
    <3> QED
      BY <1>2, <2>2, <3>1
  <2>3. CASE Done(p)
    BY <2>3, FreshDone
  <2> QED
    BY <1>3, <2>1, <2>2, <2>3 DEF Session, PostReceipt, PostIssue, PostLandedCost, PostRevaluation, ReverseDocument, Rollback
<1>4. ASSUME NEW p \in Procs, ClaimJob(p)
      PROVE  Fresh'
  <2>1. \A q \in Procs : q = p
    BY DEF Serial
  <2>2. call'[p].op = "claimed"
    BY <1>4, CountersAre DEF ClaimJob, Doing
  <2>3. replays' > 0
    <3>1. replays' = replays + 1 /\ replays \in Nat
      BY <1>4, CountersAre, DataAssumption DEF ClaimJob
    <3> QED
      BY <3>1
  <2> QED
    BY <2>1, <2>2, <2>3 DEF Fresh, Documents
<1>5. ASSUME NEW p \in Procs, ReadMovements(p)
      PROVE  Fresh'
  <2>1. \A q \in Procs : q = p
    BY DEF Serial
  <2>2. call'[p].op = "replay" /\ seen'[p] = [lines |-> lines, layers |-> {}] /\ lines' = lines /\ replays' = replays
    BY <1>5, CountersAre DEF ReadMovements, Doing, tables, counters
  <2>3. replays > 0
    BY <1>5 DEF Fresh, Working, ReadMovements, At
  <2> QED
    BY <2>1, <2>2, <2>3 DEF Fresh, Documents
<1>6. ASSUME NEW p \in Procs, Replay(p)
      PROVE  Fresh'
  <2>1. \A q \in Procs : q = p
    BY DEF Serial
  <2>2. call'[p].op = "publish" /\ replays' = replays
    BY <1>6, CountersAre DEF Replay, Doing, counters
  <2>3. replays > 0
    BY <1>6 DEF Fresh, Working, Replay, At
  <2> QED
    BY <2>1, <2>2, <2>3 DEF Fresh, Documents
<1>7. ASSUME NEW p \in Procs, PublishRevision(p)
      PROVE  Fresh'
  <2>1. \A q \in Procs : q = p
    BY DEF Serial
  <2>2. call'[p].op = "publish" /\ call[p].op = "publish" /\ replays' = replays
    BY <1>7 DEF PublishRevision, At, counters
  <2>3. replays > 0
    BY <2>2 DEF Fresh, Working
  <2> QED
    BY <2>1, <2>2, <2>3 DEF Fresh, Documents
<1>8. ASSUME NEW p \in Procs, CompleteJob(p) \/ Crash(p)
      PROVE  Fresh'
  BY <1>8, FreshDone DEF CompleteJob, Crash
<1> QED
  BY <1>1, <1>3, <1>4, <1>5, <1>6, <1>7, <1>8 DEF Next, Worker

\* What the only process works on.
LEMMA Reads ==
    ASSUME Fresh, NEW p \in Procs, call[p].op \in Documents
    PROVE  seen[p].lines = lines /\ seen[p].layers = layers /\ Accepts(call[p].op, lines[call[p].line])
  BY DEF Fresh

-----------------------------------------------------------------------------
(* Books hears of every revision.                                          *)

Unpublished ==
    /\ \A p \in Procs : unsent[p] # {} => call[p].op = "publish"
    /\ \A p \in Procs : \A v \in unsent[p] : v.amount = lines[v.line].amount
    /\ crashes = 0 => \A l \in Posted("issue") :
         told[l] = lines[l].amount \/ \E p \in Procs : \E v \in unsent[p] : v.line = l

LEMMA UnpublishedInit ==
    ASSUME Init
    PROVE  Unpublished
PROOF
<1>1. \A p \in Procs : unsent[p] = {}
  BY DEF Init
<1>2. \A l \in Lines : lines[l].status = "DRAFT"
  BY DraftsAssumption DEF Init, IsDraft
<1> QED
  BY <1>1, <1>2 DEF Unpublished, Posted

\* A request that gives Books the cost of the issues it changes.
LEMMA RequestUnpublished ==
    ASSUME Consistent, Unpublished, Serial, NEW p \in Procs, call[p].op # "publish", unsent' = unsent, crashes' = crashes,
           \A l \in Lines : lines'[l].type = "issue" /\ lines'[l].status = "POSTED" =>
                \/ told'[l] = lines'[l].amount
                \/ lines'[l] = lines[l] /\ told'[l] = told[l]
    PROVE  Unpublished'
PROOF
<1>1. \A q \in Procs : unsent[q] = {}
  BY DEF Unpublished, Serial
<1>2. \A q \in Procs : unsent'[q] = {}
  BY <1>1
<1>3. ASSUME crashes = 0, NEW l \in Lines, lines'[l].type = "issue", lines'[l].status = "POSTED"
      PROVE  told'[l] = lines'[l].amount
  BY <1>1, <1>3 DEF Unpublished, Posted
<1> QED
  BY <1>2, <1>3 DEF Unpublished, Posted

\* The line that a request is about.
LEMMA OwnLine ==
    ASSUME Consistent, NEW p \in Procs, call[p].op \in Documents
    PROVE  call[p].line \in Lines /\ lines \in Rows /\ told \in [Lines -> Nat]
  BY CallIs DEF Consistent, TablesFit, ReadRows

LEMMA SessionUnpublished ==
    ASSUME Consistent, Serial, Fresh, Unpublished, NEW p \in Procs, Session(p)
    PROVE  Unpublished'
PROOF
<1>1. ASSUME NEW l \in Lines, NEW o, NEW c, Begin(p, o, l, c)
      PROVE  Unpublished'
  <2>1. lines' = lines /\ told' = told /\ unsent' = unsent /\ crashes' = crashes /\ call[p].op = "idle"
    BY <1>1 DEF Begin, At, tables, counters
  <2> QED
    BY <2>1, RequestUnpublished
<1>2. CASE PostReceipt(p)
  <2> DEFINE l == call[p].line
  <2>1. l \in Lines /\ lines \in Rows /\ lines[l].type = "receipt"
    BY <1>2, OwnLine, CallIs DEF PostReceipt, At, Documents
  <2>2. Record(l, lines[l].rate, lines[l].qty * lines[l].rate) /\ told' = told /\ unsent' = unsent /\ crashes' = crashes
        /\ call[p].op = "receipt"
    BY <1>2 DEF PostReceipt, At, counters
  <2>3. \A k \in Lines : k # l => lines'[k] = lines[k]
    BY <2>1, <2>2 DEF Record, Rows
  <2>4. lines'[l].type = "receipt"
    BY <1>2, <2>1, ReceiptTables DEF Later, Outdated
  <2> QED
    BY <2>2, <2>3, <2>4, RequestUnpublished
<1>3. CASE PostIssue(p)
  <2>0. SUFFICES ASSUME NEW l, l = call[p].line, NEW amount, NEW rate, Record(l, rate, amount),
                        told' = [told EXCEPT ![l] = amount]
                 PROVE  Unpublished'
    BY <1>3 DEF PostIssue
  <2>1. l \in Lines /\ lines \in Rows /\ told \in [Lines -> Nat]
    BY <1>3, <2>0, OwnLine DEF PostIssue, At, Documents
  <2>2. unsent' = unsent /\ crashes' = crashes /\ call[p].op = "issue"
    BY <1>3 DEF PostIssue, At, counters
  <2>3. \A k \in Lines : k # l => lines'[k] = lines[k] /\ told'[k] = told[k]
    BY <2>0, <2>1 DEF Record, Rows
  <2>4. lines'[l].amount = amount /\ told'[l] = amount
    BY <2>0, <2>1 DEF Record, Rows, LineRow
  <2> QED
    BY <2>2, <2>3, <2>4, RequestUnpublished
<1>4. CASE PostLandedCost(p)
  <2> DEFINE l == call[p].line
  <2>1. l \in Lines /\ lines \in Rows /\ lines[l].type = "receipt"
    BY <1>4, OwnLine, CallIs DEF PostLandedCost, At, Documents
  <2>2. told' = told /\ unsent' = unsent /\ crashes' = crashes /\ call[p].op = "landed"
    BY <1>4 DEF PostLandedCost, At
  <2>3. \A k \in Lines : k # l => lines'[k] = lines[k]
    <3> DEFINE row == seen[p].lines[l]
               perUnit == Rounded(call[p].charge, row.qty)
               gain == SumFunction([x \in LayersOf(seen[p].layers, l) |-> Absorbed(x, perUnit)])
               amount == row.amount + gain
               rate == Rounded(amount, row.qty)
    <3>1. lines' = IF gain = 0 THEN lines ELSE [lines EXCEPT ![l].amount = amount, ![l].rate = rate]
      BY <1>4 DEF PostLandedCost
    <3> HIDE DEF gain, amount, rate
    <3> QED
      BY <2>1, <3>1 DEF Rows
  <2>4. lines'[l].type = "receipt"
    BY <1>4, <2>1, LandedTables DEF Later, Outdated
  <2> QED
    BY <2>2, <2>3, <2>4, RequestUnpublished
<1>5. CASE PostRevaluation(p)
  <2> DEFINE l == call[p].line
  <2>1. l \in Lines /\ lines \in Rows /\ lines[l].type = "revaluation"
    BY <1>5, OwnLine, CallIs DEF PostRevaluation, At, Documents
  <2>2. told' = told /\ unsent' = unsent /\ crashes' = crashes /\ call[p].op = "revaluation"
    BY <1>5 DEF PostRevaluation, At, counters
  <2>3. \A k \in Lines : k # l => lines'[k] = lines[k]
    BY <1>5, <2>1 DEF PostRevaluation, Record, Rows
  <2>4. lines'[l].type = "revaluation"
    BY <1>5, <2>1, RevaluationTables DEF Later, Outdated
  <2> QED
    BY <2>2, <2>3, <2>4, RequestUnpublished
<1>6. CASE ReverseDocument(p)
  <2> DEFINE l == call[p].line
  <2>1. l \in Lines /\ lines \in Rows
    BY <1>6, OwnLine DEF ReverseDocument, At, Documents
  <2>2. told' = told /\ unsent' = unsent /\ crashes' = crashes /\ call[p].op = "reverse"
    BY <1>6 DEF ReverseDocument, At, counters
  <2>3. lines' = [lines EXCEPT ![l].status = "REVERSED"]
    BY <1>6 DEF ReverseDocument
  <2>4. lines'[l].status = "REVERSED" /\ \A k \in Lines : k # l => lines'[k] = lines[k]
    BY <2>1, <2>3 DEF Rows, LineRow
  <2> QED
    BY <2>2, <2>4, RequestUnpublished
<1>7. CASE Rollback(p)
  <2>1. lines' = lines /\ told' = told /\ unsent' = unsent /\ crashes' = crashes /\ call[p].op # "publish"
    BY <1>7 DEF Rollback, tables, counters
  <2> QED
    BY <2>1, RequestUnpublished
<1> QED
  BY <1>1, <1>2, <1>3, <1>4, <1>5, <1>6, <1>7 DEF Session

LEMMA ReplayUnpublished ==
    ASSUME Consistent, Serial, Fresh, Unpublished, NEW p \in Procs, Replay(p)
    PROVE  Unpublished'
PROOF
<1>0. SUFFICES ASSUME NEW r, r = Replayed(seen[p].lines, lines, lastId + 1)
               PROVE  Unpublished'
  OBVIOUS
<1>1. \A q \in Procs : q = p
  BY DEF Serial
<1>2. seen[p].lines = lines /\ call[p].op = "replay"
  BY DEF Fresh, Replay, At
<1>3. /\ lines' = [l \in Lines |-> IF l \in Revised(lines, r)
                                   THEN Revise(lines[l], r.rate[l], r.amount[l]) ELSE lines[l]]
      /\ unsent' = [unsent EXCEPT ![p] = Revisions(lines, r)]
      /\ told' = told /\ crashes' = crashes
  BY <1>0, <1>2 DEF Replay, counters
<1>4. unsent'[p] = Revisions(lines, r)
  BY <1>3, CountersAre
<1>5. call'[p].op = "publish"
  BY CountersAre DEF Replay, Doing
<1>6. unsent[p] = {}
  BY <1>2 DEF Unpublished
<1>7. ASSUME NEW l \in Revised(lines, r)
      PROVE  l \in Lines /\ lines'[l].amount = r.amount[l]
  <2>1. l \in Lines /\ lines[l] \in LineRow
    BY DEF Revised, Movements, Consistent, TablesFit, ReadRows, Rows
  <2> QED
    BY <1>3, <2>1 DEF Revise, LineRow
<1>8. \A v \in unsent'[p] : v.amount = lines'[v.line].amount
  BY <1>4, <1>7 DEF Revisions
<1>9. ASSUME crashes = 0, NEW l \in Lines, lines'[l].type = "issue", lines'[l].status = "POSTED"
      PROVE  told'[l] = lines'[l].amount \/ \E v \in unsent'[p] : v.line = l
  <2>1. CASE l \in Revised(lines, r)
    <3>1. [line |-> l, amount |-> r.amount[l]] \in unsent'[p]
      BY <1>4, <2>1 DEF Revisions
    <3> QED
      BY <3>1
  <2>2. CASE l \notin Revised(lines, r)
    <3>1. lines'[l] = lines[l]
      BY <1>3, <2>2
    <3>2. told[l] = lines[l].amount
      BY <1>1, <1>6, <1>9, <3>1 DEF Unpublished, Posted
    <3> QED
      BY <1>3, <3>1, <3>2
  <2> QED
    BY <2>1, <2>2
<1> QED
  BY <1>1, <1>3, <1>5, <1>8, <1>9 DEF Unpublished, Posted

LEMMA UnpublishedStep ==
    ASSUME Consistent, Serial, Fresh, Unpublished, [Next]_vars
    PROVE  Unpublished'
PROOF
<1>1. CASE UNCHANGED vars
  BY <1>1 DEF vars, Unpublished, Posted
<1>2. ASSUME NEW p \in Procs, ClaimJob(p) \/ ReadMovements(p)
      PROVE  Unpublished'
  <2>1. lines' = lines /\ told' = told /\ unsent' = unsent /\ crashes' = crashes /\ call[p].op # "publish"
    BY <1>2 DEF ClaimJob, ReadMovements, At, tables, counters
  <2> QED
    BY <2>1, RequestUnpublished
<1>3. ASSUME NEW p \in Procs, PublishRevision(p)
      PROVE  Unpublished'
  <2>1. PICK v \in unsent[p] :
          /\ told' = IF lines[v.line].type = "issue" THEN [told EXCEPT ![v.line] = v.amount] ELSE told
          /\ unsent' = [unsent EXCEPT ![p] = @ \ {v}]
    BY <1>3 DEF PublishRevision
  <2>2. \A q \in Procs : q = p
    BY DEF Serial
  <2>3. lines' = lines /\ call' = call /\ crashes' = crashes /\ call[p].op = "publish"
    BY <1>3 DEF PublishRevision, At, counters
  <2>4. v.line \in Lines /\ v.amount = lines[v.line].amount /\ told \in [Lines -> Nat]
    BY <2>1, CountersAre DEF Unpublished, Consistent, TablesFit
  <2>5. unsent'[p] = unsent[p] \ {v}
    BY <2>1, CountersAre
  <2>6. ASSUME crashes = 0, NEW l \in Lines, lines[l].type = "issue", lines[l].status = "POSTED"
        PROVE  told'[l] = lines[l].amount \/ \E w \in unsent'[p] : w.line = l
    <3>1. CASE l = v.line
      BY <2>1, <2>4, <2>6, <3>1
    <3>2. CASE l # v.line
      <4>1. told'[l] = told[l]
        BY <2>1, <2>4, <3>2
      <4>2. told[l] = lines[l].amount \/ \E w \in unsent[p] : w.line = l
        BY <2>2, <2>6 DEF Unpublished, Posted
      <4> QED
        BY <2>5, <3>2, <4>1, <4>2
    <3> QED
      BY <3>1, <3>2
  <2>7. \A w \in unsent'[p] : w.amount = lines'[w.line].amount
    BY <2>3, <2>5 DEF Unpublished
  <2> QED
    BY <2>2, <2>3, <2>6, <2>7 DEF Unpublished, Posted
<1>4. ASSUME NEW p \in Procs, CompleteJob(p)
      PROVE  Unpublished'
  <2>1. \A q \in Procs : q = p
    BY DEF Serial
  <2>2. lines' = lines /\ told' = told /\ crashes' = crashes /\ unsent' = unsent /\ unsent[p] = {}
    BY <1>4 DEF CompleteJob, tables, counters
  <2> QED
    BY <2>1, <2>2 DEF Unpublished, Posted
<1>5. ASSUME NEW p \in Procs, Crash(p)
      PROVE  Unpublished'
  <2>1. \A q \in Procs : q = p
    BY DEF Serial
  <2>2. unsent'[p] = {}
    BY <1>5, CountersAre DEF Crash
  <2>3. crashes' # 0
    <3>1. crashes \in Nat /\ crashes' = crashes + 1
      BY <1>5, CountersAre, DataAssumption DEF Crash
    <3> QED
      BY <3>1
  <2> QED
    BY <2>1, <2>2, <2>3 DEF Unpublished
<1> QED
  BY <1>1, <1>2, <1>3, <1>4, <1>5, SessionUnpublished, ReplayUnpublished DEF Next, Worker

LEMMA UnpublishedReaches ==
    ASSUME Consistent, Unpublished
    PROVE  RevisionsReachBooks
PROOF
<1>1. SUFFICES ASSUME crashes = 0, running = 0
               PROVE  \A l \in Posted("issue") : told[l] = lines[l].amount
  BY DEF RevisionsReachBooks
<1>2. IsFiniteSet(Working) /\ Cardinality(Working) + crashes <= running
  BY DEF Consistent, CountersFit
<1>3. Cardinality(Working) = 0
  BY <1>1, <1>2, FS_CardinalityType
<1>4. Working = {}
  BY <1>2, <1>3, FS_EmptySet
<1>5. \A p \in Procs : unsent[p] = {}
  BY <1>4 DEF Working, Unpublished
<1> QED
  BY <1>1, <1>5 DEF Unpublished

(***************************************************************************)
(* Whatever is posted, reversed and recalculated, in any order: once no job *)
(* is running, and none was killed, Books has been told the cost of every  *)
(* posted issue as it is now.                                              *)
(***************************************************************************)
THEOREM RevisionsTold == Serial /\ Spec => []RevisionsReachBooks
PROOF
<1> DEFINE I == Consistent /\ Serial /\ Fresh /\ Unpublished
<1>1. Serial /\ Init => I
  BY ConsistentInit, FreshInit, UnpublishedInit
<1>2. I /\ [Next]_vars => I'
  <2> SUFFICES ASSUME I, [Next]_vars PROVE I'
    OBVIOUS
  <2>1. Serial'
    BY DEF Serial
  <2> QED
    BY <2>1, ConsistentStep, FreshStep, UnpublishedStep
<1>3. I => RevisionsReachBooks
  BY UnpublishedReaches
<1> HIDE DEF I
<1> QED
  BY <1>1, <1>2, <1>3, PTL DEF Spec

-----------------------------------------------------------------------------
(* An issue takes what it asks for: from the open layers, and the rest on  *)
(* account.                                                                *)

\* Layers are consumed in a strict total order, oldest or newest first.
LEMMA BeforeOrders ==
    ASSUME NEW ls, NEW n, Layered(ls, n), NEW x \in ls, NEW y \in ls
    PROVE  /\ ~Before(x, x)
           /\ x # y => Before(x, y) \/ Before(y, x)
           /\ ~(Before(x, y) /\ Before(y, x))
           /\ \A z \in ls : Before(x, y) /\ Before(y, z) => Before(x, z)
PROOF
<1>1. \A z \in ls : z.id \in Int /\ z.at \in Int
  BY RowIs DEF Layered
<1>2. x.id = y.id => x = y
  BY DEF Layered
<1> QED
  BY <1>1, <1>2 DEF Before, Earlier

\* ... so that a set of layers has one that is consumed last.
LEMMA LastBefore ==
    ASSUME NEW ls, NEW n, Layered(ls, n), ls # {}
    PROVE  \E x \in ls : \A y \in ls \ {x} : Before(y, x)
PROOF
<1> DEFINE IsLast(x, V) == \A y \in V \ {x} : Before(y, x)
           T == {V \in SUBSET ls : V # {} /\ ~ \E x \in V : IsLast(x, V)}
<1>1. SUFFICES T = {}
  OBVIOUS
<1>2. SUFFICES ASSUME T # {} PROVE FALSE
  OBVIOUS
<1>3. PICK V \in T : \A W \in T : W \subseteq V => W = V
  <2>1. T \subseteq SUBSET ls /\ IsFiniteSet(ls)
    BY DEF Layered
  <2> HIDE DEF T
  <2> QED
    BY <1>2, <2>1, SmallestMember
<1>4. PICK a \in V : TRUE
  BY <1>3
<1>5. CASE V = {a}
  <2>1. IsLast(a, V)
    BY <1>5
  <2> QED
    BY <1>3, <2>1
<1>6. CASE V # {a}
  <2>1. V \ {a} # {} /\ V \ {a} \in SUBSET ls /\ V \ {a} \subseteq V /\ V \ {a} # V
    BY <1>3, <1>4, <1>6
  <2>2. PICK b \in V \ {a} : IsLast(b, V \ {a})
    BY <1>3, <2>1
  <2>3. a \in ls /\ b \in ls /\ a # b /\ V \subseteq ls
    BY <1>3, <1>4, <2>2
  <2>4. CASE Before(a, b)
    <3>1. IsLast(b, V)
      BY <2>2, <2>4
    <3> QED
      BY <1>3, <2>2, <3>1
  <2>5. CASE ~Before(a, b)
    <3>1. Before(b, a)
      BY <2>3, <2>5, BeforeOrders
    <3>2. ASSUME NEW y \in V \ {a}
          PROVE  Before(y, a)
      <4>1. y = b \/ Before(y, b)
        BY <2>2
      <4>2. y \in ls
        BY <2>3
      <4> QED
        BY <2>3, <3>1, <4>1, <4>2, BeforeOrders
    <3> QED
      BY <1>3, <1>4, <3>2
  <2> QED
    BY <2>4, <2>5
<1> QED
  BY <1>5, <1>6

TakenBy(ls, q) == [x \in Open(ls) |-> Taken(ls, x, q)]

LEMMA TakenSum ==
    ASSUME NEW ls, NEW n, Layered(ls, n), NEW q \in Nat
    PROVE  SumFunctionOnSet(TakenBy(ls, q), Open(ls)) = Least(q, Quantity(Open(ls)))
PROOF
<1> DEFINE O == Open(ls)
           take == TakenBy(ls, q)
           Closed(V) == \A x \in V, y \in O : Before(y, x) => y \in V
           T == {V \in SUBSET O : Closed(V) /\ SumFunctionOnSet(take, V) # Least(q, Quantity(V))}
<1>1. SUFFICES ASSUME T # {} PROVE FALSE
  <2>1. O \in SUBSET O /\ Closed(O)
    OBVIOUS
  <2> QED
    BY <1>1, <2>1
<1>2. O \subseteq ls /\ IsFiniteSet(O) /\ O \subseteq Holding /\ \A x \in O : x.qty \in Nat
  BY OpenIs
<1>3. PICK V \in T : \A W \in T : W \subseteq V => W = V
  <2>1. T \subseteq SUBSET O
    OBVIOUS
  <2> HIDE DEF T, O
  <2> QED
    BY <1>1, <1>2, <2>1, SmallestMember
<1>4. V \subseteq O /\ Closed(V) /\ SumFunctionOnSet(take, V) # Least(q, Quantity(V))
  BY <1>3
<1>5. \A W \in SUBSET O : W \subseteq V /\ W # V /\ Closed(W) => SumFunctionOnSet(take, W) = Least(q, Quantity(W))
  BY <1>3
<1>6. \A x \in O : take[x] = Taken(ls, x, q) /\ take[x] \in Nat
  BY TakenIs DEF TakenBy
<1> HIDE DEF T, take
<1>7. V # {}
  <2> SUFFICES ASSUME V = {} PROVE FALSE
    OBVIOUS
  <2>1. Quantity({}) = 0
    BY QuantityIs, SumEmpty, FS_EmptySet
  <2>2. Least(q, 0) = 0
    BY DEF Least
  <2> QED
    BY <1>4, <2>1, <2>2, SumEmpty
<1>8. Layered(V, n)
  BY <1>2, <1>4, SubLayers
<1>9. PICK x \in V : \A y \in V \ {x} : Before(y, x)
  BY <1>7, <1>8, LastBefore
<1> DEFINE X == V \ {x}
<1>10. X \subseteq O /\ X \subseteq V /\ X # V /\ x \in O /\ x \notin X /\ V = X \cup {x}
  BY <1>4, <1>9
<1>11. Closed(X)
  <2> SUFFICES ASSUME NEW z \in X, NEW y \in O, Before(y, z) PROVE y \in X
    OBVIOUS
  <2>1. y \in V
    BY <1>4
  <2>2. Before(z, x)
    BY <1>9
  <2>3. z \in ls /\ x \in ls /\ y \in ls
    BY <1>2, <1>10
  <2>4. ~Before(x, z)
    BY <2>2, <2>3, BeforeOrders
  <2> QED
    BY <2>1, <2>4
<1>12. X = {y \in O : Before(y, x)}
  <2>1. ASSUME NEW y \in O, Before(y, x)
        PROVE  y \in X
    <3>1. ~Before(x, x)
      BY <1>2, <1>10, BeforeOrders
    <3> QED
      BY <1>4, <1>9, <2>1, <3>1
  <2> QED
    BY <1>9, <1>10, <2>1
<1>13. SumFunctionOnSet(take, X) = Least(q, Quantity(X))
  BY <1>5, <1>10, <1>11
<1>14. IsFiniteSet(X) /\ X \subseteq Holding
  BY <1>2, <1>10, FS_Subset
<1>15. Quantity(X) \in Nat
  BY <1>2, <1>10, <1>14, QuantityNat
<1>16. take[x] = Least(x.qty, Most(0, q - Quantity(X)))
  BY <1>6, <1>10, <1>12 DEF Taken
<1>17. SumFunctionOnSet(take, V) = SumFunctionOnSet(take, X) + take[x]
  <2>1. \A y \in X \cup {x} : take[y] \in Int
    BY <1>6, <1>10
  <2> HIDE DEF X
  <2> QED
    BY <1>10, <1>14, <2>1, SumJoin
<1>18. Quantity(V) = Quantity(X) + x.qty
  <2>1. x \in Holding /\ x.qty \in Int
    BY <1>2, <1>10
  <2>2. \A y \in X \cup {x} : Qty[y] \in Int
    BY <1>14, <2>1, HoldingIs
  <2>3. IsFiniteSet(V) /\ V \subseteq Holding
    BY <1>8, <1>2, <1>4 DEF Layered
  <2> HIDE DEF X
  <2>4. SumFunctionOnSet(Qty, V) = SumFunctionOnSet(Qty, X) + Qty[x]
    BY <1>10, <1>14, <2>2, SumJoin
  <2> QED
    BY <1>14, <2>1, <2>3, <2>4, QuantityIs, HoldingIs
<1>19. x.qty \in Nat
  BY <1>2, <1>10
<1> HIDE DEF X
<1> QED
  BY <1>4, <1>13, <1>15, <1>16, <1>17, <1>18, <1>19 DEF Least, Most

LEMMA TakenTotal ==
    ASSUME NEW ls, NEW n, Layered(ls, n), NEW q \in Nat
    PROVE  SumFunctionOnSet(TakenBy(ls, q), Open(ls)) + Shortfall(ls, q) = q
PROOF
<1>1. Quantity(Open(ls)) \in Nat
  BY OpenIs
<1> QED
  BY <1>1, TakenSum DEF Shortfall, Least, Most

-----------------------------------------------------------------------------
(* How the quantity and the worth of the layers change.                    *)

LEMMA LayersHeld ==
    ASSUME NEW ls, NEW n, Layered(ls, n)
    PROVE  /\ ls \subseteq Holding /\ IsFiniteSet(ls) /\ Quantity(ls) \in Int /\ Worth(ls) \in Int
           /\ Quantity(ls) = SumFunctionOnSet(Qty, ls) /\ Worth(ls) = SumFunctionOnSet(Value, ls)
           /\ \A x \in ls : x \in LayerRow /\ Qty[x] = x.qty /\ Value[x] = x.qty * x.cost /\ x.qty \in Int /\ x.cost \in Nat
                            /\ x.qty * x.cost \in Int
PROOF
<1>1. ls \subseteq Holding /\ IsFiniteSet(ls) /\ ls \subseteq LayerRow
  BY DEF Layered, Holding
<1>2. Quantity(ls) = SumFunctionOnSet(Qty, ls) /\ Worth(ls) = SumFunctionOnSet(Value, ls)
  BY <1>1, QuantityIs, WorthIs
<1>3. \A x \in ls : Qty[x] = x.qty /\ Value[x] = x.qty * x.cost /\ x.qty \in Int /\ x.cost \in Nat /\ x.qty * x.cost \in Int
  BY <1>1, HoldingIs
<1>4. SumFunctionOnSet(Qty, ls) \in Int /\ SumFunctionOnSet(Value, ls) \in Int
  BY <1>1, <1>3, SumInt
<1> QED
  BY <1>1, <1>2, <1>3, <1>4

\* Every layer is written back with some of its quantity or value more.
LEMMA EditedSums ==
    ASSUME NEW ls, NEW n, Layered(ls, n), NEW f \in [ls -> LayerRow], NEW d \in [ls -> Int], NEW e \in [ls -> Int],
           \A y \in ls : SameLayer(f[y], y),
           \A y \in ls : f[y].qty = y.qty + d[y] /\ f[y].qty * f[y].cost = y.qty * y.cost + e[y],
           NEW new, new = {f[y] : y \in ls}
    PROVE  Quantity(new) = Quantity(ls) + SumFunctionOnSet(d, ls) /\ Worth(new) = Worth(ls) + SumFunctionOnSet(e, ls)
PROOF
<1>1. /\ ls \subseteq Holding /\ IsFiniteSet(ls)
      /\ Quantity(ls) = SumFunctionOnSet(Qty, ls) /\ Worth(ls) = SumFunctionOnSet(Value, ls)
      /\ \A x \in ls : Qty[x] = x.qty /\ Value[x] = x.qty * x.cost /\ x.qty \in Int /\ x.qty * x.cost \in Int
  BY LayersHeld
<1>2. IsFiniteSet(new) /\ new \subseteq Holding
  BY <1>1, ImageFinite DEF Holding
<1>3. Quantity(new) = SumFunctionOnSet(Qty, new) /\ Worth(new) = SumFunctionOnSet(Value, new)
  BY <1>2, QuantityIs, WorthIs
<1>4. \A x, y \in ls : f[x] = f[y] => x = y
  BY DEF Layered, SameLayer
<1>5. \A y \in ls : Qty[f[y]] = f[y].qty /\ Value[f[y]] = f[y].qty * f[y].cost
  BY HoldingIs DEF Holding
<1> DEFINE Q == [y \in ls |-> f[y].qty]
           W == [y \in ls |-> f[y].qty * f[y].cost]
<1>6. \A y \in ls : Q[y] \in Int /\ Q[y] = Qty[y] + d[y] /\ Qty[f[y]] = Q[y] /\ Qty[y] \in Int
  BY <1>1, <1>5
<1>7. \A y \in ls : W[y] \in Int /\ W[y] = Value[y] + e[y] /\ Value[f[y]] = W[y] /\ Value[y] \in Int
  <2> TAKE y \in ls
  <2>1. W[y] = f[y].qty * f[y].cost /\ f[y].qty * f[y].cost = y.qty * y.cost + e[y]
    OBVIOUS
  <2>2. Value[y] = y.qty * y.cost /\ Value[y] \in Int /\ e[y] \in Int /\ Value[f[y]] = f[y].qty * f[y].cost
    BY <1>1, <1>5
  <2> HIDE DEF W
  <2> QED
    BY <2>1, <2>2
<1> HIDE DEF Q, W
<1>8. SumFunctionOnSet(Qty, new) = SumFunctionOnSet(Q, ls)
  BY <1>1, <1>4, <1>6, SumImage
<1>9. SumFunctionOnSet(Value, new) = SumFunctionOnSet(W, ls)
  BY <1>1, <1>4, <1>7, SumImage
<1>10. SumFunctionOnSet(Q, ls) = SumFunctionOnSet(Qty, ls) + SumFunctionOnSet(d, ls)
  BY <1>1, <1>6, SumAdd
<1>11. SumFunctionOnSet(W, ls) = SumFunctionOnSet(Value, ls) + SumFunctionOnSet(e, ls)
  BY <1>1, <1>7, SumAdd
<1> QED
  BY <1>1, <1>3, <1>8, <1>9, <1>10, <1>11

LEMMA AddedSums ==
    ASSUME NEW ls, NEW n, Layered(ls, n), NEW x \in LayerRow, x \notin ls
    PROVE  Quantity(ls \cup {x}) = Quantity(ls) + x.qty /\ Worth(ls \cup {x}) = Worth(ls) + x.qty * x.cost
PROOF
<1>1. /\ ls \subseteq Holding /\ IsFiniteSet(ls)
      /\ Quantity(ls) = SumFunctionOnSet(Qty, ls) /\ Worth(ls) = SumFunctionOnSet(Value, ls)
      /\ \A y \in ls : Qty[y] \in Int /\ Value[y] \in Int
  BY LayersHeld
<1>2. x \in Holding /\ Qty[x] = x.qty /\ Value[x] = x.qty * x.cost /\ Qty[x] \in Int /\ Value[x] \in Int
  BY RowIs, HoldingIs
<1>3. IsFiniteSet(ls \cup {x}) /\ ls \cup {x} \subseteq Holding
  BY <1>1, <1>2, FS_AddElement
<1>4. \A y \in ls \cup {x} : Qty[y] \in Int /\ Value[y] \in Int
  BY <1>1, <1>2
<1>5. /\ SumFunctionOnSet(Qty, ls \cup {x}) = SumFunctionOnSet(Qty, ls) + Qty[x]
      /\ SumFunctionOnSet(Value, ls \cup {x}) = SumFunctionOnSet(Value, ls) + Value[x]
  BY <1>1, <1>4, SumJoin
<1>6. Quantity(ls \cup {x}) = SumFunctionOnSet(Qty, ls \cup {x}) /\ Worth(ls \cup {x}) = SumFunctionOnSet(Value, ls \cup {x})
  BY <1>3, QuantityIs, WorthIs
<1> QED
  BY <1>1, <1>2, <1>5, <1>6

\* What an issue takes from each layer, open or not.
Took(ls, y, q) == IF y \in Open(ls) THEN Taken(ls, y, q) ELSE 0

LEMMA TookIs ==
    ASSUME NEW ls, NEW n, Layered(ls, n), NEW y \in ls, NEW q \in Nat
    PROVE  /\ Took(ls, y, q) \in Nat
           /\ Took(ls, y, q) > 0 <=> y \in Touched(ls, q)
           /\ y.qty <= 0 => Took(ls, y, q) = 0
PROOF
<1>1. y.qty \in Int
  BY LayersHeld
<1>2. y \in Open(ls) <=> y.qty > 0
  BY DEF Open
<1>3. y \in Open(ls) => Taken(ls, y, q) \in Nat
  BY TakenIs
<1> QED
  BY <1>1, <1>2, <1>3 DEF Took, Touched

\* The layers an issue was worked out on are the ones it writes.
LEMMA WrittenOn ==
    ASSUME NEW ls, NEW n, Layered(ls, n), NEW y \in ls, NEW q \in Nat
    PROVE  /\ Written(y, ls, q) \in LayerRow /\ SameLayer(Written(y, ls, q), y) /\ Written(y, ls, q).cost = y.cost
           /\ Written(y, ls, q).qty = y.qty - Took(ls, y, q)
PROOF
<1>1. y \in LayerRow /\ y.qty \in Int
  BY LayersHeld
<1>2. Touched(ls, q) \subseteq ls
  BY DEF Touched, Open
<1>3. \A x \in Touched(ls, q) : x.id = y.id => x = y
  BY <1>2 DEF Layered
<1>4. Took(ls, y, q) \in Nat /\ (Took(ls, y, q) > 0 <=> y \in Touched(ls, q))
  BY TookIs
<1>5. Written(y, ls, q) \in LayerRow /\ SameLayer(Written(y, ls, q), y) /\ Written(y, ls, q).cost = y.cost
  BY <1>1, WrittenIs
<1>6. CASE y \in Touched(ls, q)
  <2>1. (CHOOSE x \in Touched(ls, q) : x.id = y.id) = y
    BY <1>3, <1>6
  <2>2. Written(y, ls, q) = [y EXCEPT !.qty = y.qty - Taken(ls, y, q)]
    BY <1>6, <2>1 DEF Written
  <2>3. Taken(ls, y, q) = Took(ls, y, q)
    BY <1>6 DEF Took, Touched
  <2>4. Written(y, ls, q).qty = y.qty - Taken(ls, y, q)
    BY <1>1, <2>2 DEF LayerRow
  <2> QED
    BY <1>5, <2>3, <2>4
<1>7. CASE y \notin Touched(ls, q)
  <2>1. Written(y, ls, q) = y
    BY <1>3, <1>7 DEF Written
  <2>2. Took(ls, y, q) = 0
    BY <1>4, <1>7
  <2> QED
    BY <1>1, <1>5, <2>1, <2>2
<1> QED
  BY <1>6, <1>7

\* The cost of what an issue takes.
CostOf(ls, q) == [x \in Open(ls) |-> Taken(ls, x, q) * x.cost]

LEMMA AfterIssueSums ==
    ASSUME NEW ls, NEW n, Layered(ls, n), NEW q \in Nat, NEW after, after = AfterIssue(ls, ls, q)
    PROVE  /\ Quantity(after) = Quantity(ls) - SumFunctionOnSet(TakenBy(ls, q), Open(ls))
           /\ Worth(after) = Worth(ls) - SumFunctionOnSet(CostOf(ls, q), Open(ls))
PROOF
<1> DEFINE f == [y \in ls |-> Written(y, ls, q)]
           t == [y \in ls |-> Took(ls, y, q)]
           c == [y \in ls |-> Took(ls, y, q) * y.cost]
           d == [y \in ls |-> -t[y]]
           e == [y \in ls |-> -c[y]]
<1>1. /\ IsFiniteSet(ls) /\ Quantity(ls) \in Int /\ Worth(ls) \in Int
      /\ \A y \in ls : y.qty \in Int /\ y.cost \in Nat /\ y.qty * y.cost \in Int
  BY LayersHeld
<1>2. \A y \in ls : f[y] \in LayerRow /\ SameLayer(f[y], y) /\ f[y].cost = y.cost /\ f[y].qty = y.qty - Took(ls, y, q)
  BY WrittenOn
<1>3. \A y \in ls : Took(ls, y, q) \in Nat
  BY TookIs
<1>4. \A y \in ls : t[y] \in Int /\ c[y] \in Int
  <2> TAKE y \in ls
  <2>1. Took(ls, y, q) \in Nat /\ y.cost \in Nat
    BY <1>1, <1>3
  <2>2. Took(ls, y, q) * y.cost \in Int
    BY <2>1
  <2> QED
    BY <2>1, <2>2
<1>5. \A y \in ls : t[y] \in Int /\ d[y] \in Int /\ d[y] = -t[y] /\ c[y] \in Int /\ e[y] \in Int /\ e[y] = -c[y]
  <2> HIDE DEF t, c
  <2> QED
    BY <1>4
<1>6. ASSUME NEW y \in ls
      PROVE  f[y].qty = y.qty + d[y] /\ f[y].qty * f[y].cost = y.qty * y.cost + e[y]
  <2>1. f[y].qty = y.qty - Took(ls, y, q) /\ f[y].cost = y.cost
    BY <1>2
  <2>2. t[y] = Took(ls, y, q) /\ c[y] = Took(ls, y, q) * y.cost /\ d[y] = -t[y] /\ e[y] = -c[y]
    OBVIOUS
  <2>3. ASSUME NEW a \in Int, NEW b \in Nat, NEW k \in Nat
        PROVE  (a - b) * k = a * k + (-(b * k)) /\ a - b = a + (-b)
    BY Z3
  <2>4. y.qty \in Int /\ y.cost \in Nat /\ Took(ls, y, q) \in Nat
    BY <1>1, <1>3
  <2> HIDE DEF t, c, d, e, f
  <2>5. (y.qty - Took(ls, y, q)) * y.cost = y.qty * y.cost + (-(Took(ls, y, q) * y.cost))
        /\ y.qty - Took(ls, y, q) = y.qty + (-Took(ls, y, q))
    BY <2>3, <2>4
  <2> QED
    BY <2>1, <2>2, <2>5
<1>7. after = {f[y] : y \in ls}
  BY AfterIssueIs
<1>8. Quantity(after) = Quantity(ls) + SumFunctionOnSet(d, ls) /\ Worth(after) = Worth(ls) + SumFunctionOnSet(e, ls)
  <2>1. f \in [ls -> LayerRow]
    BY <1>2
  <2>2. d \in [ls -> Int] /\ e \in [ls -> Int]
    BY <1>5
  <2>3. \A y \in ls : SameLayer(f[y], y)
    BY <1>2
  <2>4. \A y \in ls : f[y].qty = y.qty + d[y] /\ f[y].qty * f[y].cost = y.qty * y.cost + e[y]
    BY <1>6
  <2>5. Layered(ls, n)
    OBVIOUS
  <2> HIDE DEF f, t, c, d, e
  <2> QED
    BY ONLY <1>7, <2>1, <2>2, <2>3, <2>4, <2>5, EditedSums
<1> HIDE DEF f, d, e
<1>9. SumFunctionOnSet(d, ls) = -SumFunctionOnSet(t, ls) /\ SumFunctionOnSet(e, ls) = -SumFunctionOnSet(c, ls)
  <2> HIDE DEF t, c
  <2> QED
    BY <1>1, <1>5, SumNegate
<1>10. Open(ls) \subseteq ls /\ IsFiniteSet(Open(ls))
  BY OpenIs
<1>11. \A y \in ls \ Open(ls) : t[y] = 0 /\ c[y] = 0
  BY <1>1 DEF Took
<1>12. \A y \in Open(ls) : t[y] = TakenBy(ls, q)[y] /\ c[y] = CostOf(ls, q)[y]
  BY <1>10 DEF Took, TakenBy, CostOf
<1> HIDE DEF t, c
<1>13. SumFunctionOnSet(t, ls) = SumFunctionOnSet(t, Open(ls)) /\ SumFunctionOnSet(c, ls) = SumFunctionOnSet(c, Open(ls))
  BY <1>1, <1>5, <1>10, <1>11, SumRestrict
<1>14. /\ SumFunctionOnSet(t, Open(ls)) = SumFunctionOnSet(TakenBy(ls, q), Open(ls))
       /\ SumFunctionOnSet(c, Open(ls)) = SumFunctionOnSet(CostOf(ls, q), Open(ls))
  BY <1>10, <1>12, SumSame
<1>15. SumFunctionOnSet(t, ls) \in Int /\ SumFunctionOnSet(c, ls) \in Int
  BY <1>1, <1>5, SumInt
<1> QED
  BY <1>1, <1>8, <1>9, <1>13, <1>14, <1>15

\* An issue takes its quantity from the layers, and its amount from what they are worth.
LEMMA IssueSums ==
    ASSUME NEW ls, NEW n, Layered(ls, n), NEW q \in Nat, NEW h \in Nat, NEW id \in Nat, n < id,
           NEW l \in Lines, NEW at \in Nat,
           NEW new, new = AfterIssue(ls, ls, q) \cup ShortfallLayer(id, ls, l, at, q, h)
    PROVE  Quantity(new) = Quantity(ls) - q /\ Worth(new) = Worth(ls) - IssueAmount(ls, q, h)
PROOF
<1>0. SUFFICES ASSUME NEW after, after = AfterIssue(ls, ls, q), NEW short, short = Shortfall(ls, q),
                      NEW cost, cost = ShortfallCost(ls, h),
                      NEW taken, taken = SumFunctionOnSet(TakenBy(ls, q), Open(ls)),
                      NEW value, value = SumFunctionOnSet(CostOf(ls, q), Open(ls))
               PROVE  Quantity(new) = Quantity(ls) - q /\ Worth(new) = Worth(ls) - IssueAmount(ls, q, h)
  OBVIOUS
<1>1. Layered(after, n)
  BY <1>0, AfterIssueLayered
<1>2. Quantity(after) = Quantity(ls) - taken /\ Worth(after) = Worth(ls) - value
  BY <1>0, AfterIssueSums
<1>3. short \in Nat /\ cost \in Nat /\ Quantity(ls) \in Int /\ Worth(ls) \in Int /\ taken + short = q
  BY <1>0, ShortfallIs, ShortfallCostIs, LayersHeld, TakenTotal
<1>4. taken \in Int
  <2>1. IsFiniteSet(Open(ls)) /\ \A x \in Open(ls) : TakenBy(ls, q)[x] \in Int
    BY OpenIs, TakenIs DEF TakenBy
  <2> QED
    BY <1>0, <2>1, SumInt
<1>5. value \in Int /\ IssueAmount(ls, q, h) = value + short * cost
  <2>1. IsFiniteSet(Open(ls))
    BY OpenIs
  <2>2. \A x \in Open(ls) : CostOf(ls, q)[x] \in Int
    <3> TAKE x \in Open(ls)
    <3>1. Taken(ls, x, q) \in Nat /\ x.cost \in Nat
      BY OpenIs, TakenIs
    <3>2. Taken(ls, x, q) * x.cost \in Int
      BY <3>1
    <3> QED
      BY <3>2 DEF CostOf
  <2>3. DOMAIN CostOf(ls, q) = Open(ls)
    BY DEF CostOf
  <2>4. SumFunction(CostOf(ls, q)) = value
    BY <1>0, <2>3 DEF SumFunction
  <2>5. IssueAmount(ls, q, h) = SumFunction(CostOf(ls, q)) + short * cost
    BY <1>0 DEF IssueAmount, CostOf
  <2> QED
    BY <1>0, <2>1, <2>2, <2>4, <2>5, SumInt
<1>6. CASE short = 0
  <2>1. new = after
    BY <1>0, <1>6 DEF ShortfallLayer
  <2>2. short * cost = 0
    BY <1>3, <1>6
  <2> QED
    <3>1. IssueAmount(ls, q, h) = value
      <4> DEFINE z == short * cost
      <4>1. IssueAmount(ls, q, h) = value + z /\ z = 0
        BY <1>5, <2>2
      <4> HIDE DEF z
      <4> QED
        BY <1>5, <4>1
    <3>2. taken = q
      BY <1>3, <1>4, <1>6
    <3> QED
      BY <1>2, <2>1, <3>1, <3>2
<1>7. CASE short # 0
  <2>0. SUFFICES ASSUME NEW x, x = Backorder(id, l, at, short, cost)
                 PROVE  Quantity(new) = Quantity(ls) - q /\ Worth(new) = Worth(ls) - IssueAmount(ls, q, h)
    OBVIOUS
  <2>1. new = after \cup {x}
    BY <1>0, <1>7, <2>0 DEF ShortfallLayer
  <2>2. x \in LayerRow /\ x.id = id /\ x.qty = -short /\ x.cost = cost
    <3>1. -short \in Int
      BY <1>3
    <3> QED
      BY <1>3, <2>0, <3>1 DEF Backorder, LayerRow
  <2>3. x \notin after
    BY <1>1, <2>2 DEF Layered
  <2>4. Quantity(new) = Quantity(after) + x.qty /\ Worth(new) = Worth(after) + x.qty * x.cost
    BY <1>1, <2>1, <2>2, <2>3, AddedSums
  <2>5. ASSUME NEW a \in Nat, NEW b \in Nat
        PROVE  (-a) * b = -(a * b) /\ a * b \in Nat
    BY Z3
  <2>6. x.qty * x.cost = -(short * cost) /\ short * cost \in Nat
    BY <1>3, <2>2, <2>5
  <2> QED
    BY <1>2, <1>3, <1>4, <1>5, <2>2, <2>4, <2>6
<1> QED
  BY <1>6, <1>7

-----------------------------------------------------------------------------
(* What the layers and the consumption rows say of the documents.          *)

\* What line l took from layer x, what x lost, and what x owes for l.
Drawn(tr, l, x) == Quantity({t \in tr : t.line = l /\ t.layer = x.id})
Lost(tr, x) == Quantity({t \in tr : t.layer = x.id})
Owed(x, l) == IF x.kind = "backorder" /\ x.line = l THEN x.qty ELSE 0
Share(tr, l) == [x \in LayerRow |-> Drawn(tr, l, x) - Owed(x, l)]

\* What a line moved, as its document stands.
Flows(row) == IF row.status # "POSTED" THEN 0
              ELSE IF row.type = "receipt" THEN row.qty ELSE IF row.type = "issue" THEN -row.qty ELSE 0
Flow(rows) == [l \in Lines |-> Flows(rows[l])]
Base(ls, o) == IF \E x \in ls : x.kind = "opening" THEN o ELSE 0

Ledger(rows, ls, tr, n) ==
    /\ ReadRows(rows) /\ Layered(ls, n) /\ tr \subseteq TrailRow /\ IsFiniteSet(tr)

\* Layers that say what they lost.
Trailed(rows, x) == x.kind = "opening" \/ (x.kind = "receipt" /\ rows[x.line].status = "POSTED")

TrailFits(rows, tr, n) == \A t \in tr : t.layer <= n /\ rows[t.line].status # "DRAFT"
ReceiptsFit(rows, ls) ==
    /\ \A x \in ls : x.kind = "receipt" =>
         rows[x.line].type = "receipt" /\ rows[x.line].status # "DRAFT" /\ x.received = rows[x.line].qty
    /\ \A l \in Lines : rows[l].type = "receipt" /\ rows[l].status = "POSTED" =>
         \E x \in ls : x.kind = "receipt" /\ x.line = l
OwedFits(rows, ls, tr) ==
    \A x \in ls : x.kind = "backorder" =>
        x.line \in Lines /\ rows[x.line].status # "DRAFT" /\ x.qty < 0 /\ \A t \in tr : t.layer # x.id
LayersTrailed(rows, ls, tr) ==
    \A x \in ls : Trailed(rows, x) => x.received - x.qty = Lost(tr, x)
IssuesDrawn(rows, ls, tr) ==
    \A l \in Lines : rows[l].type = "issue" /\ rows[l].status = "POSTED" =>
        SumFunctionOnSet(Share(tr, l), ls) = rows[l].qty
Conserved(rows, ls, o) == Quantity(ls) = Base(ls, o) + SumFunctionOnSet(Flow(rows), Lines)

Tally(rows, ls, tr, n, o) ==
    /\ TrailFits(rows, tr, n) /\ ReceiptsFit(rows, ls) /\ OwedFits(rows, ls, tr)
    /\ LayersTrailed(rows, ls, tr) /\ IssuesDrawn(rows, ls, tr) /\ Conserved(rows, ls, o)

LEMMA SomeTrail ==
    ASSUME NEW tr, tr \subseteq TrailRow, IsFiniteSet(tr), NEW some, some \subseteq tr
    PROVE  /\ IsFiniteSet(some) /\ some \subseteq Holding /\ Quantity(some) \in Nat
           /\ Quantity(some) = SumFunctionOnSet(Qty, some) /\ Worth(some) = SumFunctionOnSet(Value, some) /\ Worth(some) \in Nat
           /\ \A t \in some : t.qty \in Nat /\ t.cost \in Nat /\ Qty[t] \in Nat /\ Value[t] \in Nat /\ Qty[t] = t.qty /\ Value[t] = t.qty * t.cost
PROOF
<1>1. IsFiniteSet(some) /\ some \subseteq Holding /\ some \subseteq TrailRow
  BY FS_Subset DEF Holding
<1>2. \A t \in some : t.qty \in Nat /\ t.cost \in Nat /\ Qty[t] = t.qty /\ Value[t] = t.qty * t.cost
  BY <1>1, HoldingIs DEF TrailRow
<1>3. \A t \in some : Qty[t] \in Nat /\ Value[t] \in Nat
  <2> TAKE t \in some
  <2>1. t.qty \in Nat /\ t.cost \in Nat
    BY <1>2
  <2>2. t.qty * t.cost \in Nat
    BY <2>1
  <2> QED
    BY <1>2, <2>1, <2>2
<1>4. Quantity(some) = SumFunctionOnSet(Qty, some) /\ Worth(some) = SumFunctionOnSet(Value, some)
  BY <1>1, QuantityIs, WorthIs
<1> QED
  BY <1>1, <1>2, <1>3, <1>4, SumNat

\* Two parts of a trail.
LEMMA TrailSplits ==
    ASSUME NEW tr, tr \subseteq TrailRow, IsFiniteSet(tr), NEW a, NEW b, a \subseteq tr, b \subseteq tr, a \cap b = {}
    PROVE  Quantity(a \cup b) = Quantity(a) + Quantity(b) /\ Worth(a \cup b) = Worth(a) + Worth(b)
PROOF
<1> DEFINE c == a \cup b
<1>1. c \subseteq tr
  OBVIOUS
<1>2. IsFiniteSet(a) /\ Quantity(a) = SumFunctionOnSet(Qty, a) /\ Worth(a) = SumFunctionOnSet(Value, a)
  BY SomeTrail
<1>3. IsFiniteSet(b) /\ Quantity(b) = SumFunctionOnSet(Qty, b) /\ Worth(b) = SumFunctionOnSet(Value, b)
  BY SomeTrail
<1>4. /\ Quantity(c) = SumFunctionOnSet(Qty, c) /\ Worth(c) = SumFunctionOnSet(Value, c)
      /\ \A t \in c : Qty[t] \in Nat /\ Value[t] \in Nat
  <2> HIDE DEF c
  <2> QED
    BY <1>1, SomeTrail
<1>5. \A t \in a \cup b : Qty[t] \in Int /\ Value[t] \in Int
  BY <1>4
<1>6. SumFunctionOnSet(Qty, a \cup b) = SumFunctionOnSet(Qty, a) + SumFunctionOnSet(Qty, b)
  BY <1>2, <1>3, <1>5, SumUnion
<1>7. SumFunctionOnSet(Value, a \cup b) = SumFunctionOnSet(Value, a) + SumFunctionOnSet(Value, b)
  BY <1>2, <1>3, <1>5, SumUnion
<1> QED
  BY <1>2, <1>3, <1>4, <1>6, <1>7

LEMMA NothingDrawn == Quantity({}) = 0 /\ Worth({}) = 0
PROOF
<1>1. IsFiniteSet({}) /\ {} \subseteq Holding
  BY FS_EmptySet
<1> QED
  BY <1>1, QuantityIs, WorthIs, SumEmpty

LEMMA ShareIs ==
    ASSUME NEW tr, tr \subseteq TrailRow, IsFiniteSet(tr), NEW l, NEW x \in LayerRow
    PROVE  /\ Drawn(tr, l, x) \in Nat /\ Lost(tr, x) \in Nat /\ Owed(x, l) \in Int
           /\ Share(tr, l)[x] = Drawn(tr, l, x) - Owed(x, l) /\ Share(tr, l)[x] \in Int
PROOF
<1>1. Drawn(tr, l, x) \in Nat
  BY SomeTrail DEF Drawn
<1>2. Lost(tr, x) \in Nat
  BY SomeTrail DEF Lost
<1>3. Owed(x, l) \in Int
  BY RowIs DEF Owed
<1>4. Share(tr, l)[x] = Drawn(tr, l, x) - Owed(x, l)
  BY DEF Share
<1> QED
  BY <1>1, <1>2, <1>3, <1>4

\* No consumption row has a layer id that was not given yet.
LEMMA FreshDrawn ==
    ASSUME NEW tr, NEW x, \A t \in tr : t.layer # x.id, NEW l
    PROVE  Drawn(tr, l, x) = 0 /\ Lost(tr, x) = 0
PROOF
<1>1. {t \in tr : t.line = l /\ t.layer = x.id} = {} /\ {t \in tr : t.layer = x.id} = {}
  OBVIOUS
<1> QED
  BY <1>1, NothingDrawn DEF Drawn, Lost

LEMMA SharesEdited ==
    ASSUME NEW ls, NEW n, Layered(ls, n), NEW f \in [ls -> LayerRow], \A y \in ls : SameLayer(f[y], y),
           NEW tr, tr \subseteq TrailRow, IsFiniteSet(tr), NEW tr2, NEW l,
           \A y \in ls : Share(tr2, l)[f[y]] = Share(tr, l)[y],
           NEW new, new = {f[y] : y \in ls}
    PROVE  SumFunctionOnSet(Share(tr2, l), new) = SumFunctionOnSet(Share(tr, l), ls)
PROOF
<1> DEFINE F == Share(tr, l)
           G == Share(tr2, l)
<1>1. \A x, y \in ls : f[x] = f[y] => x = y
  BY DEF Layered, SameLayer
<1>2. \A x \in ls : F[x] \in Int /\ G[f[x]] = F[x]
  BY ShareIs DEF Layered
<1>3. IsFiniteSet(ls)
  BY DEF Layered
<1> HIDE DEF F, G
<1>4. SumFunctionOnSet(G, {f[y] : y \in ls}) = SumFunctionOnSet(F, ls)
  BY <1>1, <1>2, <1>3, SumImage
<1> QED
  BY <1>4 DEF F, G

LEMMA SharesAdded ==
    ASSUME NEW ls, NEW n, Layered(ls, n), NEW x \in LayerRow, x \notin ls,
           NEW tr, tr \subseteq TrailRow, IsFiniteSet(tr), NEW l
    PROVE  SumFunctionOnSet(Share(tr, l), ls \cup {x}) = SumFunctionOnSet(Share(tr, l), ls) + Share(tr, l)[x]
PROOF
<1>1. \A y \in ls \cup {x} : Share(tr, l)[y] \in Int
  BY ShareIs DEF Layered
<1>2. IsFiniteSet(ls)
  BY DEF Layered
<1> QED
  BY <1>1, <1>2, SumJoin

LEMMA FlowIs ==
    ASSUME NEW rows \in Rows
    PROVE  /\ \A l \in Lines : Flow(rows)[l] = Flows(rows[l]) /\ Flow(rows)[l] \in Int
           /\ SumFunctionOnSet(Flow(rows), Lines) \in Int
PROOF
<1>1. \A l \in Lines : Flow(rows)[l] = Flows(rows[l])
  BY DEF Flow
<1>2. \A l \in Lines : rows[l].qty \in Nat
  BY DEF Rows, LineRow
<1>3. \A l \in Lines : Flow(rows)[l] \in Int
  BY <1>1, <1>2 DEF Flows
<1>4. SumFunctionOnSet(Flow(rows), Lines) \in Int
  BY <1>3, LinesAssumption, SumInt
<1> QED
  BY <1>1, <1>3, <1>4

LEMMA FlowChanged ==
    ASSUME NEW rows \in Rows, NEW new \in Rows, NEW l \in Lines, \A k \in Lines \ {l} : new[k] = rows[k]
    PROVE  SumFunctionOnSet(Flow(new), Lines) = SumFunctionOnSet(Flow(rows), Lines) - Flows(rows[l]) + Flows(new[l])
PROOF
<1> DEFINE F == Flow(rows)
           G == Flow(new)
<1>1. \A k \in Lines : F[k] \in Int /\ G[k] \in Int
  BY FlowIs
<1>2. \A k \in Lines \ {l} : G[k] = F[k]
  BY DEF Flow
<1>3. F[l] = Flows(rows[l]) /\ G[l] = Flows(new[l])
  BY FlowIs
<1>4. IsFiniteSet(Lines)
  BY LinesAssumption
<1> HIDE DEF F, G
<1>5. SumFunctionOnSet(G, Lines) = SumFunctionOnSet(F, Lines) - F[l] + G[l]
  BY <1>1, <1>2, <1>4, SumChange
<1> QED
  BY <1>3, <1>5 DEF F, G

-----------------------------------------------------------------------------
(* Steps that move nothing.                                                *)

\* Rates and amounts may differ, and what has no movement.
Alike(rows, new) ==
    \A l \in Lines : /\ new[l].type = rows[l].type /\ new[l].qty = rows[l].qty
                     /\ rows[l].status # "DRAFT" => new[l].status # "DRAFT"
                     /\ rows[l].type # "revaluation" => (new[l].status = "POSTED" <=> rows[l].status = "POSTED")

LEMMA AlikeTally ==
    ASSUME NEW rows, NEW ls, NEW tr, NEW n, NEW o, Ledger(rows, ls, tr, n), Tally(rows, ls, tr, n, o),
           NEW new, ReadRows(new), Alike(rows, new)
    PROVE  Tally(new, ls, tr, n, o)
PROOF
<1>1. /\ \A x \in ls : x.kind = "receipt" => x.line \in Lines
      /\ \A t \in tr : t.line \in Lines
      /\ \A l \in Lines : rows[l].type \in {"receipt", "issue", "revaluation"}
      /\ rows \in Rows /\ new \in Rows
  BY DEF Ledger, ReadRows, Rows, LineRow, Layered, TrailRow
<1>2. TrailFits(new, tr, n)
  BY <1>1 DEF Tally, TrailFits, Alike
<1>3. ReceiptsFit(new, ls)
  <2>1. ASSUME NEW x \in ls, x.kind = "receipt"
        PROVE  new[x.line].type = "receipt" /\ new[x.line].status # "DRAFT" /\ x.received = new[x.line].qty
    BY <1>1, <2>1 DEF Tally, ReceiptsFit, Alike
  <2>2. ASSUME NEW l \in Lines, new[l].type = "receipt" /\ new[l].status = "POSTED"
        PROVE  \E x \in ls : x.kind = "receipt" /\ x.line = l
    BY <2>2 DEF Tally, ReceiptsFit, Alike
  <2> QED
    BY <2>1, <2>2 DEF ReceiptsFit
<1>4. OwedFits(new, ls, tr)
  BY DEF Tally, OwedFits, Alike
<1>5. LayersTrailed(new, ls, tr)
  <2> SUFFICES ASSUME NEW x \in ls, Trailed(new, x) PROVE x.received - x.qty = Lost(tr, x)
    BY DEF LayersTrailed
  <2>1. Trailed(rows, x)
    BY <1>1 DEF Trailed, Alike, Tally, ReceiptsFit
  <2> QED
    BY <2>1 DEF Tally, LayersTrailed
<1>6. IssuesDrawn(new, ls, tr)
  BY DEF Tally, IssuesDrawn, Alike
<1>7. Conserved(new, ls, o)
  <2>1. \A l \in Lines : Flow(new)[l] = Flow(rows)[l]
    BY <1>1, FlowIs DEF Flows, Alike
  <2>2. SumFunctionOnSet(Flow(new), Lines) = SumFunctionOnSet(Flow(rows), Lines)
    BY <2>1, LinesAssumption, SumSame
  <2> QED
    BY <2>2 DEF Tally, Conserved
<1> QED
  BY <1>2, <1>3, <1>4, <1>5, <1>6, <1>7 DEF Tally

\* Only costs of layers change.
LEMMA CostsTally ==
    ASSUME NEW rows, NEW ls, NEW tr, NEW n, NEW o, Ledger(rows, ls, tr, n), Tally(rows, ls, tr, n, o),
           NEW f \in [ls -> LayerRow], \A y \in ls : SameLayer(f[y], y) /\ f[y].qty = y.qty,
           NEW new, new = {f[y] : y \in ls}
    PROVE  Tally(rows, new, tr, n, o)
PROOF
<1>1. Layered(ls, n) /\ tr \subseteq TrailRow /\ IsFiniteSet(tr)
  BY DEF Ledger
<1>2. \A x \in new : \E y \in ls : x = f[y] /\ SameLayer(x, y) /\ x.qty = y.qty
  OBVIOUS
<1>3. \A y \in ls : \E x \in new : x = f[y] /\ SameLayer(x, y)
  OBVIOUS
<1>4. ReceiptsFit(rows, new)
  BY <1>2, <1>3 DEF Tally, ReceiptsFit, SameLayer
<1>5. OwedFits(rows, new, tr)
  BY <1>2 DEF Tally, OwedFits, SameLayer
<1>6. LayersTrailed(rows, new, tr)
  <2> SUFFICES ASSUME NEW x \in new, Trailed(rows, x) PROVE x.received - x.qty = Lost(tr, x)
    BY DEF LayersTrailed
  <2>1. PICK y \in ls : x = f[y] /\ SameLayer(x, y) /\ x.qty = y.qty
    BY <1>2
  <2>2. Trailed(rows, y) /\ x.received = y.received /\ x.id = y.id
    BY <2>1 DEF Trailed, SameLayer
  <2>3. Lost(tr, x) = Lost(tr, y)
    BY <2>2 DEF Lost
  <2> QED
    BY <2>1, <2>2, <2>3 DEF Tally, LayersTrailed
<1>7. IssuesDrawn(rows, new, tr)
  <2> SUFFICES ASSUME NEW l \in Lines, rows[l].type = "issue", rows[l].status = "POSTED"
               PROVE  SumFunctionOnSet(Share(tr, l), new) = rows[l].qty
    BY DEF IssuesDrawn
  <2>1. \A y \in ls : Share(tr, l)[f[y]] = Share(tr, l)[y]
    <3> TAKE y \in ls
    <3>1. f[y] \in LayerRow /\ y \in LayerRow /\ SameLayer(f[y], y) /\ f[y].qty = y.qty
      BY <1>1 DEF Layered
    <3>2. Drawn(tr, l, f[y]) = Drawn(tr, l, y) /\ Owed(f[y], l) = Owed(y, l)
      BY <3>1 DEF Drawn, Owed, SameLayer
    <3> QED
      BY <3>1, <3>2 DEF Share
  <2>2. SumFunctionOnSet(Share(tr, l), new) = SumFunctionOnSet(Share(tr, l), ls)
    BY <1>1, <2>1, SharesEdited
  <2> QED
    BY <2>2 DEF Tally, IssuesDrawn
<1>8. Conserved(rows, new, o)
  <2>1. Quantity(new) = Quantity(ls)
    <3>1. /\ ls \subseteq Holding /\ IsFiniteSet(ls) /\ Quantity(ls) = SumFunctionOnSet(Qty, ls)
          /\ \A y \in ls : y.qty \in Int /\ Qty[y] = y.qty
      BY <1>1, LayersHeld
    <3>2. IsFiniteSet(new) /\ new \subseteq Holding
      BY <3>1, ImageFinite DEF Holding
    <3>3. \A y \in ls : Qty[y] \in Int /\ Qty[f[y]] = Qty[y]
      BY <3>1, HoldingIs DEF Holding
    <3>4. \A x, y \in ls : f[x] = f[y] => x = y
      BY <1>1 DEF Layered, SameLayer
    <3>5. SumFunctionOnSet(Qty, {f[y] : y \in ls}) = SumFunctionOnSet(Qty, ls)
      BY <3>1, <3>3, <3>4, SumImage
    <3> QED
      BY <3>1, <3>2, <3>5, QuantityIs
  <2>2. Base(new, o) = Base(ls, o)
    BY <1>2, <1>3 DEF Base, SameLayer
  <2> QED
    BY <2>1, <2>2 DEF Tally, Conserved
<1> QED
  BY <1>4, <1>5, <1>6, <1>7, <1>8 DEF Tally

\* Ids go by unused; consumption rows of deleted layers stay.
LEMMA OlderTally ==
    ASSUME NEW rows, NEW ls, NEW tr, NEW n, NEW o, Ledger(rows, ls, tr, n), Tally(rows, ls, tr, n, o),
           NEW m \in Nat, n <= m, NEW old, old \subseteq TrailRow, IsFiniteSet(old),
           \A t \in old : t.layer <= m /\ rows[t.line].status # "DRAFT" /\ \A x \in ls : t.layer # x.id
    PROVE  Tally(rows, ls, old \cup tr, m, o)
PROOF
<1>1. Layered(ls, n) /\ tr \subseteq TrailRow /\ IsFiniteSet(tr) /\ n \in Nat /\ \A t \in tr : t.layer \in Nat
  BY DEF Ledger, Layered, TrailRow
<1>2. TrailFits(rows, old \cup tr, m)
  BY <1>1 DEF Tally, TrailFits
<1>3. OwedFits(rows, ls, old \cup tr)
  BY DEF Tally, OwedFits
<1>4. ASSUME NEW x \in ls, NEW l
      PROVE  Drawn(old \cup tr, l, x) = Drawn(tr, l, x) /\ Lost(old \cup tr, x) = Lost(tr, x)
  <2>1. /\ {t \in old \cup tr : t.line = l /\ t.layer = x.id} = {t \in tr : t.line = l /\ t.layer = x.id}
        /\ {t \in old \cup tr : t.layer = x.id} = {t \in tr : t.layer = x.id}
    OBVIOUS
  <2> QED
    BY <2>1 DEF Drawn, Lost
<1>5. LayersTrailed(rows, ls, old \cup tr)
  BY <1>4 DEF Tally, LayersTrailed
<1>6. IssuesDrawn(rows, ls, old \cup tr)
  <2> SUFFICES ASSUME NEW l \in Lines, rows[l].type = "issue", rows[l].status = "POSTED"
               PROVE  SumFunctionOnSet(Share(old \cup tr, l), ls) = rows[l].qty
    BY DEF IssuesDrawn
  <2>1. \A x \in ls : Share(old \cup tr, l)[x] = Share(tr, l)[x]
    BY <1>1, <1>4 DEF Share, Layered
  <2>2. IsFiniteSet(ls)
    BY <1>1 DEF Layered
  <2>3. SumFunctionOnSet(Share(old \cup tr, l), ls) = SumFunctionOnSet(Share(tr, l), ls)
    BY ONLY <2>1, <2>2, SumSame
  <2> QED
    BY <2>3 DEF Tally, IssuesDrawn
<1> QED
  BY <1>2, <1>3, <1>5, <1>6 DEF Tally

-----------------------------------------------------------------------------
(* The opening is seeded; a receipt is posted.                             *)

\* A layer with a new id.
LEMMA OpenedShares ==
    ASSUME NEW rows, NEW ls, NEW tr, NEW n, Ledger(rows, ls, tr, n), TrailFits(rows, tr, n),
           NEW x \in LayerRow, n < x.id
    PROVE  /\ x \notin ls /\ Lost(tr, x) = 0 /\ \A t \in tr : t.layer # x.id
           /\ \A l : Drawn(tr, l, x) = 0
           /\ \A l : SumFunctionOnSet(Share(tr, l), ls \cup {x}) = SumFunctionOnSet(Share(tr, l), ls) - Owed(x, l)
           /\ Quantity(ls \cup {x}) = Quantity(ls) + x.qty
PROOF
<1>1. Layered(ls, n) /\ tr \subseteq TrailRow /\ IsFiniteSet(tr) /\ n \in Nat /\ x.id \in Nat
  BY RowIs DEF Ledger, Layered
<1>2. \A y \in ls : y.id \in Nat /\ y.id <= n
  BY <1>1, RowIs DEF Layered
<1>3. x \notin ls
  BY <1>1, <1>2
<1>4. \A t \in tr : t.layer # x.id
  BY <1>1 DEF TrailFits, TrailRow
<1>5. ASSUME NEW l
      PROVE  /\ Drawn(tr, l, x) = 0 /\ Lost(tr, x) = 0
             /\ SumFunctionOnSet(Share(tr, l), ls \cup {x}) = SumFunctionOnSet(Share(tr, l), ls) - Owed(x, l)
  <2>1. Drawn(tr, l, x) = 0 /\ Lost(tr, x) = 0
    BY <1>4, FreshDrawn
  <2>2. SumFunctionOnSet(Share(tr, l), ls \cup {x}) = SumFunctionOnSet(Share(tr, l), ls) + Share(tr, l)[x]
    <3>1. Layered(ls, n) /\ tr \subseteq TrailRow /\ IsFiniteSet(tr)
      BY <1>1
    <3> QED
      BY ONLY <1>3, <3>1, x \in LayerRow, SharesAdded
  <2>3. Share(tr, l)[x] = Drawn(tr, l, x) - Owed(x, l) /\ Owed(x, l) \in Int
    BY <1>1, ShareIs
  <2>4. SumFunctionOnSet(Share(tr, l), ls) \in Int
    <3>1. \A y \in ls : Share(tr, l)[y] \in Int
      BY <1>1, ShareIs DEF Layered
    <3>2. IsFiniteSet(ls)
      BY <1>1 DEF Layered
    <3> QED
      BY <3>1, <3>2, SumInt
  <2> QED
    BY <2>1, <2>2, <2>3, <2>4
<1>6. Quantity(ls \cup {x}) = Quantity(ls) + x.qty
  BY <1>1, <1>3, AddedSums
<1> QED
  BY <1>3, <1>4, <1>5, <1>6

LEMMA SeedTally ==
    ASSUME NEW rows, NEW ls, NEW tr, NEW n, Ledger(rows, ls, tr, n), Tally(rows, ls, tr, n, opening),
           opening \in Openings, MustSeed(ls), NEW id, id = n + 1
    PROVE  Tally(rows, Seeded(ls, id), tr, id, opening)
PROOF
<1>0. SUFFICES ASSUME NEW x, x = OpeningLayer(id), NEW new, new = ls \cup {x}
               PROVE  Tally(rows, new, tr, id, opening)
  BY DEF Seeded, MustSeed
<1>1. n \in Nat /\ id \in Nat /\ n < id /\ opening \in Nat
  BY DataAssumption DEF Ledger, Layered
<1>2. /\ x \in LayerRow /\ x.id = id /\ x.kind = "opening" /\ x.qty = opening /\ x.received = opening
  BY <1>0, <1>1, OpeningLayerIs
<1>3. TrailFits(rows, tr, id)
  BY <1>1 DEF Tally, TrailFits, Ledger, TrailRow
<1>4. /\ Lost(tr, x) = 0
      /\ \A l : SumFunctionOnSet(Share(tr, l), new) = SumFunctionOnSet(Share(tr, l), ls) - Owed(x, l)
      /\ Quantity(new) = Quantity(ls) + opening
  <2>1. TrailFits(rows, tr, n) /\ n < x.id
    BY <1>1, <1>2 DEF Tally
  <2>2. /\ Lost(tr, x) = 0
        /\ \A l : SumFunctionOnSet(Share(tr, l), ls \cup {x}) = SumFunctionOnSet(Share(tr, l), ls) - Owed(x, l)
        /\ Quantity(ls \cup {x}) = Quantity(ls) + x.qty
    BY <1>2, <2>1, OpenedShares
  <2> QED
    BY <1>0, <1>2, <2>2
<1>5. ReceiptsFit(rows, new)
  BY <1>0, <1>2 DEF Tally, ReceiptsFit
<1>6. OwedFits(rows, new, tr)
  BY <1>0, <1>2 DEF Tally, OwedFits
<1>7. LayersTrailed(rows, new, tr)
  BY <1>0, <1>1, <1>2, <1>4 DEF Tally, LayersTrailed
<1>8. IssuesDrawn(rows, new, tr)
  <2> SUFFICES ASSUME NEW l \in Lines, rows[l].type = "issue", rows[l].status = "POSTED"
               PROVE  SumFunctionOnSet(Share(tr, l), new) = rows[l].qty
    BY DEF IssuesDrawn
  <2>1. SumFunctionOnSet(Share(tr, l), ls) = rows[l].qty /\ rows[l].qty \in Nat
    BY DEF Tally, IssuesDrawn, Ledger, ReadRows, Rows, LineRow
  <2>2. Owed(x, l) = 0
    BY <1>2 DEF Owed
  <2>3. SumFunctionOnSet(Share(tr, l), new) = rows[l].qty - Owed(x, l)
    BY <1>4, <2>1
  <2> QED
    BY <2>1, <2>2, <2>3
<1>9. Conserved(rows, new, opening)
  <2>1. Base(ls, opening) = 0
    BY DEF Base, MustSeed
  <2>2. Base(new, opening) = opening
    BY <1>0, <1>2 DEF Base
  <2>3. SumFunctionOnSet(Flow(rows), Lines) \in Int
    BY FlowIs DEF Ledger, ReadRows
  <2> QED
    BY <1>1, <1>4, <2>1, <2>2, <2>3 DEF Tally, Conserved
<1> QED
  BY <1>3, <1>5, <1>6, <1>7, <1>8, <1>9 DEF Tally

\* One document changes its status.
RowMoved(rows, new, l, status) ==
    /\ \A k \in Lines \ {l} : new[k] = rows[k]
    /\ new[l].type = rows[l].type /\ new[l].qty = rows[l].qty /\ new[l].status = status

LEMMA ReceiptTally ==
    ASSUME NEW rows, NEW ls, NEW tr, NEW n, NEW o \in Nat, Ledger(rows, ls, tr, n), Tally(rows, ls, tr, n, o),
           NEW l \in Lines, rows[l].type = "receipt", rows[l].status = "DRAFT",
           NEW rows2, ReadRows(rows2), RowMoved(rows, rows2, l, "POSTED"),
           NEW id \in Nat, n < id, NEW at \in Nat, NEW cost \in Nat, NEW new, new = ls \cup {ReceiptLayer(id, l, at, rows[l].qty, cost)}
    PROVE  Tally(rows2, new, tr, id, o)
PROOF
<1>0. SUFFICES ASSUME NEW q, q = rows[l].qty, NEW x, x = ReceiptLayer(id, l, at, q, cost)
               PROVE  Tally(rows2, new, tr, id, o)
  OBVIOUS
<1>1. n \in Nat /\ q \in Nat /\ rows \in Rows /\ rows2 \in Rows /\ Layered(ls, n)
  BY <1>0 DEF Ledger, Layered, ReadRows, Rows, LineRow
<1>2. /\ x \in LayerRow /\ x.id = id /\ x.kind = "receipt" /\ x.line = l /\ x.qty = q /\ x.received = q
  <2>1. id \in Nat /\ l \in Lines /\ at \in Nat /\ cost \in Nat /\ q \in Nat
    BY <1>1
  <2> QED
    BY <1>0, <2>1 DEF ReceiptLayer, LayerRow
<1>3. /\ Lost(tr, x) = 0
      /\ \A k : SumFunctionOnSet(Share(tr, k), new) = SumFunctionOnSet(Share(tr, k), ls) - Owed(x, k)
      /\ Quantity(new) = Quantity(ls) + q
  <2>1. TrailFits(rows, tr, n) /\ n < x.id
    BY <1>1, <1>2 DEF Tally
  <2>2. /\ Lost(tr, x) = 0
        /\ \A k : SumFunctionOnSet(Share(tr, k), ls \cup {x}) = SumFunctionOnSet(Share(tr, k), ls) - Owed(x, k)
        /\ Quantity(ls \cup {x}) = Quantity(ls) + x.qty
    BY <1>2, <2>1, OpenedShares
  <2> QED
    BY <1>0, <1>2, <2>2
<1>4. /\ \A k \in Lines : rows[k].status # "DRAFT" => k # l /\ rows2[k] = rows[k]
      /\ rows2[l].type = "receipt" /\ rows2[l].status = "POSTED" /\ rows2[l].qty = q
      /\ \A k \in Lines : k # l => rows2[k] = rows[k]
  BY <1>0 DEF RowMoved
<1>5. \A t \in tr : t.line \in Lines /\ t.layer \in Nat
  BY DEF Ledger, TrailRow
<1>6. TrailFits(rows2, tr, id)
  <2> SUFFICES ASSUME NEW t \in tr PROVE t.layer <= id /\ rows2[t.line].status # "DRAFT"
    BY DEF TrailFits
  <2>1. t.layer <= n /\ rows[t.line].status # "DRAFT"
    BY DEF Tally, TrailFits
  <2> QED
    BY <1>1, <1>4, <1>5, <2>1
<1>7. \A y \in ls : y.kind = "receipt" => y.line \in Lines /\ y.line # l /\ rows2[y.line] = rows[y.line]
  BY <1>1, <1>4 DEF Layered, Tally, ReceiptsFit
<1>8. ReceiptsFit(rows2, new)
  <2>1. ASSUME NEW y \in new, y.kind = "receipt"
        PROVE  rows2[y.line].type = "receipt" /\ rows2[y.line].status # "DRAFT" /\ y.received = rows2[y.line].qty
    <3>1. CASE y \in ls
      BY <1>7, <2>1, <3>1 DEF Tally, ReceiptsFit
    <3>2. CASE y = x
      BY <1>2, <1>4, <3>2
    <3> QED
      BY <1>0, <3>1, <3>2
  <2>2. ASSUME NEW k \in Lines, rows2[k].type = "receipt", rows2[k].status = "POSTED"
        PROVE  \E y \in new : y.kind = "receipt" /\ y.line = k
    <3>1. CASE k = l
      BY <1>0, <1>2, <3>1
    <3>2. CASE k # l
      BY <1>0, <1>4, <2>2, <3>2 DEF Tally, ReceiptsFit
    <3> QED
      BY <3>1, <3>2
  <2> QED
    BY <2>1, <2>2 DEF ReceiptsFit
<1>9. OwedFits(rows2, new, tr)
  <2> SUFFICES ASSUME NEW y \in new, y.kind = "backorder"
               PROVE  y.line \in Lines /\ rows2[y.line].status # "DRAFT" /\ y.qty < 0 /\ \A t \in tr : t.layer # y.id
    BY DEF OwedFits
  <2>1. y \in ls
    BY <1>0, <1>2
  <2> QED
    BY <1>4, <2>1 DEF Tally, OwedFits
<1>10. LayersTrailed(rows2, new, tr)
  <2> SUFFICES ASSUME NEW y \in new, Trailed(rows2, y) PROVE y.received - y.qty = Lost(tr, y)
    BY DEF LayersTrailed
  <2>1. CASE y \in ls
    <3>1. Trailed(rows, y)
      BY <1>7, <2>1 DEF Trailed
    <3> QED
      BY <2>1, <3>1 DEF Tally, LayersTrailed
  <2>2. CASE y = x
    BY <1>1, <1>2, <1>3, <2>2
  <2> QED
    BY <1>0, <2>1, <2>2
<1>11. IssuesDrawn(rows2, new, tr)
  <2> SUFFICES ASSUME NEW k \in Lines, rows2[k].type = "issue", rows2[k].status = "POSTED"
               PROVE  SumFunctionOnSet(Share(tr, k), new) = rows2[k].qty
    BY DEF IssuesDrawn
  <2>1. rows2[k] = rows[k]
    BY <1>4
  <2>2. SumFunctionOnSet(Share(tr, k), ls) = rows[k].qty /\ rows[k].qty \in Nat
    BY <1>1, <2>1 DEF Tally, IssuesDrawn, Rows, LineRow
  <2>3. Owed(x, k) = 0
    BY <1>2 DEF Owed
  <2>4. SumFunctionOnSet(Share(tr, k), new) = rows[k].qty - Owed(x, k)
    BY <1>3, <2>2
  <2> QED
    BY <2>1, <2>2, <2>3, <2>4
<1>12. Conserved(rows2, new, o)
  <2>1. Base(new, o) = Base(ls, o)
    BY <1>0, <1>2 DEF Base
  <2>2. SumFunctionOnSet(Flow(rows2), Lines) = SumFunctionOnSet(Flow(rows), Lines) - Flows(rows[l]) + Flows(rows2[l])
    BY <1>1, <1>4, FlowChanged
  <2>3. Flows(rows[l]) = 0 /\ Flows(rows2[l]) = q
    BY <1>4 DEF Flows
  <2>4. SumFunctionOnSet(Flow(rows), Lines) \in Int /\ Base(ls, o) \in Int
    BY <1>1, FlowIs DEF Base
  <2>5. Quantity(ls) = Base(ls, o) + SumFunctionOnSet(Flow(rows), Lines)
    BY DEF Tally, Conserved
  <2> QED
    BY <1>1, <1>3, <2>1, <2>2, <2>3, <2>4, <2>5 DEF Conserved
<1> QED
  BY <1>6, <1>8, <1>9, <1>10, <1>11, <1>12 DEF Tally

-----------------------------------------------------------------------------
(* An issue is posted.                                                     *)

LEMMA OneTrail ==
    ASSUME NEW t \in TrailRow
    PROVE  Quantity({t}) = t.qty /\ Worth({t}) = t.qty * t.cost
PROOF
<1>1. t \in Holding /\ {t} \subseteq Holding
  BY DEF Holding
<1>2. IsFiniteSet({t}) /\ IsFiniteSet({}) /\ {t} = {} \cup {t}
  BY FS_Singleton, FS_EmptySet
<1>3. Qty[t] = t.qty /\ Value[t] = t.qty * t.cost /\ t.qty \in Int /\ t.qty * t.cost \in Int
  BY <1>1, HoldingIs
<1>4. Quantity({t}) = SumFunctionOnSet(Qty, {t}) /\ Worth({t}) = SumFunctionOnSet(Value, {t})
  BY <1>1, <1>2, QuantityIs, WorthIs
<1>5. \A y \in {} \cup {t} : Qty[y] \in Int /\ Value[y] \in Int
  BY <1>3
<1>6. /\ SumFunctionOnSet(Qty, {} \cup {t}) = SumFunctionOnSet(Qty, {}) + Qty[t]
      /\ SumFunctionOnSet(Value, {} \cup {t}) = SumFunctionOnSet(Value, {}) + Value[t]
  BY <1>2, <1>5, SumJoin
<1>7. SumFunctionOnSet(Qty, {}) = 0 /\ SumFunctionOnSet(Value, {}) = 0
  BY SumEmpty
<1> QED
  BY <1>2, <1>3, <1>4, <1>6, <1>7

\* The consumption rows an issue adds.
LEMMA ConsumedIs ==
    ASSUME NEW ls, NEW n, Layered(ls, n), NEW l \in Lines, NEW q \in Nat, NEW y \in ls,
           NEW some, some = {t \in Consumptions(ls, l, q) : t.layer = y.id}
    PROVE  Quantity(some) = Took(ls, y, q) /\ Worth(some) = Took(ls, y, q) * y.cost
PROOF
<1>1. Took(ls, y, q) \in Nat /\ (Took(ls, y, q) > 0 <=> y \in Touched(ls, q)) /\ y.cost \in Nat
  BY TookIs, LayersHeld
<1>2. Touched(ls, q) \subseteq ls /\ \A x \in Touched(ls, q) : x.id = y.id => x = y
  BY DEF Touched, Open, Layered
<1>3. \A t \in Consumptions(ls, l, q) : \E x \in Touched(ls, q) :
         t = [layer |-> x.id, line |-> l, qty |-> Taken(ls, x, q), cost |-> x.cost]
  BY DEF Consumptions
<1>4. CASE y \in Touched(ls, q)
  <2>0. SUFFICES ASSUME NEW t, t = [layer |-> y.id, line |-> l, qty |-> Taken(ls, y, q), cost |-> y.cost]
                 PROVE  Quantity(some) = Took(ls, y, q) /\ Worth(some) = Took(ls, y, q) * y.cost
    OBVIOUS
  <2>1. t \in Consumptions(ls, l, q)
    BY <1>4, <2>0 DEF Consumptions
  <2>2. some = {t}
    <3>1. t \in some
      BY <2>0, <2>1
    <3>2. ASSUME NEW u \in some PROVE u = t
      <4>1. PICK x \in Touched(ls, q) : u = [layer |-> x.id, line |-> l, qty |-> Taken(ls, x, q), cost |-> x.cost]
        BY <1>3
      <4>2. x = y
        BY <1>2, <4>1
      <4> QED
        BY <2>0, <4>1, <4>2
    <3> QED
      BY <3>1, <3>2
  <2>3. Took(ls, y, q) = Taken(ls, y, q)
    BY <1>4 DEF Took, Touched
  <2>4. t \in TrailRow
    BY <2>1, ConsumptionsAre
  <2>5. t.qty = Took(ls, y, q) /\ t.cost = y.cost
    BY <2>0, <2>3
  <2> QED
    BY <2>2, <2>4, <2>5, OneTrail
<1>5. CASE y \notin Touched(ls, q)
  <2>1. some = {}
    BY <1>2, <1>3, <1>5
  <2>2. Took(ls, y, q) = 0
    BY <1>1, <1>5
  <2>3. Took(ls, y, q) * y.cost = 0
    BY <1>1, <2>2
  <2> QED
    BY <2>1, <2>2, <2>3, NothingDrawn
<1> QED
  BY <1>4, <1>5

LEMMA ConsumedFrom ==
    ASSUME NEW ls, NEW n, Layered(ls, n), NEW tr, tr \subseteq TrailRow, IsFiniteSet(tr),
           NEW l \in Lines, \A t \in tr : t.line # l, NEW q \in Nat,
           NEW tr2, tr2 = tr \cup Consumptions(ls, l, q), NEW y \in ls
    PROVE  /\ Lost(tr2, y) = Lost(tr, y) + Took(ls, y, q)
           /\ Drawn(tr2, l, y) = Took(ls, y, q)
           /\ \A k : k # l => Drawn(tr2, k, y) = Drawn(tr, k, y)
PROOF
<1>0. SUFFICES ASSUME NEW C, C = Consumptions(ls, l, q), NEW some, some = {t \in C : t.layer = y.id},
                      NEW old, old = {t \in tr : t.layer = y.id}
               PROVE  /\ Lost(tr2, y) = Lost(tr, y) + Took(ls, y, q)
                      /\ Drawn(tr2, l, y) = Took(ls, y, q)
                      /\ \A k : k # l => Drawn(tr2, k, y) = Drawn(tr, k, y)
  OBVIOUS
<1>1. C \subseteq TrailRow /\ IsFiniteSet(C) /\ \A t \in C : t.line = l
  BY <1>0, ConsumptionsAre
<1>2. tr2 \subseteq TrailRow /\ IsFiniteSet(tr2) /\ tr2 = tr \cup C
  BY <1>0, <1>1, FS_Union
<1>3. Quantity(some) = Took(ls, y, q)
  BY <1>0, ConsumedIs
<1>4. {t \in tr2 : t.layer = y.id} = old \cup some /\ old \subseteq tr2 /\ some \subseteq tr2 /\ old \cap some = {}
  BY <1>0, <1>1, <1>2
<1>5. Quantity(old \cup some) = Quantity(old) + Quantity(some)
  BY <1>2, <1>4, TrailSplits
<1>6. {t \in tr2 : t.line = l /\ t.layer = y.id} = some
  BY <1>0, <1>1, <1>2
<1>7. \A k : k # l => {t \in tr2 : t.line = k /\ t.layer = y.id} = {t \in tr : t.line = k /\ t.layer = y.id}
  BY <1>1, <1>2
<1> QED
  BY <1>0, <1>3, <1>4, <1>5, <1>6, <1>7 DEF Lost, Drawn

\* The sum of what is taken, over all layers.
LEMMA TookTotal ==
    ASSUME NEW ls, NEW n, Layered(ls, n), NEW q \in Nat, NEW F, \A y \in ls : F[y] = Took(ls, y, q)
    PROVE  SumFunctionOnSet(F, ls) + Shortfall(ls, q) = q
PROOF
<1>1. IsFiniteSet(ls) /\ Open(ls) \subseteq ls /\ IsFiniteSet(Open(ls))
  BY OpenIs DEF Layered
<1>2. \A y \in ls : F[y] \in Int
  BY TookIs
<1>3. \A y \in ls \ Open(ls) : F[y] = 0
  BY DEF Took
<1>4. \A y \in Open(ls) : F[y] = TakenBy(ls, q)[y]
  BY <1>1 DEF Took, TakenBy
<1>5. SumFunctionOnSet(F, ls) = SumFunctionOnSet(F, Open(ls))
  BY <1>1, <1>2, <1>3, SumRestrict
<1>6. SumFunctionOnSet(F, Open(ls)) = SumFunctionOnSet(TakenBy(ls, q), Open(ls))
  BY <1>1, <1>4, SumSame
<1> QED
  BY <1>5, <1>6, TakenTotal

\* The layers after an issue, before its shortfall is added.
LEMMA IssueWrites ==
    ASSUME NEW ls, NEW n, Layered(ls, n), NEW q \in Nat, NEW after, after = AfterIssue(ls, ls, q)
    PROVE  \E f \in [ls -> LayerRow] :
             /\ after = {f[y] : y \in ls}
             /\ \A y \in ls : SameLayer(f[y], y) /\ f[y].cost = y.cost /\ f[y].qty = y.qty - Took(ls, y, q)
PROOF
<1> DEFINE f == [y \in ls |-> Written(y, ls, q)]
<1>1. \A y \in ls : /\ f[y] \in LayerRow /\ SameLayer(f[y], y) /\ f[y].cost = y.cost
                    /\ f[y].qty = y.qty - Took(ls, y, q)
  BY WrittenOn
<1>2. f \in [ls -> LayerRow]
  BY <1>1
<1>3. after = {f[y] : y \in ls}
  BY AfterIssueIs
<1> HIDE DEF f
<1> QED
  BY <1>1, <1>2, <1>3

LEMMA IssueTally ==
    ASSUME NEW rows, NEW ls, NEW tr, NEW n, NEW o \in Nat, Ledger(rows, ls, tr, n), Tally(rows, ls, tr, n, o),
           NEW l \in Lines, rows[l].type = "issue", rows[l].status = "DRAFT",
           NEW rows2, ReadRows(rows2), RowMoved(rows, rows2, l, "POSTED"),
           NEW id \in Nat, n < id, NEW at \in Nat, NEW h \in Nat, NEW q, q = rows[l].qty,
           NEW new, new = AfterIssue(ls, ls, q) \cup ShortfallLayer(id, ls, l, at, q, h),
           NEW tr2, tr2 = tr \cup Consumptions(ls, l, q)
    PROVE  Tally(rows2, new, tr2, id, o)
PROOF
<1>0. SUFFICES ASSUME NEW after, after = AfterIssue(ls, ls, q), NEW short, short = Shortfall(ls, q),
                      NEW S, S = ShortfallLayer(id, ls, l, at, q, h), NEW C, C = Consumptions(ls, l, q)
               PROVE  Tally(rows2, new, tr2, id, o)
  OBVIOUS
<1>1. /\ n \in Nat /\ q \in Nat /\ rows \in Rows /\ rows2 \in Rows /\ Layered(ls, n)
      /\ tr \subseteq TrailRow /\ IsFiniteSet(tr) /\ \A y \in ls : y \in LayerRow /\ y.qty \in Int
  BY LayersHeld DEF Ledger, Layered, ReadRows, Rows, LineRow
<1>2. /\ \A k \in Lines : rows[k].status # "DRAFT" => k # l /\ rows2[k] = rows[k]
      /\ rows2[l].type = "issue" /\ rows2[l].status = "POSTED" /\ rows2[l].qty = q
      /\ \A k \in Lines : k # l => rows2[k] = rows[k]
  BY DEF RowMoved
<1>3. new = after \cup S /\ tr2 = tr \cup C
  BY <1>0
<1>4. /\ C \subseteq TrailRow /\ IsFiniteSet(C) /\ \A t \in C : t.line = l /\ t.layer \in 1..n
  BY <1>0, <1>1, ConsumptionsAre
<1>5. tr2 \subseteq TrailRow /\ IsFiniteSet(tr2)
  <2>1. IsFiniteSet(tr \cup C)
    BY <1>1, <1>4, FS_Union
  <2> QED
    BY <1>1, <1>3, <1>4, <2>1
<1>6. \A t \in tr : t.line \in Lines /\ t.line # l /\ t.layer \in Nat /\ t.layer <= n /\ rows2[t.line].status # "DRAFT"
  BY <1>1, <1>2 DEF Tally, TrailFits, TrailRow
<1>7. TrailFits(rows2, tr2, n)
  BY <1>1, <1>2, <1>3, <1>4, <1>6 DEF TrailFits
<1>8. TrailFits(rows2, tr2, id)
  BY <1>1, <1>5, <1>7 DEF TrailFits, TrailRow
<1>9. PICK f \in [ls -> LayerRow] :
        /\ after = {f[y] : y \in ls}
        /\ \A y \in ls : SameLayer(f[y], y) /\ f[y].cost = y.cost /\ f[y].qty = y.qty - Took(ls, y, q)
  <2>1. Layered(ls, n) /\ q \in Nat /\ after = AfterIssue(ls, ls, q)
    BY <1>0, <1>1
  <2> QED
    BY ONLY <2>1, IssueWrites
<1>10. \A y \in ls : /\ Lost(tr2, y) = Lost(tr, y) + Took(ls, y, q)
                     /\ Drawn(tr2, l, y) = Took(ls, y, q)
                     /\ \A k : k # l => Drawn(tr2, k, y) = Drawn(tr, k, y)
  <2>1. /\ Layered(ls, n) /\ q \in Nat /\ tr \subseteq TrailRow /\ IsFiniteSet(tr)
        /\ \A t \in tr : t.line # l
    BY <1>1, <1>6
  <2>2. tr2 = tr \cup Consumptions(ls, l, q)
    OBVIOUS
  <2> QED
    BY ONLY <2>1, <2>2, l \in Lines, ConsumedFrom
<1>11. \A y \in ls : /\ Took(ls, y, q) \in Nat
                     /\ (y.qty <= 0 => Took(ls, y, q) = 0)
                     /\ (Took(ls, y, q) > 0 <=> y \in Touched(ls, q))
  BY <1>1, TookIs
<1>12. \A y \in ls : /\ f[y].id = y.id /\ f[y].kind = y.kind /\ f[y].line = y.line /\ f[y].received = y.received
                     /\ Lost(tr2, f[y]) = Lost(tr2, y) /\ \A k : Drawn(tr2, k, f[y]) = Drawn(tr2, k, y)
  BY <1>9 DEF SameLayer, Lost, Drawn
<1>13. \A y \in ls : y.kind = "backorder" => f[y].qty = y.qty /\ y.line # l /\ y.qty < 0
  <2> SUFFICES ASSUME NEW y \in ls, y.kind = "backorder"
               PROVE  f[y].qty = y.qty /\ y.line # l /\ y.qty < 0
    OBVIOUS
  <2>1. y.qty < 0 /\ y.line \in Lines /\ rows[y.line].status # "DRAFT"
    BY DEF Tally, OwedFits
  <2>2. Took(ls, y, q) = 0 /\ f[y].qty = y.qty - Took(ls, y, q) /\ y.qty \in Int
    BY <1>1, <1>9, <1>11, <2>1
  <2> QED
    BY <1>2, <2>1, <2>2
<1>14. short \in Nat /\ Layered(after, n)
  BY <1>0, <1>1, ShortfallIs, AfterIssueLayered
<1>15. \A x \in S : /\ x \in LayerRow /\ x.id = id /\ x.kind = "backorder" /\ x.line = l /\ x.qty = -short /\ x.qty < 0
                    /\ S = {x}
  <2> SUFFICES ASSUME NEW x \in S
               PROVE  /\ x \in LayerRow /\ x.id = id /\ x.kind = "backorder" /\ x.line = l /\ x.qty = -short /\ x.qty < 0
                      /\ S = {x}
    OBVIOUS
  <2>1. short # 0 /\ S = {Backorder(id, l, at, short, ShortfallCost(ls, h))}
    BY <1>0 DEF ShortfallLayer
  <2>2. ShortfallCost(ls, h) \in Nat
    BY <1>1, ShortfallCostIs
  <2>3. /\ x \in LayerRow /\ x.id = id /\ x.kind = "backorder" /\ x.line = l /\ x.qty = -short
    <3>1. short \in Nat \ {0} /\ x = Backorder(id, l, at, short, ShortfallCost(ls, h))
      BY <1>14, <2>1
    <3>2. -short \in Int
      BY <1>14
    <3> QED
      BY <1>1, <2>2, <3>1, <3>2 DEF Backorder, LayerRow
  <2> QED
    BY <1>14, <2>1, <2>3
<1>16. S = {} => short = 0
  BY <1>0 DEF ShortfallLayer
<1>17. \A x \in new : (\E y \in ls : x = f[y]) \/ x \in S
  BY <1>3, <1>9
<1>18. \A y \in ls : f[y] \in new
  BY <1>3, <1>9
<1>19. ReceiptsFit(rows2, new)
  <2>1. ASSUME NEW x \in new, x.kind = "receipt"
        PROVE  rows2[x.line].type = "receipt" /\ rows2[x.line].status # "DRAFT" /\ x.received = rows2[x.line].qty
    <3>1. PICK y \in ls : x = f[y]
      BY <1>15, <1>17, <2>1
    <3>2. y.kind = "receipt" /\ y.line = x.line /\ y.received = x.received /\ y.line \in Lines
      BY <1>1, <1>12, <2>1, <3>1 DEF Layered
    <3> QED
      BY <1>2, <3>2 DEF Tally, ReceiptsFit
  <2>2. ASSUME NEW k \in Lines, rows2[k].type = "receipt", rows2[k].status = "POSTED"
        PROVE  \E x \in new : x.kind = "receipt" /\ x.line = k
    <3>1. PICK y \in ls : y.kind = "receipt" /\ y.line = k
      BY <1>2, <2>2 DEF Tally, ReceiptsFit
    <3> QED
      BY <1>12, <1>18, <3>1
  <2> QED
    BY <2>1, <2>2 DEF ReceiptsFit
<1>20. OwedFits(rows2, new, tr2)
  <2> SUFFICES ASSUME NEW x \in new, x.kind = "backorder"
               PROVE  x.line \in Lines /\ rows2[x.line].status # "DRAFT" /\ x.qty < 0 /\ \A t \in tr2 : t.layer # x.id
    BY DEF OwedFits
  <2>1. ASSUME NEW y \in ls, x = f[y]
        PROVE  x.line \in Lines /\ rows2[x.line].status # "DRAFT" /\ x.qty < 0 /\ \A t \in tr2 : t.layer # x.id
    <3>1. y.kind = "backorder" /\ y.line = x.line /\ y.id = x.id
      BY <1>12, <2>1
    <3>2. x.line \in Lines /\ rows2[x.line].status # "DRAFT" /\ x.qty < 0 /\ \A t \in tr : t.layer # x.id
      BY <1>2, <1>13, <2>1, <3>1 DEF Tally, OwedFits
    <3>3. ASSUME NEW t \in C, t.layer = x.id PROVE FALSE
      <4>1. PICK z \in Touched(ls, q) : t = [layer |-> z.id, line |-> l, qty |-> Taken(ls, z, q), cost |-> z.cost]
        BY <1>0 DEF Consumptions
      <4>2. z \in ls /\ z.id = y.id /\ z.qty > 0
        BY <3>1, <3>3, <4>1 DEF Touched, Open
      <4>3. z = y
        BY <1>1, <4>2 DEF Layered
      <4> QED
        BY <1>1, <1>13, <3>1, <4>2, <4>3
    <3> QED
      BY <1>3, <3>2, <3>3
  <2>2. CASE x \in S
    <3>1. \A t \in tr2 : t.layer # id
      BY <1>1, <1>5, <1>7 DEF TrailFits, TrailRow
    <3> QED
      BY <1>2, <1>15, <2>2, <3>1
  <2> QED
    BY <1>17, <2>1, <2>2
<1>21. LayersTrailed(rows2, new, tr2)
  <2> SUFFICES ASSUME NEW x \in new, Trailed(rows2, x) PROVE x.received - x.qty = Lost(tr2, x)
    BY DEF LayersTrailed
  <2>1. PICK y \in ls : x = f[y]
    BY <1>15, <1>17 DEF Trailed
  <2>2. Trailed(rows, y)
    <3>1. y.kind = "receipt" => y.line \in Lines /\ y.line # l
      BY <1>1, <1>2 DEF Layered, Tally, ReceiptsFit
    <3> QED
      BY <1>2, <1>12, <2>1, <3>1 DEF Trailed
  <2>3. y.received - y.qty = Lost(tr, y) /\ y.received \in Int
    BY <1>1, <2>2, RowIs DEF Tally, LayersTrailed
  <2>4. x.received = y.received /\ x.qty = y.qty - Took(ls, y, q) /\ Lost(tr2, x) = Lost(tr, y) + Took(ls, y, q)
    BY <1>9, <1>10, <1>12, <2>1
  <2>5. y.qty \in Int /\ Took(ls, y, q) \in Nat
    BY <1>1, <1>11
  <2> QED
    BY <2>3, <2>4, <2>5
<1>22. ASSUME NEW k \in Lines
       PROVE  SumFunctionOnSet(Share(tr2, k), new) = SumFunctionOnSet(Share(tr2, k), after) + (IF k = l THEN short ELSE 0)
  <2>1. SumFunctionOnSet(Share(tr2, k), after) \in Int
    <3>1. \A y \in after : Share(tr2, k)[y] \in Int
      BY <1>5, <1>14, ShareIs DEF Layered
    <3>2. IsFiniteSet(after)
      BY <1>14 DEF Layered
    <3> QED
      BY <3>1, <3>2, SumInt
  <2>2. CASE S = {}
    BY <1>3, <1>16, <2>1, <2>2
  <2>3. CASE S # {}
    <3>1. PICK x \in S : x \in LayerRow /\ x.id = id /\ x.kind = "backorder" /\ x.line = l /\ x.qty = -short /\ S = {x}
      BY <1>15, <2>3
    <3>2. Ledger(rows2, after, tr2, n)
      BY <1>5, <1>14 DEF Ledger
    <3>3. n < x.id
      BY <3>1
    <3>4. SumFunctionOnSet(Share(tr2, k), after \cup {x}) = SumFunctionOnSet(Share(tr2, k), after) - Owed(x, k)
      BY <1>7, <3>1, <3>2, <3>3, OpenedShares
    <3>5. Owed(x, k) = IF k = l THEN -short ELSE 0
      BY <3>1 DEF Owed
    <3>6. new = after \cup {x}
      BY <1>3, <3>1
    <3>7. SumFunctionOnSet(Share(tr2, k), new) = SumFunctionOnSet(Share(tr2, k), after) - Owed(x, k)
      BY <3>4, <3>6
    <3>8. short \in Nat /\ Owed(x, k) \in Int /\ -Owed(x, k) = IF k = l THEN short ELSE 0
      BY <1>14, <3>5
    <3> QED
      BY <2>1, <3>7, <3>8
  <2> QED
    BY <2>2, <2>3
<1>23. IssuesDrawn(rows2, new, tr2)
  <2> SUFFICES ASSUME NEW k \in Lines, rows2[k].type = "issue", rows2[k].status = "POSTED"
               PROVE  SumFunctionOnSet(Share(tr2, k), new) = rows2[k].qty
    BY DEF IssuesDrawn
  <2>1. CASE k # l
    <3>1. rows2[k] = rows[k] /\ SumFunctionOnSet(Share(tr, k), ls) = rows[k].qty /\ rows[k].qty \in Nat
      BY <1>1, <1>2, <2>1 DEF Tally, IssuesDrawn, Rows, LineRow
    <3>2. \A y \in ls : Share(tr2, k)[f[y]] = Share(tr, k)[y]
      <4> TAKE y \in ls
      <4>1. Drawn(tr2, k, f[y]) = Drawn(tr, k, y)
        BY <1>10, <1>12, <2>1
      <4>2. Owed(f[y], k) = Owed(y, k)
        BY <1>12, <1>13 DEF Owed
      <4> QED
        BY <1>1, <4>1, <4>2 DEF Share
    <3>3. \A y \in ls : SameLayer(f[y], y)
      BY <1>9
    <3>4. SumFunctionOnSet(Share(tr2, k), after) = SumFunctionOnSet(Share(tr, k), ls)
      <4>1. Layered(ls, n) /\ tr \subseteq TrailRow /\ IsFiniteSet(tr) /\ after = {f[y] : y \in ls}
        BY <1>1, <1>9
      <4> QED
        BY ONLY <4>1, <3>2, <3>3, f \in [ls -> LayerRow], SharesEdited
    <3>5. SumFunctionOnSet(Share(tr2, k), new) = SumFunctionOnSet(Share(tr2, k), after) + 0
      BY <1>22, <2>1
    <3> QED
      BY <3>1, <3>4, <3>5
  <2>2. CASE k = l
    <3> DEFINE F == Share(tr2, l)
               G == [y \in ls |-> Took(ls, y, q)]
    <3>1. \A y \in ls : F[f[y]] = G[y] /\ G[y] \in Int
      <4> TAKE y \in ls
      <4>1. Drawn(tr2, l, f[y]) = Took(ls, y, q) /\ Took(ls, y, q) \in Nat
        BY <1>10, <1>11, <1>12
      <4>2. Owed(f[y], l) = 0
        BY <1>12, <1>13 DEF Owed
      <4>3. F[f[y]] = Drawn(tr2, l, f[y]) - Owed(f[y], l)
        BY DEF Share
      <4> QED
        BY <4>1, <4>2, <4>3
    <3>2. \A y \in ls : G[y] = Took(ls, y, q)
      OBVIOUS
    <3>3. IsFiniteSet(ls) /\ \A x, y \in ls : f[x] = f[y] => x = y
      BY <1>1, <1>12 DEF Layered
    <3> HIDE DEF F, G
    <3>4. SumFunctionOnSet(F, {f[y] : y \in ls}) = SumFunctionOnSet(G, ls)
      BY <3>1, <3>3, SumImage
    <3>5. SumFunctionOnSet(G, ls) + short = q
      BY <1>0, <1>1, <3>2, TookTotal
    <3>6. SumFunctionOnSet(Share(tr2, l), new) = SumFunctionOnSet(Share(tr2, l), after) + short
      BY <1>22
    <3> QED
      BY <1>2, <1>9, <2>2, <3>4, <3>5, <3>6 DEF F
  <2> QED
    BY <2>1, <2>2
<1>24. Conserved(rows2, new, o)
  <2>1. Quantity(new) = Quantity(ls) - q
    BY <1>1, IssueSums
  <2>2. Base(new, o) = Base(ls, o)
    <3>1. (\E x \in new : x.kind = "opening") <=> (\E y \in ls : y.kind = "opening")
      BY <1>12, <1>15, <1>17, <1>18
    <3> QED
      BY <3>1 DEF Base
  <2>3. SumFunctionOnSet(Flow(rows2), Lines) = SumFunctionOnSet(Flow(rows), Lines) - Flows(rows[l]) + Flows(rows2[l])
    BY <1>1, <1>2, FlowChanged
  <2>4. Flows(rows[l]) = 0 /\ Flows(rows2[l]) = -q
    BY <1>2 DEF Flows
  <2>5. SumFunctionOnSet(Flow(rows), Lines) \in Int /\ Base(ls, o) \in Int
    BY <1>1, FlowIs DEF Base
  <2>6. Quantity(ls) = Base(ls, o) + SumFunctionOnSet(Flow(rows), Lines)
    BY DEF Tally, Conserved
  <2> QED
    BY <1>1, <2>1, <2>2, <2>3, <2>4, <2>5, <2>6 DEF Conserved
<1> QED
  BY <1>8, <1>19, <1>20, <1>21, <1>23, <1>24 DEF Tally

-----------------------------------------------------------------------------
(* A receipt is withdrawn.                                                 *)

\* The layers once what is left of receipt layer x is withdrawn, and nothing is owed yet.
Withdrew(rows, ls, tr, n, o, x) ==
    /\ Ledger(rows, ls, tr, n) /\ TrailFits(rows, tr, n) /\ ReceiptsFit(rows, ls)
    /\ OwedFits(rows, ls, tr) /\ LayersTrailed(rows, ls, tr) /\ IssuesDrawn(rows, ls, tr)
    /\ Quantity(ls) = Base(ls, o) + SumFunctionOnSet(Flow(rows), Lines) + (x.received - x.qty)

WithdrawnFrom(ls, l) == {Withdrawn(y, LayersOf(ls, l)) : y \in ls}

LEMMA WithdrawnTally ==
    ASSUME NEW rows, NEW ls, NEW tr, NEW n, NEW o \in Nat, Ledger(rows, ls, tr, n), Tally(rows, ls, tr, n, o),
           NEW l \in Lines, rows[l].type = "receipt", rows[l].status = "POSTED",
           NEW rows2, ReadRows(rows2), RowMoved(rows, rows2, l, "REVERSED"),
           NEW rest, rest = WithdrawnFrom(ls, l)
    PROVE  \E x \in ls :
             LayersOf(ls, l) = {x} /\ x.received - x.qty \in Nat /\ Withdrew(rows2, rest, tr, n, o, x)
PROOF
<1>0. PICK x \in ls : x.kind = "receipt" /\ x.line = l
  BY DEF Tally, ReceiptsFit
<1>1. /\ n \in Nat /\ rows \in Rows /\ rows2 \in Rows /\ Layered(ls, n) /\ rows[l].qty \in Nat
      /\ tr \subseteq TrailRow /\ IsFiniteSet(tr) /\ \A y \in ls : y \in LayerRow /\ y.qty \in Int
  BY LayersHeld DEF Ledger, Layered, ReadRows, Rows, LineRow
<1>2. /\ \A k \in Lines : rows[k].status # "DRAFT" => rows2[k].status # "DRAFT"
      /\ \A k \in Lines : k # l => rows2[k] = rows[k]
      /\ \A k \in Lines : rows2[k].type = rows[k].type /\ rows2[k].qty = rows[k].qty
      /\ rows2[l].type = "receipt" /\ rows2[l].status = "REVERSED"
  BY DEF RowMoved
<1>3. LayersOf(ls, l) = {x}
  BY <1>0, <1>1 DEF LayersOf, Layered
<1>4. x.received = rows[l].qty /\ x.received - x.qty = Lost(tr, x) /\ Lost(tr, x) \in Nat
  BY <1>0, <1>1, ShareIs DEF Tally, ReceiptsFit, LayersTrailed, Trailed
<1> DEFINE f == [y \in ls |-> Withdrawn(y, {x})]
<1>5. \A y \in ls : /\ f[y] \in LayerRow /\ SameLayer(f[y], y) /\ (y # x => f[y] = y)
                    /\ (y = x => f[y].qty = 0)
  <2> TAKE y \in ls
  <2>1. y \in LayerRow /\ x \in LayerRow /\ (x.id = y.id => x = y)
    BY <1>1 DEF Layered
  <2>2. f[y] = Withdrawn(y, {x})
    OBVIOUS
  <2> HIDE DEF f
  <2>3. f[y] \in LayerRow /\ SameLayer(f[y], y)
    BY <2>1, <2>2, WithdrawnIs
  <2>4. y # x => f[y] = y
    BY <2>1, <2>2 DEF Withdrawn
  <2>5. y = x => f[y].qty = 0
    BY <2>1, <2>2 DEF Withdrawn, LayerRow
  <2> QED
    BY <2>3, <2>4, <2>5
<1>6. rest = {f[y] : y \in ls} /\ f \in [ls -> LayerRow]
  BY <1>3, <1>5 DEF WithdrawnFrom
<1> HIDE DEF f
<1>7. \A y \in ls : /\ f[y].id = y.id /\ f[y].kind = y.kind /\ f[y].line = y.line /\ f[y].received = y.received
                    /\ Lost(tr, f[y]) = Lost(tr, y) /\ \A k : Drawn(tr, k, f[y]) = Drawn(tr, k, y)
  BY <1>5 DEF SameLayer, Lost, Drawn
<1>8. (\A z \in rest : \E y \in ls : z = f[y]) /\ \A y \in ls : f[y] \in rest
  BY <1>6
<1>9. Layered(rest, n)
  <2>1. \A y \in ls : f[y].qty < 0 => y.kind = "backorder"
    <3> TAKE y \in ls
    <3>1. y.qty < 0 => y.kind = "backorder"
      BY <1>1 DEF Layered
    <3>2. f[y].qty = 0 => ~(f[y].qty < 0)
      OBVIOUS
    <3> QED
      BY <1>5, <3>1, <3>2
  <2>2. Layered(ls, n) /\ \A y \in ls : f[y] \in LayerRow /\ SameLayer(f[y], y)
    BY <1>1, <1>5
  <2>3. Layered({f[y] : y \in ls}, n)
    BY ONLY <2>1, <2>2, EditedLayers
  <2> QED
    BY <1>6, <2>3
<1>10. Ledger(rows2, rest, tr, n) /\ TrailFits(rows2, tr, n)
  <2>1. \A t \in tr : t.line \in Lines
    BY <1>1 DEF TrailRow
  <2> QED
    BY <1>1, <1>2, <1>9, <2>1 DEF Ledger, Tally, TrailFits
<1>11. ReceiptsFit(rows2, rest)
  <2>1. ASSUME NEW z \in rest, z.kind = "receipt"
        PROVE  rows2[z.line].type = "receipt" /\ rows2[z.line].status # "DRAFT" /\ z.received = rows2[z.line].qty
    <3>1. PICK y \in ls : z = f[y]
      BY <1>8
    <3>2. y.kind = "receipt" /\ y.line = z.line /\ y.received = z.received /\ y.line \in Lines
      BY <1>1, <1>7, <2>1, <3>1 DEF Layered
    <3> QED
      BY <1>2, <3>2 DEF Tally, ReceiptsFit
  <2>2. ASSUME NEW k \in Lines, rows2[k].type = "receipt", rows2[k].status = "POSTED"
        PROVE  \E z \in rest : z.kind = "receipt" /\ z.line = k
    <3>1. PICK y \in ls : y.kind = "receipt" /\ y.line = k
      BY <1>2, <2>2 DEF Tally, ReceiptsFit
    <3> QED
      BY <1>7, <1>8, <3>1
  <2> QED
    BY <2>1, <2>2 DEF ReceiptsFit
<1>12. \A y \in ls : y.kind = "backorder" => f[y] = y
  BY <1>0, <1>5
<1>13. OwedFits(rows2, rest, tr)
  <2> SUFFICES ASSUME NEW z \in rest, z.kind = "backorder"
               PROVE  z.line \in Lines /\ rows2[z.line].status # "DRAFT" /\ z.qty < 0 /\ \A t \in tr : t.layer # z.id
    BY DEF OwedFits
  <2>1. z \in ls
    BY <1>7, <1>8, <1>12
  <2> QED
    BY <1>2, <2>1 DEF Tally, OwedFits
<1>14. LayersTrailed(rows2, rest, tr)
  <2> SUFFICES ASSUME NEW z \in rest, Trailed(rows2, z) PROVE z.received - z.qty = Lost(tr, z)
    BY DEF LayersTrailed
  <2>1. PICK y \in ls : z = f[y]
    BY <1>8
  <2>2. y # x
    BY <1>0, <1>2, <1>7, <2>1 DEF Trailed
  <2>3. z = y
    BY <1>5, <2>1, <2>2
  <2>4. Trailed(rows, y)
    <3>1. y.kind = "receipt" => y.line \in Lines /\ y.line # l
      BY <1>0, <1>1, <2>2 DEF Layered
    <3> QED
      BY <1>2, <2>3, <3>1 DEF Trailed
  <2> QED
    BY <2>3, <2>4 DEF Tally, LayersTrailed
<1>15. IssuesDrawn(rows2, rest, tr)
  <2> SUFFICES ASSUME NEW k \in Lines, rows2[k].type = "issue", rows2[k].status = "POSTED"
               PROVE  SumFunctionOnSet(Share(tr, k), rest) = rows2[k].qty
    BY DEF IssuesDrawn
  <2>1. k # l /\ rows2[k] = rows[k]
    BY <1>2
  <2>2. \A y \in ls : Share(tr, k)[f[y]] = Share(tr, k)[y]
    <3> TAKE y \in ls
    <3>1. Drawn(tr, k, f[y]) = Drawn(tr, k, y)
      BY <1>7
    <3>2. Owed(f[y], k) = Owed(y, k)
      BY <1>7, <1>12 DEF Owed
    <3> QED
      BY <1>1, <1>5, <3>1, <3>2 DEF Share
  <2>3. \A y \in ls : SameLayer(f[y], y)
    BY <1>5
  <2>4. SumFunctionOnSet(Share(tr, k), rest) = SumFunctionOnSet(Share(tr, k), ls)
    BY ONLY <1>1, <1>6, <2>2, <2>3, SharesEdited
  <2> QED
    BY <2>1, <2>4 DEF Tally, IssuesDrawn
<1>16. Quantity(rest) = Base(rest, o) + SumFunctionOnSet(Flow(rows2), Lines) + (x.received - x.qty)
  <2> DEFINE U == ls \ {x}
  <2>1. Layered(U, n) /\ ls = U \cup {x} /\ x \notin U
    BY <1>1, SubLayers
  <2>2. rest = U \cup {f[x]}
    <3>1. \A z \in rest : z \in U \cup {f[x]}
      BY <1>5, <1>8
    <3>2. \A z \in U : z \in rest
      BY <1>5, <1>8
    <3> QED
      BY <1>8, <3>1, <3>2
  <2>3. f[x] \notin U /\ f[x] \in LayerRow /\ f[x].qty = 0
    <3>1. f[x] \in LayerRow /\ f[x].qty = 0 /\ f[x].id = x.id
      BY <1>5, <1>7
    <3>2. f[x] \in U => f[x] = x
      BY <1>1, <3>1 DEF Layered
    <3> QED
      BY <3>1, <3>2
  <2>4. Quantity(U) \in Int
    BY <2>1, LayersHeld
  <2> HIDE DEF U
  <2>5. Quantity(U \cup {x}) = Quantity(U) + x.qty
    BY <1>1, <2>1, AddedSums
  <2>6. Quantity(U \cup {f[x]}) = Quantity(U) + 0
    BY <2>1, <2>3, AddedSums
  <2>7. Quantity(rest) = Quantity(ls) - x.qty /\ x.qty \in Int
    <3>1. Quantity(ls) = Quantity(U) + x.qty
      BY <2>1, <2>5
    <3>2. Quantity(rest) = Quantity(U) + 0
      BY <2>2, <2>6
    <3> QED
      BY <1>1, <2>4, <3>1, <3>2
  <2>8. Base(rest, o) = Base(ls, o)
    <3>1. \A z \in rest : z.kind = "opening" => \E y \in ls : y.kind = "opening"
      <4> SUFFICES ASSUME NEW z \in rest, z.kind = "opening" PROVE \E y \in ls : y.kind = "opening"
        OBVIOUS
      <4>1. PICK y \in ls : z = f[y]
        BY <1>8
      <4> QED
        BY <1>7, <4>1
    <3>2. \A y \in ls : y.kind = "opening" => \E z \in rest : z.kind = "opening"
      <4> SUFFICES ASSUME NEW y \in ls, y.kind = "opening" PROVE \E z \in rest : z.kind = "opening"
        OBVIOUS
      <4>1. f[y] \in rest /\ f[y].kind = "opening"
        BY <1>7, <1>8
      <4> QED
        BY <4>1
    <3> QED
      BY <3>1, <3>2 DEF Base
  <2>9. SumFunctionOnSet(Flow(rows2), Lines) = SumFunctionOnSet(Flow(rows), Lines) - Flows(rows[l]) + Flows(rows2[l])
    BY <1>1, <1>2, FlowChanged
  <2>10. Flows(rows[l]) = rows[l].qty /\ Flows(rows2[l]) = 0
    BY <1>2 DEF Flows
  <2>11. SumFunctionOnSet(Flow(rows), Lines) \in Int /\ Base(ls, o) \in Int
    BY <1>1, FlowIs DEF Base
  <2>12. Quantity(ls) = Base(ls, o) + SumFunctionOnSet(Flow(rows), Lines)
    BY DEF Tally, Conserved
  <2> QED
    BY <1>1, <1>4, <2>7, <2>8, <2>9, <2>10, <2>11, <2>12
<1>17. Withdrew(rows2, rest, tr, n, o, x)
  BY <1>10, <1>11, <1>13, <1>14, <1>15, <1>16 DEF Withdrew
<1> QED
  BY <1>3, <1>4, <1>17

\* The layers still owed for, and the rows that carry what they owe.
OwedOf(opened) == {x \in opened : AlreadyConsumed(x) > 0}
Backorders(id, l, at, owed) == {Backorder(id, l, at, AlreadyConsumed(x), x.cost) : x \in owed}

LEMMA WithdrawTally ==
    ASSUME NEW rows, NEW ls, NEW tr, NEW n, NEW o \in Nat, Ledger(rows, ls, tr, n), Tally(rows, ls, tr, n, o),
           NEW l \in Lines, rows[l].type = "receipt", rows[l].status = "POSTED",
           NEW rows2, ReadRows(rows2), RowMoved(rows, rows2, l, "REVERSED"), NEW at \in Nat,
           NEW owed, owed = OwedOf(LayersOf(ls, l)),
           NEW new, new = WithdrawnFrom(ls, l) \cup Backorders(n + 1, l, at, owed),
           NEW m, m = IF owed = {} THEN n ELSE n + 1
    PROVE  Tally(rows2, new, tr, m, o)
PROOF
<1>0. SUFFICES ASSUME NEW rest, rest = WithdrawnFrom(ls, l)
               PROVE  Tally(rows2, new, tr, m, o)
  OBVIOUS
<1>1. PICK x \in ls : LayersOf(ls, l) = {x} /\ x.received - x.qty \in Nat /\ Withdrew(rows2, rest, tr, n, o, x)
  BY <1>0, WithdrawnTally
<1>7. /\ Ledger(rows2, rest, tr, n) /\ TrailFits(rows2, tr, n) /\ ReceiptsFit(rows2, rest)
      /\ OwedFits(rows2, rest, tr) /\ LayersTrailed(rows2, rest, tr) /\ IssuesDrawn(rows2, rest, tr)
      /\ Quantity(rest) = Base(rest, o) + SumFunctionOnSet(Flow(rows2), Lines) + (x.received - x.qty)
  BY <1>1 DEF Withdrew
<1>2. n \in Nat /\ Layered(rest, n) /\ x \in LayerRow /\ rows2 \in Rows /\ tr \subseteq TrailRow
  BY <1>1, <1>7 DEF Ledger, Layered, ReadRows
<1>3. SumFunctionOnSet(Flow(rows2), Lines) \in Int /\ Base(rest, o) \in Int
  BY <1>2, FlowIs DEF Base
<1>4. /\ new = rest \cup {Backorder(n + 1, l, at, AlreadyConsumed(y), y.cost) : y \in owed}
      /\ owed = {y \in LayersOf(ls, l) : AlreadyConsumed(y) > 0}
  BY <1>0 DEF Backorders, OwedOf
<1>5. CASE owed = {}
  <2>1. new = rest /\ m = n
    BY <1>4, <1>5
  <2>2. x.received - x.qty = 0
    <3>1. x \in LayersOf(ls, l) /\ x.received - x.qty \in Nat
      BY <1>1
    <3>2. ~(AlreadyConsumed(x) > 0)
      BY <1>4, <1>5, <3>1
    <3> QED
      BY <3>1, <3>2 DEF AlreadyConsumed
  <2>3. Conserved(rows2, rest, o)
    BY <1>1, <1>7, <1>3, <2>2 DEF Conserved
  <2> QED
    BY <1>1, <1>7, <2>1, <2>3 DEF Tally
<1>6. CASE owed # {}
  <2>1. owed = {x}
    BY <1>1, <1>4, <1>6
  <2>0. SUFFICES ASSUME NEW due, due = AlreadyConsumed(x), NEW z, z = Backorder(n + 1, l, at, due, x.cost)
                 PROVE  Tally(rows2, new, tr, m, o)
    OBVIOUS
  <2>2. new = rest \cup {z} /\ m = n + 1 /\ due \in Nat \ {0} /\ due = x.received - x.qty
    <3>1. due = x.received - x.qty /\ due > 0
      BY <1>4, <2>0, <2>1 DEF AlreadyConsumed
    <3>2. due \in Nat \ {0}
      BY <1>1, <3>1
    <3>3. new = rest \cup {z} /\ m = n + 1
      BY <1>4, <1>6, <2>0, <2>1
    <3> QED
      BY <3>1, <3>2, <3>3
  <2>3. z \in LayerRow /\ z.id = n + 1 /\ z.kind = "backorder" /\ z.line = l /\ z.qty = -due /\ z.qty < 0
    <3>1. n + 1 \in Nat /\ -due \in Int /\ -due < 0 /\ x.cost \in Nat
      BY <1>2, <2>2, RowIs
    <3> QED
      BY <2>0, <3>1 DEF Backorder, LayerRow
  <2>4. /\ \A t \in tr : t.layer # z.id
        /\ \A k : SumFunctionOnSet(Share(tr, k), new) = SumFunctionOnSet(Share(tr, k), rest) - Owed(z, k)
        /\ Quantity(new) = Quantity(rest) + z.qty
    <3>1. Ledger(rows2, rest, tr, n) /\ TrailFits(rows2, tr, n) /\ n < z.id
      BY <1>1, <1>7, <1>2, <2>3
    <3>2. /\ \A t \in tr : t.layer # z.id
          /\ \A k : SumFunctionOnSet(Share(tr, k), rest \cup {z}) = SumFunctionOnSet(Share(tr, k), rest) - Owed(z, k)
          /\ Quantity(rest \cup {z}) = Quantity(rest) + z.qty
      <4>1. z \in LayerRow
        BY <2>3
      <4> QED
        BY ONLY <3>1, <4>1, OpenedShares
    <3> QED
      BY <2>2, <3>2
  <2>5. rows2[l].type = "receipt" /\ rows2[l].status = "REVERSED"
    BY DEF RowMoved
  <2>6. TrailFits(rows2, tr, m)
    <3>1. \A t \in tr : t.layer \in Nat
      BY <1>2 DEF TrailRow
    <3> QED
      BY <1>1, <1>7, <1>2, <2>2, <3>1 DEF TrailFits
  <2>7. ReceiptsFit(rows2, new)
    BY <1>1, <1>7, <2>2, <2>3 DEF ReceiptsFit
  <2>8. OwedFits(rows2, new, tr)
    BY <1>1, <1>7, <2>2, <2>3, <2>4, <2>5 DEF OwedFits
  <2>9. LayersTrailed(rows2, new, tr)
    BY <1>1, <1>7, <2>2, <2>3 DEF LayersTrailed, Trailed
  <2>10. IssuesDrawn(rows2, new, tr)
    <3> SUFFICES ASSUME NEW k \in Lines, rows2[k].type = "issue", rows2[k].status = "POSTED"
                 PROVE  SumFunctionOnSet(Share(tr, k), new) = rows2[k].qty
      BY DEF IssuesDrawn
    <3>1. SumFunctionOnSet(Share(tr, k), rest) = rows2[k].qty /\ rows2[k].qty \in Nat
      BY <1>1, <1>7, <1>2 DEF IssuesDrawn, Rows, LineRow
    <3>2. Owed(z, k) = 0
      BY <2>3, <2>5 DEF Owed
    <3>3. SumFunctionOnSet(Share(tr, k), new) = rows2[k].qty - Owed(z, k)
      BY <2>4, <3>1
    <3> QED
      BY <3>1, <3>2, <3>3
  <2>11. Conserved(rows2, new, o)
    <3>1. Base(new, o) = Base(rest, o)
      BY <2>2, <2>3 DEF Base
    <3>2. Quantity(new) = Quantity(rest) + (-due) /\ due \in Int
      BY <2>2, <2>3, <2>4
    <3>3. Quantity(rest) = Base(rest, o) + SumFunctionOnSet(Flow(rows2), Lines) + due
      BY <1>1, <1>7, <2>2
    <3> QED
      BY <1>3, <3>1, <3>2, <3>3 DEF Conserved
  <2> QED
    BY <2>6, <2>7, <2>8, <2>9, <2>10, <2>11 DEF Tally
<1> QED
  BY <1>5, <1>6

-----------------------------------------------------------------------------
(* An issue is given back.                                                 *)

LEMMA Without ==
    ASSUME NEW tr, tr \subseteq TrailRow, IsFiniteSet(tr), NEW l, NEW tr2, tr2 = {t \in tr : t.line # l}, NEW x
    PROVE  Lost(tr2, x) = Lost(tr, x) - Drawn(tr, l, x) /\ \A k : k # l => Drawn(tr2, k, x) = Drawn(tr, k, x)
PROOF
<1>0. SUFFICES ASSUME NEW mine, mine = {t \in tr : t.line = l /\ t.layer = x.id},
                      NEW left, left = {t \in tr2 : t.layer = x.id}
               PROVE  Lost(tr2, x) = Lost(tr, x) - Drawn(tr, l, x) /\ \A k : k # l => Drawn(tr2, k, x) = Drawn(tr, k, x)
  OBVIOUS
<1>1. {t \in tr : t.layer = x.id} = left \cup mine /\ left \subseteq tr /\ mine \subseteq tr /\ left \cap mine = {}
  BY <1>0
<1>2. Quantity(left \cup mine) = Quantity(left) + Quantity(mine)
  BY <1>1, TrailSplits
<1>3. Quantity(left) \in Nat /\ Quantity(mine) \in Nat
  BY <1>1, SomeTrail
<1>4. \A k : k # l => {t \in tr2 : t.line = k /\ t.layer = x.id} = {t \in tr : t.line = k /\ t.layer = x.id}
  OBVIOUS
<1>5. Lost(tr2, x) = Quantity(left) /\ Lost(tr, x) = Quantity(left \cup mine) /\ Drawn(tr, l, x) = Quantity(mine)
  BY <1>0, <1>1 DEF Lost, Drawn
<1>6. \A k : k # l => Drawn(tr2, k, x) = Drawn(tr, k, x)
  BY <1>4 DEF Drawn
<1> QED
  BY <1>2, <1>3, <1>5, <1>6

LEMMA GiveBackTally ==
    ASSUME NEW rows, NEW ls, NEW tr, NEW n, NEW o \in Nat, Ledger(rows, ls, tr, n), Tally(rows, ls, tr, n, o),
           NEW l \in Lines, rows[l].type = "issue", rows[l].status = "POSTED",
           NEW rows2, ReadRows(rows2), RowMoved(rows, rows2, l, "REVERSED"),
           NEW kept, kept = {y \in ls : ~(y.kind = "backorder" /\ y.line = l)},
           NEW f \in [kept -> LayerRow],
           \A y \in kept : SameLayer(f[y], y) /\ f[y].cost = y.cost /\ f[y].qty = y.qty + Drawn(tr, l, y),
           NEW new, new = {f[y] : y \in kept}, NEW tr2, tr2 = {t \in tr : t.line # l}
    PROVE  Tally(rows2, new, tr2, n, o)
PROOF
<1>0. SUFFICES ASSUME NEW gone, gone = ls \ kept, NEW q, q = rows[l].qty
               PROVE  Tally(rows2, new, tr2, n, o)
  OBVIOUS
<1>1. /\ n \in Nat /\ rows \in Rows /\ rows2 \in Rows /\ Layered(ls, n) /\ q \in Nat
      /\ tr \subseteq TrailRow /\ IsFiniteSet(tr) /\ \A y \in ls : y \in LayerRow /\ y.qty \in Int
  BY <1>0, LayersHeld DEF Ledger, Layered, ReadRows, Rows, LineRow
<1>2. /\ \A k \in Lines : rows[k].status # "DRAFT" => rows2[k].status # "DRAFT"
      /\ \A k \in Lines : k # l => rows2[k] = rows[k]
      /\ rows2[l].type = "issue" /\ rows2[l].status = "REVERSED"
  BY DEF RowMoved
<1>3. Layered(kept, n) /\ kept \subseteq ls /\ gone \subseteq ls /\ ls = kept \cup gone /\ kept \cap gone = {}
  BY <1>0, <1>1, SubLayers
<1>4. tr2 \subseteq TrailRow /\ IsFiniteSet(tr2)
  BY <1>1, FS_Subset
<1>5. \A y \in kept : /\ f[y].id = y.id /\ f[y].kind = y.kind /\ f[y].line = y.line /\ f[y].received = y.received
                      /\ Lost(tr2, f[y]) = Lost(tr2, y) /\ \A k : Drawn(tr2, k, f[y]) = Drawn(tr2, k, y)
  BY DEF SameLayer, Lost, Drawn
<1>6. \A y \in ls : /\ Lost(tr2, y) = Lost(tr, y) - Drawn(tr, l, y)
                    /\ \A k : k # l => Drawn(tr2, k, y) = Drawn(tr, k, y)
  <2> TAKE y \in ls
  <2>1. tr \subseteq TrailRow /\ IsFiniteSet(tr) /\ tr2 = {t \in tr : t.line # l}
    BY <1>1
  <2> QED
    BY ONLY <2>1, Without
<1>7. \A y \in ls : Drawn(tr, l, y) \in Nat /\ Lost(tr, y) \in Nat
  BY <1>1, ShareIs
<1>8. \A y \in ls : y.kind = "backorder" =>
         y.line \in Lines /\ rows[y.line].status # "DRAFT" /\ y.qty < 0 /\ \A k : Drawn(tr, k, y) = 0
  <2> SUFFICES ASSUME NEW y \in ls, y.kind = "backorder"
               PROVE  y.line \in Lines /\ rows[y.line].status # "DRAFT" /\ y.qty < 0 /\ \A k : Drawn(tr, k, y) = 0
    OBVIOUS
  <2>1. y.line \in Lines /\ rows[y.line].status # "DRAFT" /\ y.qty < 0 /\ \A t \in tr : t.layer # y.id
    BY DEF Tally, OwedFits
  <2> QED
    BY <2>1, FreshDrawn
<1>9. \A y \in kept : y.kind = "backorder" => f[y].qty = y.qty /\ y.line # l
  <2> SUFFICES ASSUME NEW y \in kept, y.kind = "backorder" PROVE f[y].qty = y.qty /\ y.line # l
    OBVIOUS
  <2>1. y \in ls /\ y.qty \in Int /\ Drawn(tr, l, y) = 0 /\ f[y].qty = y.qty + Drawn(tr, l, y)
    BY <1>1, <1>3, <1>8
  <2> QED
    BY <2>1
<1>10. \A y \in gone : y \in ls /\ y.kind = "backorder" /\ y.line = l
  BY <1>0
<1>11. (\A z \in new : \E y \in kept : z = f[y]) /\ \A y \in kept : f[y] \in new
  OBVIOUS
<1>12. TrailFits(rows2, tr2, n)
  <2>1. \A t \in tr : t.line \in Lines
    BY <1>1 DEF TrailRow
  <2> QED
    BY <1>2, <2>1 DEF Tally, TrailFits
<1>13. ReceiptsFit(rows2, new)
  <2>1. ASSUME NEW z \in new, z.kind = "receipt"
        PROVE  rows2[z.line].type = "receipt" /\ rows2[z.line].status # "DRAFT" /\ z.received = rows2[z.line].qty
    <3>1. PICK y \in kept : z = f[y]
      BY <1>11
    <3>2. y.kind = "receipt" /\ y.line = z.line /\ y.received = z.received /\ y \in ls /\ y.line \in Lines
      BY <1>1, <1>3, <1>5, <2>1, <3>1 DEF Layered
    <3>3. rows[y.line].type = "receipt" /\ rows[y.line].status # "DRAFT" /\ y.received = rows[y.line].qty
      BY <3>2 DEF Tally, ReceiptsFit
    <3>4. y.line # l
      BY <3>3
    <3> QED
      BY <1>2, <3>2, <3>3, <3>4
  <2>2. ASSUME NEW k \in Lines, rows2[k].type = "receipt", rows2[k].status = "POSTED"
        PROVE  \E z \in new : z.kind = "receipt" /\ z.line = k
    <3>1. PICK y \in ls : y.kind = "receipt" /\ y.line = k
      BY <1>2, <2>2 DEF Tally, ReceiptsFit
    <3>2. y \in kept
      BY <3>1
    <3>3. f[y] \in new /\ f[y].kind = "receipt" /\ f[y].line = k
      BY <1>5, <1>11, <3>1, <3>2
    <3> QED
      BY <3>3
  <2> QED
    BY <2>1, <2>2 DEF ReceiptsFit
<1>14. OwedFits(rows2, new, tr2)
  <2> SUFFICES ASSUME NEW z \in new, z.kind = "backorder"
               PROVE  z.line \in Lines /\ rows2[z.line].status # "DRAFT" /\ z.qty < 0 /\ \A t \in tr2 : t.layer # z.id
    BY DEF OwedFits
  <2>1. PICK y \in kept : z = f[y]
    BY <1>11
  <2>2. y.kind = "backorder" /\ y.line = z.line /\ y.id = z.id /\ y \in ls /\ z.qty = y.qty
    BY <1>3, <1>5, <1>9, <2>1
  <2> QED
    BY <1>2, <2>2 DEF Tally, OwedFits
<1>15. LayersTrailed(rows2, new, tr2)
  <2> SUFFICES ASSUME NEW z \in new, Trailed(rows2, z) PROVE z.received - z.qty = Lost(tr2, z)
    BY DEF LayersTrailed
  <2>1. PICK y \in kept : z = f[y]
    BY <1>11
  <2>2. y \in ls /\ Trailed(rows, y)
    <3>1. y \in ls /\ (y.kind = "receipt" => y.line \in Lines /\ rows[y.line].type = "receipt")
      BY <1>1, <1>3 DEF Layered, Tally, ReceiptsFit
    <3>2. y.kind = "receipt" => y.line # l
      BY <3>1
    <3> QED
      BY <1>2, <1>5, <2>1, <3>1, <3>2 DEF Trailed
  <2>3. y.received - y.qty = Lost(tr, y) /\ y.received \in Int /\ y.qty \in Int
    BY <1>1, <2>2, RowIs DEF Tally, LayersTrailed
  <2>4. z.received = y.received /\ z.qty = y.qty + Drawn(tr, l, y) /\ Lost(tr2, z) = Lost(tr, y) - Drawn(tr, l, y)
    BY <1>5, <1>6, <2>1, <2>2
  <2>5. Drawn(tr, l, y) \in Nat
    BY <1>7, <2>2
  <2> QED
    BY <2>3, <2>4, <2>5
<1>16. ASSUME NEW k
       PROVE  /\ \A y \in ls : Share(tr, k)[y] \in Int /\ Share(tr, k)[y] = Drawn(tr, k, y) - Owed(y, k)
              /\ SumFunctionOnSet(Share(tr, k), ls) = SumFunctionOnSet(Share(tr, k), kept) + SumFunctionOnSet(Share(tr, k), gone)
              /\ IsFiniteSet(kept) /\ IsFiniteSet(gone)
  <2>1. \A y \in ls : Share(tr, k)[y] \in Int /\ Share(tr, k)[y] = Drawn(tr, k, y) - Owed(y, k)
    BY <1>1, ShareIs
  <2>2. IsFiniteSet(kept) /\ IsFiniteSet(gone)
    BY <1>1, <1>3, FS_Subset DEF Layered
  <2>3. \A y \in kept \cup gone : Share(tr, k)[y] \in Int
    BY <1>3, <2>1
  <2>4. SumFunctionOnSet(Share(tr, k), kept \cup gone) = SumFunctionOnSet(Share(tr, k), kept) + SumFunctionOnSet(Share(tr, k), gone)
    BY <1>3, <2>2, <2>3, SumUnion
  <2> QED
    BY <1>3, <2>1, <2>2, <2>4
<1>17. IssuesDrawn(rows2, new, tr2)
  <2> SUFFICES ASSUME NEW k \in Lines, rows2[k].type = "issue", rows2[k].status = "POSTED"
               PROVE  SumFunctionOnSet(Share(tr2, k), new) = rows2[k].qty
    BY DEF IssuesDrawn
  <2>1. k # l /\ rows2[k] = rows[k] /\ SumFunctionOnSet(Share(tr, k), ls) = rows[k].qty
    BY <1>2 DEF Tally, IssuesDrawn
  <2>2. \A y \in kept : Share(tr2, k)[f[y]] = Share(tr, k)[y]
    <3> TAKE y \in kept
    <3>1. y \in ls /\ y \in LayerRow /\ f[y] \in LayerRow
      BY <1>1, <1>3
    <3>2. Drawn(tr2, k, f[y]) = Drawn(tr, k, y)
      <4>1. Drawn(tr2, k, f[y]) = Drawn(tr2, k, y)
        BY <1>5
      <4>2. Drawn(tr2, k, y) = Drawn(tr, k, y)
        BY <1>6, <2>1, <3>1
      <4> QED
        BY <4>1, <4>2
    <3>3. Owed(f[y], k) = Owed(y, k)
      BY <1>5, <1>9 DEF Owed
    <3> QED
      BY <3>1, <3>2, <3>3 DEF Share
  <2>3. SumFunctionOnSet(Share(tr2, k), new) = SumFunctionOnSet(Share(tr, k), kept)
    <3>1. \A y \in kept : SameLayer(f[y], y)
      OBVIOUS
    <3>2. Layered(kept, n) /\ tr \subseteq TrailRow /\ IsFiniteSet(tr) /\ new = {f[y] : y \in kept}
      BY <1>1, <1>3
    <3> QED
      BY ONLY <2>2, <3>1, <3>2, f \in [kept -> LayerRow], SharesEdited
  <2>4. SumFunctionOnSet(Share(tr, k), gone) = 0
    <3>1. \A y \in gone : Share(tr, k)[y] = 0
      <4> TAKE y \in gone
      <4>1. Drawn(tr, k, y) = 0 /\ Owed(y, k) = 0 /\ Share(tr, k)[y] = Drawn(tr, k, y) - Owed(y, k)
        <5>1. y \in ls /\ y.kind = "backorder" /\ y.line = l
          BY ONLY <1>10, y \in gone
        <5>2. Drawn(tr, k, y) = 0
          BY ONLY <1>8, <5>1
        <5>3. Owed(y, k) = 0
          BY ONLY <5>1, <2>1 DEF Owed
        <5>4. Share(tr, k)[y] = Drawn(tr, k, y) - Owed(y, k)
          BY <1>16, <5>1
        <5> QED
          BY <5>2, <5>3, <5>4
      <4> QED
        BY <4>1
    <3> QED
      BY <1>16, <3>1, SumZero
  <2>5. SumFunctionOnSet(Share(tr, k), kept) \in Int
    BY <1>3, <1>16, SumInt
  <2> QED
    BY <1>16, <2>1, <2>3, <2>4, <2>5
<1>18. Conserved(rows2, new, o)
  <2> DEFINE d == [y \in kept |-> Drawn(tr, l, y)]
             e == [y \in kept |-> d[y] * y.cost]
  <2>1. d \in [kept -> Int] /\ \A y \in kept : d[y] \in Nat
    BY <1>3, <1>7
  <2>2. \A y \in kept : y.qty \in Int /\ y.cost \in Nat /\ d[y] \in Nat /\ f[y].cost = y.cost /\ f[y].qty = y.qty + d[y]
    BY <1>3, <1>1, <2>1, RowIs
  <2>3. ASSUME NEW a \in Int, NEW b \in Nat, NEW c \in Nat
        PROVE  (a + b) * c = a * c + b * c /\ b * c \in Int
    BY Z3
  <2> HIDE DEF d
  <2>4. e \in [kept -> Int] /\ \A y \in kept : f[y].qty = y.qty + d[y] /\ f[y].qty * f[y].cost = y.qty * y.cost + e[y]
    <3>1. \A y \in kept : d[y] * y.cost \in Int /\ (y.qty + d[y]) * y.cost = y.qty * y.cost + d[y] * y.cost
      BY <2>2, <2>3
    <3>2. \A y \in kept : e[y] = d[y] * y.cost
      OBVIOUS
    <3>3. e \in [kept -> Int]
      BY <3>1
    <3> HIDE DEF e
    <3>4. ASSUME NEW y \in kept PROVE f[y].qty = y.qty + d[y] /\ f[y].qty * f[y].cost = y.qty * y.cost + e[y]
      <4>1. f[y].qty = y.qty + d[y] /\ f[y].cost = y.cost
        BY <2>2
      <4>2. f[y].qty * f[y].cost = (y.qty + d[y]) * y.cost
        BY <4>1
      <4> QED
        BY <3>1, <3>2, <4>1, <4>2
    <3> QED
      BY <3>3, <3>4
  <2> HIDE DEF e
  <2>5. Quantity(new) = Quantity(kept) + SumFunctionOnSet(d, kept)
    <3>1. \A y \in kept : SameLayer(f[y], y)
      OBVIOUS
    <3>2. Layered(kept, n) /\ new = {f[y] : y \in kept}
      BY <1>3
    <3>3. \A y \in kept : f[y].qty = y.qty + d[y] /\ f[y].qty * f[y].cost = y.qty * y.cost + e[y]
      BY <2>4
    <3>4. d \in [kept -> Int] /\ e \in [kept -> Int]
      BY <2>1, <2>4
    <3>5. f \in [kept -> LayerRow]
      OBVIOUS
    <3>6. Layered(kept, n)
      BY <3>2
    <3>7. new = {f[y] : y \in kept}
      BY <3>2
    <3>8. Quantity(new) = Quantity(kept) + SumFunctionOnSet(d, kept) /\ Worth(new) = Worth(kept) + SumFunctionOnSet(e, kept)
      BY ONLY <3>1, <3>3, <3>4, <3>5, <3>6, <3>7, EditedSums
    <3> QED
      BY <3>8
  <2>6. SumFunctionOnSet(Share(tr, l), kept) = SumFunctionOnSet(d, kept)
    <3>1. \A y \in kept : Share(tr, l)[y] = d[y]
      <4> TAKE y \in kept
      <4>1. y \in ls /\ Owed(y, l) = 0
        BY <1>3, <1>9 DEF Owed
      <4>2. Share(tr, l)[y] = Drawn(tr, l, y) - Owed(y, l) /\ Drawn(tr, l, y) \in Nat /\ d[y] = Drawn(tr, l, y)
        BY <1>7, <1>16, <4>1 DEF d
      <4> QED
        BY <4>1, <4>2
    <3> QED
      BY <1>16, <3>1, SumSame
  <2>7. SumFunctionOnSet(Share(tr, l), gone) = -Quantity(gone) /\ Quantity(gone) \in Int
    <3> DEFINE G == Share(tr, l)
    <3>1. gone \subseteq Holding /\ IsFiniteSet(gone) /\ Quantity(gone) = SumFunctionOnSet(Qty, gone) /\ Quantity(gone) \in Int
          /\ \A y \in gone : Qty[y] = y.qty /\ y.qty \in Int
      <4>1. Layered(gone, n)
        BY <1>1, <1>3, SubLayers
      <4> QED
        BY <4>1, LayersHeld
    <3>2. \A y \in gone : Qty[y] \in Int /\ G[y] = -Qty[y]
      <4> TAKE y \in gone
      <4>1. Drawn(tr, l, y) = 0 /\ Owed(y, l) = y.qty /\ Share(tr, l)[y] = Drawn(tr, l, y) - Owed(y, l)
        BY <1>8, <1>10, <1>16 DEF Owed
      <4>2. G[y] = -y.qty
        BY <3>1, <4>1
      <4> QED
        BY <3>1, <4>2
    <3> HIDE DEF G
    <3>3. SumFunctionOnSet(G, gone) = -SumFunctionOnSet(Qty, gone)
      BY <3>1, <3>2, SumNegate
    <3> QED
      BY <3>1, <3>3 DEF G
  <2>8. Quantity(ls) = Quantity(kept) + Quantity(gone) /\ Quantity(kept) \in Int
    <3>1. /\ IsFiniteSet(kept) /\ Quantity(kept) = SumFunctionOnSet(Qty, kept) /\ Quantity(kept) \in Int
      BY <1>3, <1>16, LayersHeld
    <3>2. /\ IsFiniteSet(gone) /\ Quantity(gone) = SumFunctionOnSet(Qty, gone)
      <4>1. Layered(gone, n)
        BY <1>1, <1>3, SubLayers
      <4> QED
        BY <4>1, <1>16, LayersHeld
    <3>3. Quantity(ls) = SumFunctionOnSet(Qty, ls) /\ \A y \in ls : Qty[y] \in Int
      BY <1>1, LayersHeld
    <3>4. \A y \in kept \cup gone : Qty[y] \in Int
      BY <1>3, <3>3
    <3>5. SumFunctionOnSet(Qty, kept \cup gone) = SumFunctionOnSet(Qty, kept) + SumFunctionOnSet(Qty, gone)
      BY <1>3, <3>1, <3>2, <3>4, SumUnion
    <3> QED
      BY <1>3, <3>1, <3>2, <3>3, <3>5
  <2>9. SumFunctionOnSet(Share(tr, l), ls) = q
    BY <1>0 DEF Tally, IssuesDrawn
  <2>10. SumFunctionOnSet(d, kept) \in Int
    BY <1>16, <2>1, SumInt
  <2>11. Quantity(new) = Quantity(ls) + q
    BY <1>1, <1>16, <2>5, <2>6, <2>7, <2>8, <2>9, <2>10
  <2>12. Base(new, o) = Base(ls, o)
    <3>1. ASSUME NEW z \in new, z.kind = "opening" PROVE \E y \in ls : y.kind = "opening"
      <4>1. PICK y \in kept : z = f[y]
        BY <1>11
      <4>2. y \in ls /\ f[y].kind = y.kind
        BY <1>3, <1>5
      <4> QED
        BY <3>1, <4>1, <4>2
    <3>2. ASSUME NEW y \in ls, y.kind = "opening" PROVE \E z \in new : z.kind = "opening"
      <4>1. y \in kept
        BY <3>2
      <4>2. f[y] \in new /\ f[y].kind = "opening"
        BY <1>5, <1>11, <3>2, <4>1
      <4> QED
        BY <4>2
    <3> QED
      BY <3>1, <3>2 DEF Base
  <2>13. SumFunctionOnSet(Flow(rows2), Lines) = SumFunctionOnSet(Flow(rows), Lines) - Flows(rows[l]) + Flows(rows2[l])
    BY <1>1, <1>2, FlowChanged
  <2>14. Flows(rows[l]) = -q /\ Flows(rows2[l]) = 0
    BY <1>0, <1>2 DEF Flows
  <2>15. SumFunctionOnSet(Flow(rows), Lines) \in Int /\ Base(ls, o) \in Int
    BY <1>1, FlowIs DEF Base
  <2>16. Quantity(ls) = Base(ls, o) + SumFunctionOnSet(Flow(rows), Lines)
    BY DEF Tally, Conserved
  <2> QED
    BY <1>1, <2>11, <2>12, <2>13, <2>14, <2>15, <2>16 DEF Conserved
<1> QED
  BY <1>12, <1>13, <1>14, <1>15, <1>17, <1>18 DEF Tally

-----------------------------------------------------------------------------
(* A replay draws up the same account from nothing.                        *)

\* The documents whose movements a replay has come to; the others as if they were drafts.
Undone(row) == [row EXCEPT !.status = "DRAFT"]
RunRows(rows, done) == [l \in Lines |-> IF l \in done THEN rows[l] ELSE Undone(rows[l])]

LEMMA RunRowsAre ==
    ASSUME NEW rows, ReadRows(rows), NEW done
    PROVE  /\ ReadRows(RunRows(rows, done))
           /\ \A l \in Lines : /\ RunRows(rows, done)[l].type = rows[l].type /\ RunRows(rows, done)[l].qty = rows[l].qty
                               /\ l \in done => RunRows(rows, done)[l] = rows[l]
                               /\ l \notin done => RunRows(rows, done)[l].status = "DRAFT"
PROOF
<1> DEFINE new == RunRows(rows, done)
<1>1. ASSUME NEW l \in Lines
      PROVE  /\ new[l] \in LineRow /\ RowFits(new[l]) /\ new[l].type = rows[l].type /\ new[l].qty = rows[l].qty
             /\ (l \in done => new[l] = rows[l]) /\ (l \notin done => new[l].status = "DRAFT")
  <2>1. rows[l] \in LineRow /\ RowFits(rows[l])
    BY DEF ReadRows, Rows
  <2>2. new[l] = IF l \in done THEN rows[l] ELSE Undone(rows[l])
    BY DEF RunRows
  <2>3. Undone(rows[l]) \in LineRow /\ RowFits(Undone(rows[l])) /\ Undone(rows[l]).type = rows[l].type
        /\ Undone(rows[l]).qty = rows[l].qty /\ Undone(rows[l]).status = "DRAFT"
    BY <2>1 DEF Undone, LineRow, RowFits
  <2> HIDE DEF new
  <2> QED
    BY <2>1, <2>2, <2>3
<1>2. new \in Rows
  <2>1. \E g : new = [l \in Lines |-> g[l]]
    <3> DEFINE g == [l \in Lines |-> IF l \in done THEN rows[l] ELSE Undone(rows[l])]
    <3>1. new = [l \in Lines |-> g[l]]
      BY DEF RunRows
    <3> QED
      BY <3>1
  <2>2. \A l \in Lines : new[l] \in LineRow
    BY <1>1
  <2> HIDE DEF new
  <2> QED
    BY <2>1, <2>2 DEF Rows
<1> HIDE DEF new
<1>3. ReadRows(new)
  BY <1>1, <1>2 DEF ReadRows
<1> QED
  BY <1>1, <1>3 DEF new

LEMMA EmptyTally ==
    ASSUME NEW rows, ReadRows(rows), NEW n \in Nat, NEW o, \A l \in Lines : rows[l].status # "POSTED"
    PROVE  Ledger(rows, {}, {}, n) /\ Tally(rows, {}, {}, n, o)
PROOF
<1>1. Ledger(rows, {}, {}, n)
  BY FS_EmptySet DEF Ledger, Layered
<1>2. Conserved(rows, {}, o)
  <2>1. \A l \in Lines : Flow(rows)[l] = 0
    BY DEF Flow, Flows
  <2>2. SumFunctionOnSet(Flow(rows), Lines) = 0
    BY <2>1, LinesAssumption, SumZero
  <2>3. Base({}, o) = 0
    BY DEF Base
  <2> QED
    BY <2>2, <2>3, NothingDrawn DEF Conserved
<1> QED
  BY <1>1, <1>2 DEF Tally, TrailFits, ReceiptsFit, OwedFits, LayersTrailed, IssuesDrawn

RunTally(rows, ls, r) == Tally(RunRows(rows, ls), r.layers, r.trail, r.id - 1, opening)

LEMMA EmptiedTally ==
    ASSUME NEW rows, ReadRows(rows), opening \in Openings, NEW b \in Nat \ {0}
    PROVE  RunTally(rows, {}, Emptied(rows, b))
PROOF
<1>0. SUFFICES ASSUME NEW r, r = Emptied(rows, b), NEW none, none = RunRows(rows, {}), NEW n, n = b - 1
               PROVE  Tally(none, r.layers, r.trail, r.id - 1, opening)
  BY DEF RunTally
<1>1. r.layers = (IF opening > 0 THEN {OpeningLayer(b)} ELSE {}) /\ r.id = b + 1 /\ r.trail = {}
  BY <1>0 DEF Emptied
<1>2. r.id - 1 = b /\ n \in Nat /\ b = n + 1 /\ b \in Nat
  BY <1>0, <1>1
<1>3. ReadRows(none) /\ \A l \in Lines : none[l].status # "POSTED"
  BY <1>0, RunRowsAre
<1>4. CASE opening > 0
  <2>1. Ledger(none, {}, {}, n) /\ Tally(none, {}, {}, n, opening)
    BY <1>2, <1>3, EmptyTally
  <2>2. MustSeed({}) /\ Seeded({}, b) = {OpeningLayer(b)}
    BY <1>4 DEF MustSeed, Seeded
  <2>3. Tally(none, Seeded({}, b), {}, b, opening)
    BY <1>2, <2>1, <2>2, SeedTally
  <2> QED
    BY <1>1, <1>2, <1>4, <2>2, <2>3
<1>5. CASE ~(opening > 0)
  BY <1>1, <1>2, <1>3, <1>5, EmptyTally
<1> QED
  BY <1>4, <1>5

LEMMA RepostTally ==
    ASSUME NEW rows, ReadRows(rows), NEW now \in Rows, opening \in Openings, NEW ls, NEW b \in Nat \ {0}, NEW r,
           RunFits(rows, ls, r, b), RunTally(rows, ls, r),
           NEW l \in Movements(rows), l \notin ls, NEW s, s = Repost(rows, now, r, l)
    PROVE  RunTally(rows, ls \cup {l}, s)
PROOF
<1>0. SUFFICES ASSUME NEW m, m = rows[l], NEW n, n = r.id - 1, NEW old, old = RunRows(rows, ls),
                      NEW new, new = RunRows(rows, ls \cup {l})
               PROVE  Tally(new, s.layers, s.trail, s.id - 1, opening)
  BY DEF RunTally
<1>1. /\ l \in Lines /\ m.type \in {"receipt", "issue"} /\ m.status = "POSTED"
      /\ m.date \in Nat /\ m.qty \in Nat /\ m.rate \in Nat
  BY <1>0, MovementIs
<1>2. /\ r.id \in Nat /\ n \in Nat /\ n < r.id /\ Layered(r.layers, n) /\ r.trail \subseteq TrailRow /\ IsFiniteSet(r.trail)
  BY <1>0 DEF RunFits
<1>3. ReadRows(old) /\ ReadRows(new)
  BY <1>0, RunRowsAre
<1>4. old[l].status = "DRAFT" /\ old[l].type = m.type /\ old[l].qty = m.qty
  BY <1>0, <1>1, RunRowsAre
<1>5. RowMoved(old, new, l, "POSTED")
  <2>1. new[l] = rows[l]
    BY <1>0, <1>1, RunRowsAre
  <2>2. \A k \in Lines \ {l} : new[k] = old[k]
    BY <1>0 DEF RunRows
  <2> QED
    BY <1>0, <1>1, <1>4, <2>1, <2>2 DEF RowMoved
<1>6. Ledger(old, r.layers, r.trail, n) /\ Tally(old, r.layers, r.trail, n, opening)
  BY <1>0, <1>2, <1>3 DEF Ledger, RunTally
<1>7. opening \in Nat
  BY DataAssumption
<1>8. CASE m.type = "receipt"
  <2>1. s.layers = r.layers \cup {ReceiptLayer(r.id, l, m.date, old[l].qty, m.rate)} /\ s.id = r.id + 1 /\ s.trail = r.trail
    <3>1. m = rows[l] /\ s = Repost(rows, now, r, l) /\ m.type = "receipt"
      BY <1>0, <1>8
    <3>2. s.layers = r.layers \cup {ReceiptLayer(r.id, l, m.date, m.qty, m.rate)} /\ s.id = r.id + 1 /\ s.trail = r.trail
      BY ONLY <3>1 DEF Repost
    <3> QED
      BY <1>4, <3>2
  <2>2. old[l].type = "receipt"
    BY <1>4, <1>8
  <2>3. Tally(new, s.layers, r.trail, r.id, opening)
    BY <1>1, <1>2, <1>3, <1>4, <1>5, <1>6, <1>7, <2>1, <2>2, ReceiptTally
  <2>4. s.id - 1 = r.id
    BY <1>2, <2>1
  <2> QED
    BY <2>1, <2>3, <2>4
<1>9. CASE m.type = "issue"
  <2>0. SUFFICES ASSUME NEW h, h = Historic(rows, now, l), NEW q, q = m.qty
                 PROVE  Tally(new, s.layers, s.trail, s.id - 1, opening)
    OBVIOUS
  <2>1. /\ s.layers = AfterIssue(r.layers, r.layers, q) \cup ShortfallLayer(r.id, r.layers, l, m.date, q, h)
        /\ s.id = r.id + 1 /\ s.trail = r.trail \cup Consumptions(r.layers, l, q)
    <3> DEFINE a == IssueAmount(r.layers, m.qty, h)
    <3>1. m = rows[l] /\ s = Repost(rows, now, r, l) /\ m.type = "issue" /\ h = Historic(rows, now, l)
          /\ a = IssueAmount(r.layers, m.qty, h)
      BY <1>0, <1>9, <2>0
    <3> HIDE DEF a
    <3>2. /\ s.layers = AfterIssue(r.layers, r.layers, m.qty) \cup ShortfallLayer(r.id, r.layers, l, m.date, m.qty, h)
          /\ s.id = r.id + 1 /\ s.trail = r.trail \cup Consumptions(r.layers, l, m.qty)
      BY ONLY <3>1 DEF Repost, Historic
    <3> QED
      BY <2>0, <3>2
  <2>2. h \in Nat /\ q = old[l].qty /\ old[l].type = "issue"
    BY <1>4, <1>9, <2>0, HistoricNat
  <2>3. Tally(new, s.layers, s.trail, r.id, opening)
    BY <1>1, <1>2, <1>3, <1>4, <1>5, <1>6, <1>7, <2>1, <2>2, IssueTally
  <2>4. s.id - 1 = r.id
    BY <1>2, <2>1
  <2> QED
    BY <2>3, <2>4
<1> QED
  BY <1>1, <1>8, <1>9

LEMMA ReplayTally ==
    ASSUME NEW rows, ReadRows(rows), NEW now \in Rows, opening \in Openings, NEW b \in Nat \ {0}
    PROVE  RunTally(rows, Movements(rows), Replayed(rows, now, b))
PROOF
<1> DEFINE M == Movements(rows)
           r(V) == ReplayOf(rows, now, b)[V]
           T == {V \in SUBSET M : ~RunTally(rows, V, r(V))}
<1>1. SUFFICES ASSUME T # {} PROVE FALSE
  <2>1. M \in SUBSET M
    OBVIOUS
  <2> QED
    BY <1>1, <2>1 DEF Replayed
<1>2. M \subseteq Lines /\ rows \in Rows
  BY DEF Movements, ReadRows
<1>3. PICK V \in T : \A W \in T : W \subseteq V => W = V
  <2>1. T \subseteq SUBSET M /\ IsFiniteSet(M)
    BY <1>2, LinesAssumption, FS_Subset
  <2> HIDE DEF T, M
  <2> QED
    BY <1>1, <2>1, SmallestMember
<1>4. V \subseteq M /\ ~RunTally(rows, V, r(V))
  BY <1>3
<1>5. r(V) = IF V = {} THEN Emptied(rows, b) ELSE Step(rows, now, r(Rest(rows, V)), V)
  BY <1>2, <1>4, ReplayUnfolds
<1>6. V # {}
  BY <1>4, <1>5, EmptiedTally
<1> DEFINE l == LastOf(rows, V)
           U == Rest(rows, V)
<1>7. l \in V /\ l \in M /\ U \subseteq V /\ U # V /\ l \notin U /\ V = U \cup {l} /\ U \in SUBSET M
  BY <1>2, <1>4, <1>6, LastIs DEF Rest
<1>8. RunTally(rows, U, r(U)) /\ RunFits(rows, U, r(U), b)
  BY <1>3, <1>4, <1>7, ReplayRuns
<1>9. r(V) = Repost(rows, now, r(U), l)
  BY <1>5, <1>6 DEF Step
<1> HIDE DEF r, l, U, T, M
<1>10. RunTally(rows, U \cup {l}, r(V))
  BY <1>7, <1>8, <1>9, RepostTally DEF M
<1> QED
  BY <1>4, <1>7, <1>10

-----------------------------------------------------------------------------
(* Every step keeps the tally, one process at a time.                      *)

TallyNow == Tally(lines, layers, trail, lastId, opening)

LEMMA NowLedger ==
    ASSUME Consistent
    PROVE  /\ Ledger(lines, layers, trail, lastId) /\ opening \in Openings /\ opening \in Nat /\ lastId \in Nat
           /\ ReadRows(lines) /\ lines \in Rows /\ Layered(layers, lastId)
           /\ trail \subseteq TrailRow /\ IsFiniteSet(trail)
  BY DataAssumption DEF Consistent, TablesFit, LayersFit, Ledger, ReadRows

LEMMA TallyInit ==
    ASSUME Init
    PROVE  TallyNow
PROOF
<1>1. ReadRows(lines)
  BY ConsistentInit, NowLedger
<1>2. \A l \in Lines : lines[l].status # "POSTED"
  <2>1. \A l \in Lines : lines[l] \in Drafts[l]
    BY DEF Init
  <2>2. \A l \in Lines : lines[l].status = "DRAFT"
    BY <2>1, DraftsAssumption DEF IsDraft
  <2> QED
    BY <2>2
<1>3. layers = {} /\ trail = {} /\ lastId = 0
  BY DEF Init
<1>4. Tally(lines, {}, {}, 0, opening)
  BY <1>1, <1>2, EmptyTally
<1> QED
  BY <1>3, <1>4 DEF TallyNow

\* The layers with the opening that a posting seeds.
LEMMA SeededTally ==
    ASSUME Consistent, TallyNow, NEW p, seen[p].layers = layers, NEW old, old = OrSeeded(p, layers),
           NEW n, n = FirstId(p) - 1
    PROVE  /\ Ledger(lines, old, trail, n) /\ Tally(lines, old, trail, n, opening)
           /\ n \in Nat /\ FirstId(p) \in Nat /\ n < FirstId(p)
PROOF
<1>1. /\ Ledger(lines, layers, trail, lastId) /\ opening \in Openings /\ lastId \in Nat
      /\ Layered(layers, lastId) /\ ReadRows(lines) /\ trail \subseteq TrailRow /\ IsFiniteSet(trail)
  BY NowLedger
<1>2. Layered(old, n) /\ FirstId(p) \in Nat /\ n \in Nat
  BY <1>1, SeededLayers
<1>3. n < FirstId(p)
  BY <1>2
<1>4. Ledger(lines, old, trail, n)
  BY <1>1, <1>2 DEF Ledger
<1>5. Tally(lines, layers, trail, lastId, opening)
  BY DEF TallyNow
<1>6. CASE SeedFirst(p)
  <2>1. MustSeed(layers) /\ old = Seeded(layers, lastId + 1) /\ FirstId(p) = lastId + 2
    BY <1>6 DEF SeedFirst, OrSeeded, FirstId
  <2>2. n = lastId + 1
    BY <1>1, <2>1
  <2>3. Tally(lines, Seeded(layers, n), trail, n, opening)
    BY <1>1, <1>5, <2>1, <2>2, SeedTally
  <2> QED
    BY <1>2, <1>3, <1>4, <2>1, <2>2, <2>3
<1>7. CASE ~SeedFirst(p)
  <2>1. old = layers /\ FirstId(p) = lastId + 1
    BY <1>7 DEF OrSeeded, FirstId
  <2>2. n = lastId
    BY <1>1, <2>1
  <2> QED
    BY <1>2, <1>3, <1>4, <1>5, <2>1, <2>2
<1> QED
  BY <1>6, <1>7

\* The document of a posting, and its row afterwards.
LEMMA Moves ==
    ASSUME Consistent, NEW l \in Lines, NEW rate \in Nat, NEW amount \in Int,
           lines[l].type # "revaluation" => amount >= 0, Record(l, rate, amount)
    PROVE  ReadRows(lines') /\ RowMoved(lines, lines', l, "POSTED")
PROOF
<1>1. ReadRows(lines) /\ lines[l] \in LineRow
  BY NowLedger DEF Rows
<1>2. /\ ReadRows(lines') /\ lines'[l] = PostedRow(lines[l], rate, amount)
      /\ \A k \in Lines \ {l} : lines'[k] = lines[k]
  BY <1>1, Recorded
<1>3. lines'[l].type = lines[l].type /\ lines'[l].qty = lines[l].qty /\ lines'[l].status = "POSTED"
  BY <1>1, <1>2 DEF PostedRow, LineRow
<1> QED
  BY <1>2, <1>3 DEF RowMoved

LEMMA ReceiptNow ==
    ASSUME Consistent, Fresh, TallyNow, NEW p \in Procs, PostReceipt(p)
    PROVE  TallyNow'
PROOF
<1>0. SUFFICES ASSUME NEW l, l = call[p].line, NEW old, old = OrSeeded(p, layers), NEW n, n = FirstId(p) - 1
               PROVE  TallyNow'
  OBVIOUS
<1>1. call[p].op = "receipt" /\ "receipt" \in Documents
  BY DEF PostReceipt, At, Documents
<1>2. l \in Lines /\ lines[l].type = "receipt" /\ lines[l] \in LineRow /\ lines[l].status = "DRAFT"
  BY <1>0, <1>1, CallIs DEF PostReceipt
<1>3. seen[p].layers = layers
  BY <1>1, Reads
<1>4. /\ Ledger(lines, old, trail, n) /\ Tally(lines, old, trail, n, opening)
      /\ n \in Nat /\ FirstId(p) \in Nat /\ n < FirstId(p)
  BY <1>0, <1>3, SeededTally
<1>5. lines[l].date \in Nat /\ lines[l].qty \in Nat /\ lines[l].rate \in Nat /\ lines[l].qty * lines[l].rate \in Nat
  BY <1>2 DEF LineRow
<1>6. Record(l, lines[l].rate, lines[l].qty * lines[l].rate)
  BY <1>0 DEF PostReceipt
<1>7. ReadRows(lines') /\ RowMoved(lines, lines', l, "POSTED")
  BY <1>2, <1>5, <1>6, Moves
<1>8. /\ layers' = old \cup {ReceiptLayer(FirstId(p), l, lines[l].date, lines[l].qty, lines[l].rate)}
      /\ lastId' = FirstId(p) /\ trail' = trail /\ opening' = opening
  BY <1>0 DEF PostReceipt
<1>9. opening \in Nat
  BY NowLedger
<1>10. Tally(lines', layers', trail, FirstId(p), opening)
  BY <1>2, <1>4, <1>5, <1>7, <1>8, <1>9, ReceiptTally
<1> QED
  BY <1>8, <1>10 DEF TallyNow

LEMMA IssueNow ==
    ASSUME Consistent, Fresh, TallyNow, NEW p \in Procs, PostIssue(p)
    PROVE  TallyNow'
PROOF
<1>0. SUFFICES ASSUME NEW l, l = call[p].line, NEW old, old = OrSeeded(p, layers), NEW n, n = FirstId(p) - 1,
                      NEW h, h = HistoricCost(lines, Inward(lines)), NEW q, q = lines[l].qty,
                      NEW amount, amount = IssueAmount(old, q, h)
               PROVE  TallyNow'
  OBVIOUS
<1>1. call[p].op = "issue" /\ "issue" \in Documents
  BY DEF PostIssue, At, Documents
<1>2. /\ l \in Lines /\ lines[l].type = "issue" /\ lines[l] \in LineRow /\ lines[l].status = "DRAFT"
      /\ RowFits(lines[l])
  BY <1>0, <1>1, CallIs DEF PostIssue
<1>3. seen[p].layers = layers
  BY <1>1, Reads
<1>4. /\ Ledger(lines, old, trail, n) /\ Tally(lines, old, trail, n, opening)
      /\ n \in Nat /\ FirstId(p) \in Nat /\ n < FirstId(p)
  BY <1>0, <1>3, SeededTally
<1>5. lines[l].date \in Nat /\ q \in Nat \ {0}
  BY <1>0, <1>2 DEF LineRow, RowFits
<1>6. h \in Nat
  <2>1. Inward(lines) \subseteq Lines /\ lines \in Rows
    BY NowLedger DEF Inward
  <2> QED
    BY <1>0, <2>1, HistoricIs
<1>7. amount \in Nat
  <2>1. Layered(old, n)
    BY <1>4 DEF Ledger
  <2> QED
    BY <1>0, <1>5, <1>6, <2>1, IssueAmountIs
<1>8. Record(l, Rounded(amount, q), amount)
  BY <1>0, <1>3 DEF PostIssue
<1>9. Rounded(amount, q) \in Nat
  BY <1>5, <1>7, RoundedIs
<1>10. ReadRows(lines') /\ RowMoved(lines, lines', l, "POSTED")
  BY <1>2, <1>7, <1>8, <1>9, Moves
<1>11. /\ layers' = AfterIssue(old, old, q) \cup ShortfallLayer(FirstId(p), old, l, lines[l].date, q, h)
       /\ trail' = trail \cup Consumptions(old, l, q)
       /\ lastId' = FirstId(p) /\ opening' = opening
  BY <1>0, <1>3 DEF PostIssue
<1>12. opening \in Nat /\ q = lines[l].qty /\ q \in Nat
  BY <1>0, <1>5, NowLedger
<1>13. Tally(lines', layers', trail', FirstId(p), opening)
  BY ONLY <1>2, <1>4, <1>5, <1>6, <1>10, <1>11, <1>12, IssueTally
<1> QED
  BY <1>11, <1>13 DEF TallyNow

\* A step that changes costs of layers, and of a line only what moves nothing.
LEMMA CostsNow ==
    ASSUME Consistent, TallyNow, NEW f \in [layers -> LayerRow],
           \A y \in layers : SameLayer(f[y], y) /\ f[y].qty = y.qty, layers' = {f[y] : y \in layers},
           ReadRows(lines'), Alike(lines, lines'), trail' = trail, lastId' = lastId, opening' = opening
    PROVE  TallyNow'
PROOF
<1>1. Ledger(lines, layers, trail, lastId) /\ ReadRows(lines) /\ trail \subseteq TrailRow /\ IsFiniteSet(trail)
      /\ Layered(layers, lastId)
  BY NowLedger
<1>2. Tally(lines, layers, trail, lastId, opening)
  BY DEF TallyNow
<1>3. Tally(lines, layers', trail, lastId, opening)
  BY <1>1, <1>2, CostsTally
<1>4. Layered(layers', lastId)
  <2>1. \A y \in layers : f[y] \in LayerRow /\ SameLayer(f[y], y)
    OBVIOUS
  <2>2. \A y \in layers : f[y].qty < 0 => y.kind = "backorder"
    BY <1>1 DEF Layered
  <2>3. Layered({f[y] : y \in layers}, lastId)
    BY <1>1, <2>1, <2>2, EditedLayers
  <2> QED
    BY <2>3
<1>5. Ledger(lines, layers', trail, lastId)
  BY <1>1, <1>4 DEF Ledger
<1>6. Tally(lines', layers', trail, lastId, opening)
  BY <1>3, <1>5, AlikeTally
<1> QED
  BY <1>6 DEF TallyNow

LEMMA LandedNow ==
    ASSUME Consistent, Fresh, TallyNow, NEW p \in Procs, PostLandedCost(p)
    PROVE  TallyNow'
PROOF
<1>0. SUFFICES ASSUME NEW l, l = call[p].line, NEW row, row = seen[p].lines[l], NEW charge, charge = call[p].charge,
                      NEW perUnit, perUnit = Rounded(charge, row.qty), NEW opened, opened = LayersOf(seen[p].layers, l),
                      NEW gain, gain = SumFunction([x \in opened |-> Absorbed(x, perUnit)]),
                      NEW amount, amount = row.amount + gain, NEW rate, rate = Rounded(amount, row.qty)
               PROVE  TallyNow'
  OBVIOUS
<1>1. /\ l \in Lines /\ lines[l].type = "receipt" /\ Snapshot(seen[p].lines) /\ charge \in Charges
      /\ Layered(seen[p].layers, lastId)
  BY <1>0, CallIs DEF PostLandedCost, At, Documents
<1>2. layers' = {Raised(y, opened, perUnit) : y \in layers}
  <2>1. layers' = {Raised(y, LayersOf(seen[p].layers, call[p].line),
                          Rounded(call[p].charge, seen[p].lines[call[p].line].qty)) : y \in layers}
    BY DEF PostLandedCost, Raised
  <2> QED
    BY <1>0, <2>1
<1>3. lines' = IF gain = 0 THEN lines ELSE [lines EXCEPT ![l].amount = amount, ![l].rate = rate]
  BY <1>0 DEF PostLandedCost
<1>4. trail' = trail /\ lastId' = lastId /\ opening' = opening
  BY DEF PostLandedCost
<1>5. ReadRows(lines) /\ Layered(layers, lastId) /\ layers \subseteq LayerRow
  BY NowLedger DEF Layered
<1>6. perUnit \in Nat
  <2>1. row \in LineRow /\ RowFits(row) /\ row.type = "receipt"
    BY <1>0, <1>1 DEF Snapshot, ReadRows, Rows, Outdated
  <2>2. row.qty \in Nat \ {0} /\ charge \in Nat
    BY <1>1, <2>1, DataAssumption DEF LineRow, RowFits
  <2> QED
    BY <1>0, <2>2, RoundedIs
<1>7. opened \subseteq LayerRow
  BY <1>0, <1>1 DEF LayersOf, Layered
<1> DEFINE f == [y \in layers |-> Raised(y, opened, perUnit)]
<1>8. \A y \in layers : f[y] \in LayerRow /\ SameLayer(f[y], y) /\ f[y].qty = y.qty
  <2> TAKE y \in layers
  <2>1. y \in LayerRow
    BY <1>5
  <2>2. f[y] = Raised(y, opened, perUnit)
    OBVIOUS
  <2>3. Raised(y, opened, perUnit) \in LayerRow /\ SameLayer(Raised(y, opened, perUnit), y)
        /\ Raised(y, opened, perUnit).qty = y.qty
    BY <1>6, <1>7, <2>1, RaisedIs
  <2> QED
    BY <2>2, <2>3
<1>9. f \in [layers -> LayerRow]
  BY <1>8
<1>10. layers' = {f[y] : y \in layers}
  BY <1>2
<1> HIDE DEF f
<1>11. ReadRows(lines')
  BY LandedTables DEF TablesFit
<1>12. Alike(lines, lines')
  <2>1. CASE gain = 0
    BY <1>3, <2>1 DEF Alike
  <2>2. CASE gain # 0
    <3>1. lines' = [lines EXCEPT ![l].amount = amount, ![l].rate = rate]
      BY <1>3, <2>2
    <3>2. \A k \in Lines : lines'[k].type = lines[k].type /\ lines'[k].qty = lines[k].qty /\ lines'[k].status = lines[k].status
      BY <1>1, <1>5, <3>1 DEF ReadRows, Rows, LineRow
    <3> QED
      BY <3>2 DEF Alike
  <2> QED
    BY <2>1, <2>2
<1>13. \A y \in layers : SameLayer(f[y], y) /\ f[y].qty = y.qty
  BY <1>8
<1> QED
  BY ONLY Consistent, TallyNow, <1>4, <1>9, <1>10, <1>11, <1>12, <1>13, CostsNow

LEMMA RevaluationNow ==
    ASSUME Consistent, Fresh, TallyNow, NEW p \in Procs, PostRevaluation(p)
    PROVE  TallyNow'
PROOF
<1>0. SUFFICES ASSUME NEW l, l = call[p].line, NEW cost, cost = lines[l].rate, NEW priced, priced = Open(seen[p].layers),
                      NEW delta, delta = SumFunction([x \in priced |-> x.qty * (cost - x.cost)])
               PROVE  TallyNow'
  OBVIOUS
<1>1. /\ l \in Lines /\ lines[l].type = "revaluation" /\ lines[l] \in LineRow /\ Layered(seen[p].layers, lastId)
  BY <1>0, CallIs DEF PostRevaluation, At, Documents
<1>2. layers' = {Repriced(y, priced, cost) : y \in layers} /\ Record(l, cost, delta)
  BY <1>0 DEF PostRevaluation, Repriced
<1>3. trail' = trail /\ lastId' = lastId /\ opening' = opening
  BY DEF PostRevaluation
<1>4. layers \subseteq LayerRow
  BY NowLedger DEF Layered
<1>5. cost \in Nat
  BY <1>0, <1>1 DEF LineRow
<1>6. delta \in Int
  BY <1>0, <1>1, <1>5, DeltaIs
<1>7. ReadRows(lines') /\ RowMoved(lines, lines', l, "POSTED")
  BY <1>1, <1>2, <1>5, <1>6, Moves
<1>8. Alike(lines, lines')
  <2>1. lines[l].status = "DRAFT" /\ lines'[l].status # "DRAFT"
    BY <1>0, <1>7 DEF PostRevaluation, RowMoved
  <2>2. lines'[l].type = lines[l].type /\ lines'[l].qty = lines[l].qty /\ \A k \in Lines : k # l => lines'[k] = lines[k]
    BY <1>7 DEF RowMoved
  <2> QED
    BY <1>1, <2>1, <2>2 DEF Alike
<1> DEFINE f == [y \in layers |-> Repriced(y, priced, cost)]
<1>9. \A y \in layers : f[y] \in LayerRow /\ SameLayer(f[y], y) /\ f[y].qty = y.qty
  <2> TAKE y \in layers
  <2>1. y \in LayerRow
    BY <1>4
  <2>2. f[y] = Repriced(y, priced, cost)
    OBVIOUS
  <2> HIDE DEF f
  <2> QED
    BY <1>5, <2>1, <2>2, RepricedIs
<1>10. f \in [layers -> LayerRow] /\ layers' = {f[y] : y \in layers}
  BY <1>2, <1>9
<1> HIDE DEF f
<1>11. \A y \in layers : SameLayer(f[y], y) /\ f[y].qty = y.qty
  BY <1>9
<1>12. f \in [layers -> LayerRow]
  BY <1>10
<1>13. layers' = {f[y] : y \in layers}
  BY <1>10
<1> QED
  BY ONLY Consistent, TallyNow, <1>3, <1>7, <1>8, <1>11, <1>12, <1>13, CostsNow

LEMMA ReverseNow ==
    ASSUME Consistent, Fresh, TallyNow, NEW p \in Procs, ReverseDocument(p)
    PROVE  TallyNow'
PROOF
<1>0. SUFFICES ASSUME NEW l, l = call[p].line PROVE TallyNow'
  OBVIOUS
<1>1. call[p].op = "reverse" /\ "reverse" \in Documents
  BY DEF ReverseDocument, At, Documents
<1>2. /\ l \in Lines /\ lines[l] \in LineRow /\ lines[l].status = "POSTED" /\ seen[p].layers = layers
  BY <1>0, <1>1, CallIs, Reads DEF ReverseDocument
<1>3. /\ Ledger(lines, layers, trail, lastId) /\ ReadRows(lines) /\ opening \in Nat /\ trail \subseteq TrailRow
      /\ IsFiniteSet(trail) /\ layers \subseteq LayerRow
  BY NowLedger DEF Layered
<1>4. opening' = opening /\ lines' = [lines EXCEPT ![l].status = "REVERSED"]
  BY <1>0 DEF ReverseDocument
<1>5. ReadRows(lines') /\ RowMoved(lines, lines', l, "REVERSED")
  <2>1. /\ ReadRows(lines') /\ lines'[l] = ReversedRow(lines[l]) /\ \A k \in Lines \ {l} : lines'[k] = lines[k]
    BY <1>2, <1>3, <1>4, LineReversed
  <2>2. lines'[l].type = lines[l].type /\ lines'[l].qty = lines[l].qty /\ lines'[l].status = "REVERSED"
    BY <1>2, <2>1 DEF ReversedRow, LineRow
  <2> QED
    BY <2>1, <2>2 DEF RowMoved
<1>6. Tally(lines, layers, trail, lastId, opening)
  BY DEF TallyNow
<1>7. CASE lines[l].type = "receipt" /\ WithdrawReceipt(p)
  <2>0. SUFFICES ASSUME NEW owed, owed = {x \in LayersOf(layers, l) : AlreadyConsumed(x) > 0},
                        NEW rest, rest = WithdrawnFrom(layers, l), NEW at, at = lines[l].date
                 PROVE  TallyNow'
    OBVIOUS
  <2>1. rest = {IF \E x \in LayersOf(layers, l) : x.id = y.id THEN [y EXCEPT !.qty = 0] ELSE y : y \in layers}
    BY <2>0 DEF WithdrawnFrom, Withdrawn
  <2>2. /\ layers' = rest \cup {Backorder(lastId + 1, l, at, AlreadyConsumed(x), x.cost) : x \in owed}
        /\ lastId' = IF owed = {} THEN lastId ELSE lastId + 1
        /\ trail' = trail
    BY <1>0, <1>2, <1>7, <2>0, <2>1 DEF WithdrawReceipt
  <2>3. at \in Nat
    BY <1>2, <2>0 DEF LineRow
  <2>4. layers' = WithdrawnFrom(layers, l) \cup Backorders(lastId + 1, l, at, owed)
    BY <2>0, <2>2 DEF Backorders
  <2>5. owed = OwedOf(LayersOf(layers, l))
    BY <2>0 DEF OwedOf
  <2>6. lastId' = IF owed = {} THEN lastId ELSE lastId + 1
    BY <2>2
  <2>7. lines[l].type = "receipt"
    BY <1>7
  <2>8. Tally(lines', layers', trail, lastId', opening)
    BY ONLY <1>2, <1>3, <1>5, <1>6, <2>3, <2>4, <2>5, <2>6, <2>7, WithdrawTally
  <2> QED
    BY <1>4, <2>2, <2>8 DEF TallyNow
<1>8. CASE lines[l].type = "issue" /\ GiveBackIssue(p)
  <2>0. SUFFICES ASSUME NEW kept, kept = {y \in layers : ~(y.kind = "backorder" /\ y.line = l)}
                 PROVE  TallyNow'
    OBVIOUS
  <2>1. layers' = {Refilled(y, l) : y \in kept} /\ trail' = {t \in trail : t.line # l} /\ lastId' = lastId
    BY <1>0, <1>8, <2>0 DEF GiveBackIssue, Refilled, DropTrail
  <2> DEFINE f == [y \in kept |-> Refilled(y, l)]
  <2>2. \A y \in kept : /\ f[y] \in LayerRow
                        /\ SameLayer(f[y], y) /\ f[y].cost = y.cost /\ f[y].qty = y.qty + Drawn(trail, l, y)
    <3> TAKE y \in kept
    <3>1. y \in LayerRow
      BY <1>3, <2>0
    <3>2. f[y] = Refilled(y, l)
      OBVIOUS
    <3>3. Drawn(trail, l, y) = TakenFrom(y, l)
      BY DEF Drawn, TakenFrom
    <3> HIDE DEF f
    <3> QED
      BY <1>3, <3>1, <3>2, <3>3, RefilledIs
  <2>3. f \in [kept -> LayerRow] /\ layers' = {f[y] : y \in kept}
    BY <2>1, <2>2
  <2> HIDE DEF f
  <2>4. \A y \in kept : SameLayer(f[y], y) /\ f[y].cost = y.cost /\ f[y].qty = y.qty + Drawn(trail, l, y)
    BY <2>2
  <2>5. f \in [kept -> LayerRow]
    BY <2>3
  <2>6. layers' = {f[y] : y \in kept}
    BY <2>3
  <2>7. trail' = {t \in trail : t.line # l}
    BY <2>1
  <2>8. lines[l].type = "issue"
    BY <1>8
  <2>9. Tally(lines', layers', trail', lastId, opening)
    BY ONLY <1>2, <1>3, <1>5, <1>6, <2>0, <2>4, <2>5, <2>6, <2>7, <2>8, GiveBackTally
  <2> QED
    BY <1>4, <2>1, <2>9 DEF TallyNow
<1>9. CASE lines[l].type = "revaluation" /\ UNCHANGED <<layers, trail, lastId>>
  <2>1. Alike(lines, lines')
    BY <1>2, <1>5, <1>9 DEF Alike, RowMoved
  <2>2. Tally(lines', layers, trail, lastId, opening)
    BY <1>3, <1>5, <1>6, <2>1, AlikeTally
  <2> QED
    BY <1>4, <1>9, <2>2 DEF TallyNow
<1> QED
  BY <1>0, <1>7, <1>8, <1>9 DEF ReverseDocument

LEMMA ReplayNow ==
    ASSUME Consistent, Fresh, TallyNow, NEW p \in Procs, Replay(p)
    PROVE  TallyNow'
PROOF
<1>0. SUFFICES ASSUME NEW b, b = lastId + 1, NEW r, r = Replayed(lines, lines, b), NEW moved, moved = Movements(lines),
                      NEW run, run = RunRows(lines, moved)
               PROVE  TallyNow'
  OBVIOUS
<1>1. seen[p].lines = lines
  BY DEF Fresh, Replay, At
<1>2. /\ ReadRows(lines) /\ lines \in Rows /\ opening \in Openings /\ lastId \in Nat
      /\ trail \subseteq TrailRow /\ IsFiniteSet(trail) /\ Layered(layers, lastId)
  BY NowLedger
<1>3. b \in Nat \ {0} /\ lastId < b
  BY <1>0, <1>2
<1>4. RunFits(lines, moved, r, b)
  BY <1>0, <1>2, <1>3, ReplayFits
<1>5. RunTally(lines, moved, r)
  BY <1>0, <1>2, <1>3, ReplayTally
<1>6. Tally(run, r.layers, r.trail, r.id - 1, opening)
  BY <1>0, <1>5 DEF RunTally
<1>7. ReadRows(run)
  BY <1>0, <1>2, RunRowsAre
<1>8. /\ r.id \in Nat /\ b < r.id /\ Layered(r.layers, r.id - 1)
      /\ \A x \in r.layers : b <= x.id
      /\ r.trail \subseteq TrailRow /\ IsFiniteSet(r.trail)
      /\ r.rate \in [Lines -> Nat] /\ r.amount \in [Lines -> Int]
      /\ \A l \in Lines : lines[l].type # "revaluation" => r.amount[l] >= 0
  BY <1>4 DEF RunFits
<1>9. /\ layers' = r.layers /\ lastId' = r.id /\ trail' = trail \cup r.trail /\ opening' = opening
      /\ lines' = [l \in Lines |-> IF l \in Revised(lines, r)
                                   THEN Revise(lines[l], r.rate[l], r.amount[l]) ELSE lines[l]]
  BY <1>0, <1>1 DEF Replay
<1>10. ReadRows(lines')
  BY ReplayTables DEF TablesFit
<1>11. \A l \in Lines : lines'[l].type = lines[l].type /\ lines'[l].qty = lines[l].qty /\ lines'[l].status = lines[l].status
  <2> TAKE l \in Lines
  <2>1. lines[l] \in LineRow
    BY <1>2 DEF Rows
  <2>2. lines'[l] = IF l \in Revised(lines, r) THEN Revise(lines[l], r.rate[l], r.amount[l]) ELSE lines[l]
    BY <1>9
  <2> QED
    BY <2>1, <2>2 DEF Revise, LineRow
<1>12. Alike(run, lines')
  <2> SUFFICES ASSUME NEW l \in Lines
               PROVE  /\ lines'[l].type = run[l].type /\ lines'[l].qty = run[l].qty
                      /\ run[l].status # "DRAFT" => lines'[l].status # "DRAFT"
                      /\ run[l].type # "revaluation" => (lines'[l].status = "POSTED" <=> run[l].status = "POSTED")
    BY DEF Alike
  <2>1. /\ run[l].type = lines[l].type /\ run[l].qty = lines[l].qty
        /\ l \in moved => run[l] = lines[l]
        /\ l \notin moved => run[l].status = "DRAFT"
    BY <1>0, <1>2, RunRowsAre
  <2>2. lines'[l].type = lines[l].type /\ lines'[l].qty = lines[l].qty /\ lines'[l].status = lines[l].status
    BY <1>11
  <2>3. lines[l].type \in {"receipt", "issue", "revaluation"}
    BY <1>2 DEF Rows, LineRow
  <2>4. lines[l].type # "revaluation" /\ lines[l].status = "POSTED" <=> l \in moved
    BY <1>0, <2>3 DEF Movements
  <2>5. CASE l \in moved
    BY <2>1, <2>2, <2>5
  <2>6. CASE l \notin moved
    BY <2>1, <2>2, <2>4, <2>6
  <2> QED
    BY <2>5, <2>6
<1>13. Ledger(run, r.layers, r.trail, r.id - 1)
  BY <1>7, <1>8 DEF Ledger
<1>14. Tally(lines', r.layers, r.trail, r.id - 1, opening)
  BY <1>6, <1>10, <1>12, <1>13, AlikeTally
<1>15. Ledger(lines', r.layers, r.trail, r.id - 1)
  BY <1>8, <1>10 DEF Ledger
<1>16. r.id - 1 <= r.id
  BY <1>8
<1>17. \A t \in trail : t.layer <= r.id /\ lines'[t.line].status # "DRAFT" /\ \A x \in r.layers : t.layer # x.id
  <2> TAKE t \in trail
  <2>1. t \in TrailRow /\ t.line \in Lines /\ t.layer \in Nat
    BY <1>2 DEF TrailRow
  <2>2. t.layer <= lastId /\ lines[t.line].status # "DRAFT"
    BY DEF TallyNow, Tally, TrailFits
  <2>3. t.layer <= r.id
    BY <1>2, <1>3, <1>8, <2>1, <2>2
  <2>4. \A x \in r.layers : t.layer # x.id
    <3> TAKE x \in r.layers
    <3>1. b <= x.id /\ x.id \in Nat
      BY <1>8, RowIs DEF Layered
    <3> QED
      BY <1>2, <1>3, <2>1, <2>2, <3>1
  <2> QED
    BY <1>11, <2>1, <2>2, <2>3, <2>4
<1>18. Tally(lines', r.layers, trail \cup r.trail, r.id, opening)
  BY <1>2, <1>8, <1>14, <1>15, <1>16, <1>17, OlderTally
<1> QED
  BY <1>9, <1>18 DEF TallyNow

\* Steps that leave documents, layers and consumption rows alone.
LEMMA UntouchedNow ==
    ASSUME TallyNow, lines' = lines, layers' = layers, trail' = trail, lastId' = lastId, opening' = opening
    PROVE  TallyNow'
  BY DEF TallyNow

LEMMA TallyStep ==
    ASSUME Consistent, Fresh, TallyNow, [Next]_vars
    PROVE  TallyNow'
PROOF
<1>1. CASE UNCHANGED vars
  BY <1>1, UntouchedNow DEF vars
<1>2. ASSUME NEW p \in Procs, Session(p)
      PROVE  TallyNow'
  <2>1. ASSUME NEW l, NEW o, NEW c, Begin(p, o, l, c)
        PROVE  TallyNow'
    BY <2>1, UntouchedNow DEF Begin, tables
  <2>2. CASE Rollback(p)
    BY <2>2, UntouchedNow DEF Rollback, tables
  <2> QED
    BY <1>2, <2>1, <2>2, ReceiptNow, IssueNow, LandedNow, RevaluationNow, ReverseNow DEF Session
<1>3. ASSUME NEW p \in Procs, Worker(p)
      PROVE  TallyNow'
  <2>1. CASE ClaimJob(p) \/ ReadMovements(p) \/ CompleteJob(p) \/ Crash(p)
    BY <2>1, UntouchedNow DEF ClaimJob, ReadMovements, CompleteJob, Crash, tables
  <2>2. CASE PublishRevision(p)
    BY <2>2, UntouchedNow DEF PublishRevision
  <2> QED
    BY <1>3, <2>1, <2>2, ReplayNow DEF Worker
<1> QED
  BY <1>1, <1>2, <1>3 DEF Next

LEMMA TallyConserves ==
    ASSUME Consistent, TallyNow
    PROVE  QuantityConserved
PROOF
<1> DEFINE F == Flow(lines)
           G == [l \in Lines |-> lines[l].qty]
           R == Posted("receipt")
           S == Posted("issue")
<1>1. lines \in Rows /\ opening \in Nat
  BY NowLedger
<1>2. \A l \in Lines : lines[l].qty \in Nat /\ G[l] = lines[l].qty /\ G[l] \in Int
  BY <1>1 DEF Rows, LineRow
<1>3. R \subseteq Lines /\ S \subseteq Lines /\ R \cap S = {} /\ R \cup S \subseteq Lines
  BY DEF Posted
<1>4. IsFiniteSet(R) /\ IsFiniteSet(S) /\ IsFiniteSet(Lines)
  BY <1>3, LinesAssumption, FS_Subset
<1>5. \A l \in Lines : F[l] = Flows(lines[l]) /\ F[l] \in Int
  BY <1>1, FlowIs
<1>6. /\ \A l \in R : F[l] = G[l]
      /\ \A l \in S : F[l] = -G[l] /\ G[l] \in Int
      /\ \A l \in Lines \ (R \cup S) : F[l] = 0
  BY <1>2, <1>5 DEF Flows, Posted
<1>7. Moved("receipt") = SumFunction([l \in R |-> G[l]]) /\ Moved("issue") = SumFunction([l \in S |-> G[l]])
  <2>1. [l \in R |-> lines[l].qty] = [l \in R |-> G[l]] /\ [l \in S |-> lines[l].qty] = [l \in S |-> G[l]]
    BY <1>3
  <2> QED
    BY <2>1 DEF Moved
<1> HIDE DEF F, G, R, S
<1>8. SumFunctionOnSet(F, Lines) = SumFunctionOnSet(F, R \cup S)
  BY <1>3, <1>4, <1>5, <1>6, SumRestrict
<1>9. \A l \in R \cup S : F[l] \in Int
  BY <1>3, <1>5
<1>10. SumFunctionOnSet(F, R \cup S) = SumFunctionOnSet(F, R) + SumFunctionOnSet(F, S)
  BY <1>3, <1>4, <1>9, SumUnion
<1>11. SumFunctionOnSet(F, R) = SumFunctionOnSet(G, R)
  BY <1>4, <1>6, SumSame
<1>12. SumFunctionOnSet(F, S) = -SumFunctionOnSet(G, S)
  BY <1>4, <1>6, SumNegate
<1>13. Moved("receipt") = SumFunctionOnSet(G, R) /\ Moved("issue") = SumFunctionOnSet(G, S)
  BY <1>4, <1>7, SumOn
<1>14. SumFunctionOnSet(G, R) \in Int /\ SumFunctionOnSet(G, S) \in Int
  BY <1>2, <1>3, <1>4, SumInt
<1>15. Quantity(layers) = Base(layers, opening) + SumFunctionOnSet(F, Lines)
  BY DEF TallyNow, Tally, Conserved, F
<1>16. Base(layers, opening) = (IF OpeningSeeded THEN opening ELSE 0) /\ Base(layers, opening) \in Int
  BY <1>1 DEF Base, OpeningSeeded
<1>17. Quantity(layers) = Base(layers, opening) + Moved("receipt") - Moved("issue")
  BY <1>8, <1>10, <1>11, <1>12, <1>13, <1>14, <1>15, <1>16
<1> QED
  BY <1>16, <1>17 DEF QuantityConserved

LEMMA TallyTrails ==
    ASSUME TallyNow
    PROVE  TrailMatchesLayers
PROOF
<1> SUFFICES ASSUME NEW x \in layers, x.kind = "opening" \/ (x.kind = "receipt" /\ lines[x.line].status = "POSTED")
             PROVE  x.received - x.qty = Quantity({t \in trail : t.layer = x.id})
  BY DEF TrailMatchesLayers
<1>1. Trailed(lines, x)
  BY DEF Trailed
<1>2. x.received - x.qty = Lost(trail, x)
  BY <1>1 DEF TallyNow, Tally, LayersTrailed
<1> QED
  BY <1>2 DEF Lost

(***************************************************************************)
(* One process at a time, the documents, layers and consumption rows agree *)
(* in every state that postings, landed costs, revaluations, reversals and *)
(* recalculations can reach.                                               *)
(***************************************************************************)
THEOREM AlwaysTallied == Serial /\ Spec => []TallyNow
PROOF
<1> DEFINE I == Consistent /\ Serial /\ Fresh /\ TallyNow
<1>1. Serial /\ Init => I
  BY ConsistentInit, FreshInit, TallyInit
<1>2. I /\ [Next]_vars => I'
  <2> SUFFICES ASSUME I, [Next]_vars PROVE I'
    OBVIOUS
  <2>1. Serial'
    BY DEF Serial
  <2> QED
    BY <2>1, ConsistentStep, FreshStep, TallyStep
<1>3. I => TallyNow
  OBVIOUS
<1> HIDE DEF I
<1> QED
  BY <1>1, <1>2, <1>3, PTL DEF Spec

(***************************************************************************)
(* No sequence of postings, reversals and recalculations loses or invents  *)
(* a unit: the layers hold the opening, plus receipts, less issues.        *)
(***************************************************************************)
THEOREM QuantityKept == Serial /\ Spec => []QuantityConserved
PROOF
<1>1. Consistent /\ TallyNow => QuantityConserved
  BY TallyConserves
<1> QED
  BY <1>1, AlwaysConsistent, AlwaysTallied, PTL

(***************************************************************************)
(* ... and the consumption rows of a layer that a reversal gives back by   *)
(* say exactly what the layer lost.                                        *)
(***************************************************************************)
THEOREM TrailKept == Serial /\ Spec => []TrailMatchesLayers
PROOF
<1>1. TallyNow => TrailMatchesLayers
  BY TallyTrails
<1> QED
  BY <1>1, AlwaysTallied, PTL

-----------------------------------------------------------------------------
(* Rates, rounded to the grid, say what the amounts say.                   *)

RateFits(q, rate, amount) == 2 * amount - 2 * (q * rate) <= q /\ 2 * (q * rate) - 2 * amount <= q
Rated(row) == row.type # "revaluation" /\ row.status = "POSTED" => RateFits(row.qty, row.rate, row.amount)
AllRated == \A l \in Lines : Rated(lines[l])

LEMMA Division ==
    ASSUME NEW x \in Nat, NEW y \in Nat \ {0}
    PROVE  y * (x \div y) <= x /\ x < y * (x \div y) + y
  OBVIOUS

LEMMA RoundedFits ==
    ASSUME NEW a \in Nat, NEW q \in Nat \ {0}, NEW rate, rate = Rounded(a, q)
    PROVE  RateFits(q, rate, a)
PROOF
<1>1. rate = (2 * a + q) \div (2 * q) /\ rate \in Nat
  BY RoundedIs DEF Rounded
<1>2. 2 * q \in Nat \ {0} /\ 2 * a + q \in Nat
  OBVIOUS
<1>3. (2 * q) * rate <= 2 * a + q /\ 2 * a + q < (2 * q) * rate + 2 * q
  BY <1>1, <1>2, Division
<1>4. (2 * q) * rate = 2 * (q * rate) /\ q * rate \in Nat
  BY <1>1, Z3
<1> QED
  BY <1>3, <1>4 DEF RateFits

LEMMA ExactFits ==
    ASSUME NEW q \in Nat, NEW rate \in Nat
    PROVE  RateFits(q, rate, q * rate)
PROOF
<1>1. q * rate \in Nat
  OBVIOUS
<1> QED
  BY <1>1 DEF RateFits

\* The rate a replay gives an issue again is one its line keeps.
LEMMA SameRate ==
    ASSUME NEW q \in Nat, NEW rate \in Nat, NEW a \in Int, NEW c \in Int, RateFits(q, rate, a), RateFits(q, rate, c)
    PROVE  a - c <= q /\ c - a <= q
PROOF
<1>1. q * rate \in Nat
  OBVIOUS
<1> QED
  BY <1>1 DEF RateFits

LEMMA RatedInit ==
    ASSUME Init
    PROVE  AllRated
PROOF
<1>1. \A l \in Lines : lines[l].status = "DRAFT"
  BY DraftsAssumption DEF Init, IsDraft
<1> QED
  BY <1>1 DEF AllRated, Rated

\* One line is recorded, reversed or credited.
LEMMA OneRated ==
    ASSUME AllRated, NEW l \in Lines, Rated(lines'[l]), \A k \in Lines \ {l} : lines'[k] = lines[k]
    PROVE  AllRated'
  BY DEF AllRated

LEMMA PostedRated ==
    ASSUME Consistent, AllRated, NEW l \in Lines, NEW rate \in Nat, NEW amount \in Int,
           lines[l].type # "revaluation" => amount >= 0 /\ RateFits(lines[l].qty, rate, amount), Record(l, rate, amount)
    PROVE  AllRated'
PROOF
<1>1. ReadRows(lines) /\ lines[l] \in LineRow
  BY NowLedger DEF Rows
<1>2. lines'[l] = PostedRow(lines[l], rate, amount) /\ \A k \in Lines \ {l} : lines'[k] = lines[k]
  BY <1>1, Recorded
<1>3. lines'[l].type = lines[l].type /\ lines'[l].qty = lines[l].qty /\ lines'[l].rate = rate /\ lines'[l].amount = amount
  BY <1>1, <1>2 DEF PostedRow, LineRow
<1>4. Rated(lines'[l])
  BY <1>3 DEF Rated
<1> QED
  BY <1>2, <1>4, OneRated

LEMMA IssueRated ==
    ASSUME Consistent, Fresh, AllRated, NEW p \in Procs, PostIssue(p)
    PROVE  AllRated'
PROOF
<1>0. SUFFICES ASSUME NEW l, l = call[p].line, NEW old, old = OrSeeded(p, layers),
                      NEW h, h = HistoricCost(lines, Inward(lines)), NEW q, q = lines[l].qty,
                      NEW amount, amount = IssueAmount(old, q, h)
               PROVE  AllRated'
  OBVIOUS
<1>1. call[p].op = "issue" /\ "issue" \in Documents
  BY DEF PostIssue, At, Documents
<1>2. l \in Lines /\ lines[l].type = "issue" /\ lines[l] \in LineRow /\ RowFits(lines[l])
  BY <1>0, <1>1, CallIs DEF PostIssue
<1>3. seen[p].layers = layers
  BY <1>1, Reads
<1>4. q \in Nat \ {0} /\ h \in Nat
  <2>1. Inward(lines) \subseteq Lines /\ lines \in Rows
    BY NowLedger DEF Inward
  <2> QED
    BY <1>0, <1>2, <2>1, HistoricIs DEF LineRow, RowFits
<1>5. amount \in Nat
  <2>1. Layered(old, FirstId(p) - 1)
    BY <1>0, NowLedger, SeededLayers
  <2> QED
    BY <1>0, <1>4, <2>1, IssueAmountIs
<1>6. Record(l, Rounded(amount, q), amount)
  BY <1>0, <1>3 DEF PostIssue
<1>7. Rounded(amount, q) \in Nat /\ RateFits(q, Rounded(amount, q), amount)
  BY <1>4, <1>5, RoundedIs, RoundedFits
<1> QED
  BY <1>0, <1>2, <1>5, <1>6, <1>7, PostedRated

LEMMA LandedRated ==
    ASSUME Consistent, Fresh, AllRated, NEW p \in Procs, PostLandedCost(p)
    PROVE  AllRated'
PROOF
<1>0. SUFFICES ASSUME NEW l, l = call[p].line, NEW row, row = lines[l], NEW charge, charge = call[p].charge,
                      NEW perUnit, perUnit = Rounded(charge, row.qty), NEW opened, opened = LayersOf(layers, l),
                      NEW gain, gain = SumFunction([x \in opened |-> Absorbed(x, perUnit)]),
                      NEW amount, amount = row.amount + gain, NEW rate, rate = Rounded(amount, row.qty)
               PROVE  AllRated'
  OBVIOUS
<1>1. call[p].op = "landed" /\ "landed" \in Documents
  BY DEF PostLandedCost, At, Documents
<1>2. /\ l \in Lines /\ row.type = "receipt" /\ row \in LineRow /\ RowFits(row) /\ charge \in Charges
      /\ seen[p].lines = lines /\ seen[p].layers = layers
  BY <1>0, <1>1, CallIs, Reads
<1>3. lines' = IF gain = 0 THEN lines ELSE [lines EXCEPT ![l].amount = amount, ![l].rate = rate]
  BY <1>0, <1>2 DEF PostLandedCost
<1>4. row.qty \in Nat \ {0} /\ row.amount \in Nat
  BY <1>2 DEF LineRow, RowFits
<1>5. perUnit \in Nat
  <2>1. charge \in Nat
    BY <1>2, DataAssumption
  <2> QED
    BY <1>0, <1>4, <2>1, RoundedIs
<1>6. gain \in Nat
  BY <1>0, <1>5, NowLedger, AbsorbedIs
<1>7. amount \in Nat
  <2>1. row.amount + gain \in Nat
    BY <1>4, <1>6
  <2> QED
    BY <1>0, <2>1
<1>8. RateFits(row.qty, rate, amount)
  BY <1>0, <1>4, <1>7, RoundedFits
<1>9. CASE gain = 0
  BY <1>3, <1>9 DEF AllRated
<1>10. CASE gain # 0
  <2>1. lines' = [lines EXCEPT ![l].amount = amount, ![l].rate = rate]
    BY <1>3, <1>10
  <2>2. lines \in Rows
    BY NowLedger
  <2>3. lines'[l].qty = row.qty /\ lines'[l].amount = amount /\ lines'[l].rate = rate /\ \A k \in Lines \ {l} : lines'[k] = lines[k]
    BY <1>0, <1>2, <2>1, <2>2 DEF Rows, LineRow
  <2>4. Rated(lines'[l])
    BY <1>8, <2>3 DEF Rated
  <2> QED
    BY <1>2, <2>3, <2>4, OneRated
<1> QED
  BY <1>9, <1>10

-----------------------------------------------------------------------------
(* What a replay's layers are worth.                                       *)

BaseWorth(ls) == IF \E x \in ls : x.kind = "opening" THEN opening * OpeningCost ELSE 0

RunPays(rows, ls, r) ==
    [l \in Lines |-> IF l \notin ls THEN 0 ELSE IF rows[l].type = "issue" THEN -r.amount[l] ELSE r.amount[l]]
RunWorth(rows, ls, r) == Worth(r.layers) = BaseWorth(r.layers) + SumFunctionOnSet(RunPays(rows, ls, r), Lines)
RunRated(rows, ls, r) ==
    \A l \in ls : /\ RateFits(rows[l].qty, r.rate[l], r.amount[l])
                  /\ rows[l].type = "receipt" => r.rate[l] = rows[l].rate
\* A receipt line has one layer.
Single(ls) == \A x, y \in ls : x.kind = "receipt" /\ y.kind = "receipt" /\ x.line = y.line => x = y
RunPriced(rows, r) ==
    /\ Single(r.layers)
    /\ \A x \in r.layers : x.kind = "receipt" => x.cost = rows[x.line].rate
    /\ \A x \in r.layers : \A t \in r.trail : t.layer = x.id => t.cost = x.cost
RunValue(rows, ls, r) == RunWorth(rows, ls, r) /\ RunRated(rows, ls, r) /\ RunPriced(rows, r)

LEMMA BaseWorthInt ==
    ASSUME opening \in Openings, NEW ls
    PROVE  BaseWorth(ls) \in Int
PROOF
<1>1. opening \in Nat /\ OpeningCost \in Nat
  BY DataAssumption
<1>2. opening * OpeningCost \in Int
  BY <1>1
<1> QED
  BY <1>2 DEF BaseWorth

LEMMA RunPaysInt ==
    ASSUME NEW rows, NEW ls, NEW r, r.amount \in [Lines -> Int]
    PROVE  /\ \A l \in Lines : RunPays(rows, ls, r)[l] \in Int
           /\ SumFunctionOnSet(RunPays(rows, ls, r), Lines) \in Int
PROOF
<1>1. ASSUME NEW l \in Lines
      PROVE  RunPays(rows, ls, r)[l] \in Int
  <2>1. r.amount[l] \in Int
    OBVIOUS
  <2>2. RunPays(rows, ls, r)[l] = IF l \notin ls THEN 0 ELSE IF rows[l].type = "issue" THEN -r.amount[l] ELSE r.amount[l]
    BY DEF RunPays
  <2> QED
    BY <2>1, <2>2
<1> QED
  BY <1>1, LinesAssumption, SumInt

\* One more movement.
LEMMA RunPaysMore ==
    ASSUME NEW rows, NEW ls, NEW r, NEW s, NEW l \in Lines, l \notin ls, NEW a \in Int,
           r.amount \in [Lines -> Int], s.amount = [r.amount EXCEPT ![l] = a]
    PROVE  SumFunctionOnSet(RunPays(rows, ls \cup {l}, s), Lines)
             = SumFunctionOnSet(RunPays(rows, ls, r), Lines) + (IF rows[l].type = "issue" THEN -a ELSE a)
PROOF
<1> DEFINE F == RunPays(rows, ls, r)
           G == RunPays(rows, ls \cup {l}, s)
<1>1. s.amount \in [Lines -> Int] /\ s.amount[l] = a /\ \A k \in Lines \ {l} : s.amount[k] = r.amount[k]
  OBVIOUS
<1>2. \A k \in Lines : F[k] \in Int /\ G[k] \in Int
  BY <1>1, RunPaysInt
<1>3. \A k \in Lines \ {l} : G[k] = F[k]
  BY <1>1 DEF RunPays
<1>4. F[l] = 0 /\ G[l] = IF rows[l].type = "issue" THEN -a ELSE a
  BY <1>1 DEF RunPays
<1> HIDE DEF F, G
<1>5. SumFunctionOnSet(G, Lines) = SumFunctionOnSet(F, Lines) - F[l] + G[l]
  <2>1. IsFiniteSet(Lines) /\ \A k \in Lines : F[k] \in Int /\ G[k] \in Int
    BY <1>2, LinesAssumption
  <2> QED
    BY ONLY <1>3, <2>1, l \in Lines, SumChange
<1>6. SumFunctionOnSet(F, Lines) \in Int /\ G[l] \in Int
  BY <1>2, LinesAssumption, SumInt
<1>7. SumFunctionOnSet(G, Lines) = SumFunctionOnSet(F, Lines) + G[l]
  BY <1>4, <1>5, <1>6
<1> QED
  BY <1>4, <1>7 DEF F, G

LEMMA EmptiedValue ==
    ASSUME NEW rows, ReadRows(rows), opening \in Openings, NEW b \in Nat \ {0}
    PROVE  RunValue(rows, {}, Emptied(rows, b))
PROOF
<1>0. SUFFICES ASSUME NEW r, r = Emptied(rows, b), NEW x, x = OpeningLayer(b)
               PROVE  RunValue(rows, {}, r)
  OBVIOUS
<1>1. r.layers = (IF opening > 0 THEN {x} ELSE {}) /\ r.trail = {}
  BY <1>0 DEF Emptied
<1>2. x \in LayerRow /\ x.kind = "opening" /\ x.qty = opening /\ x.cost = OpeningCost
  BY <1>0, OpeningLayerIs
<1>3. SumFunctionOnSet(RunPays(rows, {}, r), Lines) = 0
  <2>1. \A l \in Lines : RunPays(rows, {}, r)[l] = 0
    BY DEF RunPays
  <2> QED
    BY <2>1, LinesAssumption, SumZero
<1>4. opening \in Nat /\ OpeningCost \in Nat /\ opening * OpeningCost \in Nat
  BY DataAssumption
<1>5. Worth({x}) = opening * OpeningCost
  <2>1. Layered({}, 0)
    BY FS_EmptySet DEF Layered
  <2>2. Worth({} \cup {x}) = Worth({}) + x.qty * x.cost
    BY <1>2, <2>1, AddedSums
  <2>3. {} \cup {x} = {x}
    OBVIOUS
  <2> QED
    BY <1>2, <1>4, <2>2, <2>3, NothingDrawn
<1>6. Worth(r.layers) = BaseWorth(r.layers)
  <2>1. CASE opening > 0
    BY <1>1, <1>2, <1>5, <2>1 DEF BaseWorth
  <2>2. CASE ~(opening > 0)
    BY <1>1, <2>2, NothingDrawn DEF BaseWorth
  <2> QED
    BY <2>1, <2>2
<1>7. RunWorth(rows, {}, r)
  BY <1>3, <1>4, <1>6 DEF RunWorth, BaseWorth
<1>8. RunRated(rows, {}, r)
  BY DEF RunRated
<1>9. RunPriced(rows, r)
  BY <1>1, <1>2 DEF RunPriced, Single
<1> QED
  BY <1>7, <1>8, <1>9 DEF RunValue

LEMMA RepostReceiptValue ==
    ASSUME NEW rows, ReadRows(rows), NEW now, opening \in Openings, NEW ls, NEW b \in Nat \ {0}, NEW r,
           RunFits(rows, ls, r, b), RunValue(rows, ls, r),
           NEW l \in Movements(rows), l \notin ls, rows[l].type = "receipt", NEW s, s = Repost(rows, now, r, l)
    PROVE  RunValue(rows, ls \cup {l}, s)
PROOF
<1>0. SUFFICES ASSUME NEW m, m = rows[l], NEW x, x = ReceiptLayer(r.id, l, m.date, m.qty, m.rate),
                      NEW a, a = m.qty * m.rate
               PROVE  RunValue(rows, ls \cup {l}, s)
  OBVIOUS
<1>1. l \in Lines /\ m.type = "receipt" /\ m.date \in Nat /\ m.qty \in Nat /\ m.rate \in Nat
  BY <1>0, MovementIs
<1>2. a \in Nat /\ a \in Int
  BY <1>0, <1>1
<1>3. /\ r.id \in Nat /\ Layered(r.layers, r.id - 1) /\ r.trail \subseteq TrailRow
      /\ \A t \in r.trail : t.layer < r.id
      /\ r.rate \in [Lines -> Nat] /\ r.amount \in [Lines -> Int]
  BY DEF RunFits
<1>4. /\ s.layers = r.layers \cup {x} /\ s.trail = r.trail
      /\ s.rate = [r.rate EXCEPT ![l] = m.rate] /\ s.amount = [r.amount EXCEPT ![l] = a]
  BY ONLY s = Repost(rows, now, r, l), <1>0, <1>1 DEF Repost
<1>5. /\ x \in LayerRow /\ x.id = r.id /\ x.kind = "receipt" /\ x.line = l /\ x.qty = m.qty /\ x.cost = m.rate
  BY <1>0, <1>1, <1>3 DEF ReceiptLayer, LayerRow
<1>6. x \notin r.layers
  <2>1. \A y \in r.layers : y.id \in Int /\ y.id <= r.id - 1
    BY <1>3, RowIs DEF Layered
  <2> QED
    BY <1>3, <1>5, <2>1
<1>7. Worth(s.layers) = Worth(r.layers) + a /\ Worth(r.layers) \in Int
  <2>1. Worth(r.layers \cup {x}) = Worth(r.layers) + x.qty * x.cost
    BY <1>3, <1>5, <1>6, AddedSums
  <2>2. Worth(r.layers) \in Int
    BY <1>3, LayersHeld
  <2> QED
    BY <1>0, <1>4, <1>5, <2>1, <2>2
<1>8. SumFunctionOnSet(RunPays(rows, ls \cup {l}, s), Lines) = SumFunctionOnSet(RunPays(rows, ls, r), Lines) + a
  <2>1. SumFunctionOnSet(RunPays(rows, ls \cup {l}, s), Lines)
             = SumFunctionOnSet(RunPays(rows, ls, r), Lines) + (IF rows[l].type = "issue" THEN -a ELSE a)
    BY <1>1, <1>2, <1>3, <1>4, RunPaysMore
  <2> QED
    BY <2>1
<1>9. BaseWorth(s.layers) = BaseWorth(r.layers)
  BY <1>4, <1>5 DEF BaseWorth
<1>10. RunWorth(rows, ls \cup {l}, s)
  <2>1. SumFunctionOnSet(RunPays(rows, ls, r), Lines) \in Int
    BY <1>3, RunPaysInt
  <2>2. BaseWorth(r.layers) \in Int
    BY BaseWorthInt
  <2>3. Worth(r.layers) = BaseWorth(r.layers) + SumFunctionOnSet(RunPays(rows, ls, r), Lines)
    BY DEF RunValue, RunWorth
  <2> QED
    BY <1>2, <1>7, <1>8, <1>9, <2>1, <2>2, <2>3 DEF RunWorth
<1>11. RunRated(rows, ls \cup {l}, s)
  <2>1. s.rate[l] = m.rate /\ s.amount[l] = a /\ \A k \in Lines \ {l} : s.rate[k] = r.rate[k] /\ s.amount[k] = r.amount[k]
    BY <1>1, <1>3, <1>4
  <2>2. RateFits(m.qty, m.rate, a)
    BY <1>0, <1>1, ExactFits
  <2>3. ASSUME NEW k \in ls
        PROVE  RateFits(rows[k].qty, s.rate[k], s.amount[k]) /\ (rows[k].type = "receipt" => s.rate[k] = rows[k].rate)
    <3>1. s.rate[k] = r.rate[k] /\ s.amount[k] = r.amount[k]
      <4>1. CASE k \in Lines
        BY <2>1, <4>1
      <4>2. CASE k \notin Lines
        BY <1>1, <1>3, <1>4, <4>2
      <4> QED
        BY <4>1, <4>2
    <3> QED
      BY <3>1 DEF RunValue, RunRated
  <2> QED
    BY <1>0, <2>1, <2>2, <2>3 DEF RunRated
<1>12. RunPriced(rows, s)
  <2>1. ASSUME NEW y \in s.layers, y.kind = "receipt"
        PROVE  y.cost = rows[y.line].rate
    BY <1>0, <1>4, <1>5, <2>1 DEF RunValue, RunPriced
  <2>2. ASSUME NEW y \in s.layers, NEW t \in s.trail, t.layer = y.id
        PROVE  t.cost = y.cost
    <3>1. t.layer \in Nat /\ t.layer < r.id /\ t \in r.trail
      BY <1>3, <1>4 DEF TrailRow
    <3>2. y # x
      BY <1>3, <1>5, <2>2, <3>1
    <3> QED
      BY <1>4, <2>2, <3>1, <3>2 DEF RunValue, RunPriced
  <2>3. Single(s.layers)
    <3>1. \A y \in r.layers : y.kind = "receipt" => y.line # l
      BY DEF RunFits
    <3> QED
      BY <1>4, <1>5, <3>1 DEF RunValue, RunPriced, Single
  <2> QED
    BY <2>1, <2>2, <2>3 DEF RunPriced
<1> QED
  BY <1>10, <1>11, <1>12 DEF RunValue

\* Consumption rows carry the cost of the layer they were taken from.
LEMMA ConsumedAtCost ==
    ASSUME NEW ls, NEW n, Layered(ls, n), NEW l, NEW q, NEW y \in ls, NEW t \in Consumptions(ls, l, q), t.layer = y.id
    PROVE  t.cost = y.cost
PROOF
<1>1. PICK x \in Touched(ls, q) : t = [layer |-> x.id, line |-> l, qty |-> Taken(ls, x, q), cost |-> x.cost]
  BY DEF Consumptions
<1>2. x \in ls /\ x.id = y.id
  BY <1>1 DEF Touched, Open
<1>3. x = y
  BY <1>2 DEF Layered
<1> QED
  BY <1>1, <1>3

LEMMA SingleKept ==
    ASSUME NEW ls, Single(ls), NEW f \in [ls -> LayerRow], \A y \in ls : SameLayer(f[y], y), NEW new, NEW some,
           new = {f[y] : y \in ls} \cup some, \A x \in some : x.kind # "receipt"
    PROVE  Single(new)
PROOF
<1>1. ASSUME NEW x \in new, NEW y \in new, x.kind = "receipt", y.kind = "receipt", x.line = y.line
      PROVE  x = y
  <2>1. PICK u \in ls : x = f[u]
    BY <1>1
  <2>2. PICK v \in ls : y = f[v]
    BY <1>1
  <2>3. u.kind = "receipt" /\ v.kind = "receipt" /\ u.line = v.line
    BY <1>1, <2>1, <2>2 DEF SameLayer
  <2> QED
    BY <2>1, <2>2, <2>3 DEF Single
<1> QED
  BY <1>1 DEF Single

LEMMA RepostIssueValue ==
    ASSUME NEW rows, ReadRows(rows), NEW now \in Rows, opening \in Openings, NEW ls, NEW b \in Nat \ {0}, NEW r,
           RunFits(rows, ls, r, b), RunValue(rows, ls, r),
           NEW l \in Movements(rows), l \notin ls, rows[l].type = "issue", NEW s, s = Repost(rows, now, r, l)
    PROVE  RunValue(rows, ls \cup {l}, s)
PROOF
<1>0. SUFFICES ASSUME NEW m, m = rows[l], NEW h, h = Historic(rows, now, l), NEW q, q = m.qty, NEW n, n = r.id - 1,
                      NEW a, a = IssueAmount(r.layers, q, h),
                      NEW after, after = AfterIssue(r.layers, r.layers, q),
                      NEW S, S = ShortfallLayer(r.id, r.layers, l, m.date, q, h)
               PROVE  RunValue(rows, ls \cup {l}, s)
  OBVIOUS
<1>1. l \in Lines /\ m.type = "issue" /\ m.date \in Nat /\ q \in Nat \ {0} /\ q \in Nat
  BY <1>0, MovementIs
<1>2. /\ r.id \in Nat /\ n \in Nat /\ n < r.id /\ Layered(r.layers, n) /\ r.trail \subseteq TrailRow
      /\ \A t \in r.trail : t.layer < r.id
      /\ r.rate \in [Lines -> Nat] /\ r.amount \in [Lines -> Int]
  BY <1>0 DEF RunFits
<1>3. h \in Nat
  BY <1>0, HistoricNat
<1>4. a \in Nat /\ a \in Int /\ Rounded(a, q) \in Nat /\ RateFits(q, Rounded(a, q), a)
  <2>1. a \in Nat
    BY <1>0, <1>1, <1>2, <1>3, IssueAmountIs
  <2> QED
    BY <1>1, <2>1, RoundedIs, RoundedFits
<1>5. /\ s.layers = after \cup S /\ s.trail = r.trail \cup Consumptions(r.layers, l, q)
      /\ s.rate = [r.rate EXCEPT ![l] = Rounded(a, q)] /\ s.amount = [r.amount EXCEPT ![l] = a]
  <2> DEFINE c == IssueAmount(r.layers, m.qty, h)
  <2>1. m = rows[l] /\ s = Repost(rows, now, r, l) /\ m.type = "issue" /\ h = Historic(rows, now, l)
        /\ c = IssueAmount(r.layers, m.qty, h)
    BY <1>0, <1>1
  <2> HIDE DEF c
  <2>2. /\ s.layers = AfterIssue(r.layers, r.layers, m.qty) \cup ShortfallLayer(r.id, r.layers, l, m.date, m.qty, h)
        /\ s.trail = r.trail \cup Consumptions(r.layers, l, m.qty)
        /\ s.rate = [r.rate EXCEPT ![l] = Rounded(c, m.qty)] /\ s.amount = [r.amount EXCEPT ![l] = c]
    BY ONLY <2>1 DEF Repost, Historic
  <2> QED
    BY <1>0, <2>1, <2>2
<1>6. Worth(s.layers) = Worth(r.layers) - a /\ Worth(r.layers) \in Int
  <2>1. s.layers = AfterIssue(r.layers, r.layers, q) \cup ShortfallLayer(r.id, r.layers, l, m.date, q, h)
    BY <1>0, <1>5
  <2>2. Worth(s.layers) = Worth(r.layers) - IssueAmount(r.layers, q, h)
    BY <1>1, <1>2, <1>3, <2>1, IssueSums
  <2>3. Worth(r.layers) \in Int
    BY <1>2, LayersHeld
  <2> QED
    BY <1>0, <2>2, <2>3
<1>7. SumFunctionOnSet(RunPays(rows, ls \cup {l}, s), Lines) = SumFunctionOnSet(RunPays(rows, ls, r), Lines) + (-a)
  <2>1. SumFunctionOnSet(RunPays(rows, ls \cup {l}, s), Lines)
             = SumFunctionOnSet(RunPays(rows, ls, r), Lines) + (IF rows[l].type = "issue" THEN -a ELSE a)
    BY <1>1, <1>2, <1>4, <1>5, RunPaysMore
  <2> QED
    BY <2>1
<1>8. PICK f \in [r.layers -> LayerRow] :
        /\ after = {f[y] : y \in r.layers}
        /\ \A y \in r.layers : SameLayer(f[y], y) /\ f[y].cost = y.cost /\ f[y].qty = y.qty - Took(r.layers, y, q)
  <2>1. Layered(r.layers, n) /\ q \in Nat /\ after = AfterIssue(r.layers, r.layers, q)
    BY <1>0, <1>1, <1>2
  <2> QED
    BY ONLY <2>1, IssueWrites
<1>9. /\ \A z \in after : \E y \in r.layers : SameLayer(z, y) /\ z.cost = y.cost
      /\ \A y \in r.layers : \E z \in after : SameLayer(z, y)
  BY <1>8
<1>10. \A z \in S : z.id = r.id /\ z.kind = "backorder"
  BY <1>0 DEF ShortfallLayer, Backorder
<1>11. BaseWorth(s.layers) = BaseWorth(r.layers)
  BY <1>5, <1>9, <1>10 DEF BaseWorth, SameLayer
<1>12. RunWorth(rows, ls \cup {l}, s)
  <2>1. SumFunctionOnSet(RunPays(rows, ls, r), Lines) \in Int
    BY <1>2, RunPaysInt
  <2>2. BaseWorth(r.layers) \in Int
    BY BaseWorthInt
  <2>3. Worth(r.layers) = BaseWorth(r.layers) + SumFunctionOnSet(RunPays(rows, ls, r), Lines)
    BY DEF RunValue, RunWorth
  <2> QED
    BY <1>4, <1>6, <1>7, <1>11, <2>1, <2>2, <2>3 DEF RunWorth
<1>13. RunRated(rows, ls \cup {l}, s)
  <2>1. /\ s.rate[l] = Rounded(a, q) /\ s.amount[l] = a
        /\ \A k : k # l => s.rate[k] = r.rate[k] /\ s.amount[k] = r.amount[k]
    BY <1>1, <1>2, <1>5
  <2>2. ASSUME NEW k \in ls
        PROVE  RateFits(rows[k].qty, s.rate[k], s.amount[k]) /\ (rows[k].type = "receipt" => s.rate[k] = rows[k].rate)
    <3>1. s.rate[k] = r.rate[k] /\ s.amount[k] = r.amount[k]
      BY <2>1
    <3> QED
      BY <3>1 DEF RunValue, RunRated
  <2>3. RateFits(rows[l].qty, s.rate[l], s.amount[l])
    BY <1>0, <1>4, <2>1
  <2> QED
    BY <2>2, <2>3 DEF RunRated
<1>14. RunPriced(rows, s)
  <2>1. ASSUME NEW z \in s.layers, z.kind = "receipt"
        PROVE  z.cost = rows[z.line].rate
    <3>1. z \in after
      BY <1>5, <1>10, <2>1
    <3>2. PICK y \in r.layers : SameLayer(z, y) /\ z.cost = y.cost
      BY <1>9, <3>1
    <3>3. y.kind = "receipt" /\ y.line = z.line
      BY <2>1, <3>2 DEF SameLayer
    <3> QED
      BY <3>2, <3>3 DEF RunValue, RunPriced
  <2>2. ASSUME NEW z \in s.layers, NEW t \in s.trail, t.layer = z.id
        PROVE  t.cost = z.cost
    <3>1. t.layer < r.id /\ t.layer \in Nat
      <4>1. CASE t \in r.trail
        BY <1>2, <4>1 DEF TrailRow
      <4>2. CASE t \in Consumptions(r.layers, l, q)
        <5>1. t \in TrailRow /\ t.layer \in 1..n
          BY <1>1, <1>2, <4>2, ConsumptionsAre
        <5> QED
          BY <1>2, <5>1
      <4> QED
        BY <1>5, <4>1, <4>2
    <3>2. z \in after
      BY <1>2, <1>5, <1>10, <2>2, <3>1
    <3>3. PICK y \in r.layers : SameLayer(z, y) /\ z.cost = y.cost
      BY <1>9, <3>2
    <3>4. t.layer = y.id
      BY <2>2, <3>3 DEF SameLayer
    <3>5. CASE t \in r.trail
      BY <3>3, <3>4, <3>5 DEF RunValue, RunPriced
    <3>6. CASE t \in Consumptions(r.layers, l, q)
      BY <1>2, <3>3, <3>4, <3>6, ConsumedAtCost
    <3> QED
      BY <1>5, <3>5, <3>6
  <2>3. Single(s.layers)
    <3>1. Single(r.layers)
      BY DEF RunValue, RunPriced
    <3>2. s.layers = {f[y] : y \in r.layers} \cup S
      BY <1>5, <1>8
    <3>3. \A y \in r.layers : SameLayer(f[y], y)
      BY <1>8
    <3>4. \A x \in S : x.kind # "receipt"
      BY <1>10
    <3> QED
      BY ONLY <3>1, <3>2, <3>3, <3>4, f \in [r.layers -> LayerRow], SingleKept
  <2> QED
    BY <2>1, <2>2, <2>3 DEF RunPriced
<1> QED
  BY <1>12, <1>13, <1>14 DEF RunValue

LEMMA ReplayValue ==
    ASSUME NEW rows, ReadRows(rows), NEW now \in Rows, opening \in Openings, NEW b \in Nat \ {0}
    PROVE  RunValue(rows, Movements(rows), Replayed(rows, now, b))
PROOF
<1> DEFINE M == Movements(rows)
           r(V) == ReplayOf(rows, now, b)[V]
           T == {V \in SUBSET M : ~RunValue(rows, V, r(V))}
<1>1. SUFFICES ASSUME T # {} PROVE FALSE
  <2>1. M \in SUBSET M
    OBVIOUS
  <2> QED
    BY <1>1, <2>1 DEF Replayed
<1>2. M \subseteq Lines /\ rows \in Rows
  BY DEF Movements, ReadRows
<1>3. PICK V \in T : \A W \in T : W \subseteq V => W = V
  <2>1. T \subseteq SUBSET M /\ IsFiniteSet(M)
    BY <1>2, LinesAssumption, FS_Subset
  <2> HIDE DEF T, M
  <2> QED
    BY <1>1, <2>1, SmallestMember
<1>4. V \subseteq M /\ ~RunValue(rows, V, r(V))
  BY <1>3
<1>5. r(V) = IF V = {} THEN Emptied(rows, b) ELSE Step(rows, now, r(Rest(rows, V)), V)
  BY <1>2, <1>4, ReplayUnfolds
<1>6. V # {}
  BY <1>4, <1>5, EmptiedValue
<1> DEFINE l == LastOf(rows, V)
           U == Rest(rows, V)
<1>7. l \in V /\ l \in M /\ U \subseteq V /\ U # V /\ l \notin U /\ V = U \cup {l} /\ U \in SUBSET M
  BY <1>2, <1>4, <1>6, LastIs DEF Rest
<1>8. RunValue(rows, U, r(U)) /\ RunFits(rows, U, r(U), b)
  BY <1>3, <1>4, <1>7, ReplayRuns
<1>9. r(V) = Repost(rows, now, r(U), l)
  BY <1>5, <1>6 DEF Step
<1>10. rows[l].type \in {"receipt", "issue"}
  BY <1>7 DEF Movements
<1> HIDE DEF r, l, U, T, M
<1>11. RunValue(rows, U \cup {l}, r(V))
  <2>1. CASE rows[l].type = "receipt"
    BY <1>7, <1>8, <1>9, <2>1, RepostReceiptValue DEF M
  <2>2. CASE rows[l].type = "issue"
    BY <1>7, <1>8, <1>9, <2>2, RepostIssueValue DEF M
  <2> QED
    BY <1>10, <2>1, <2>2
<1> QED
  BY <1>4, <1>7, <1>11

-----------------------------------------------------------------------------
(* What the layers are worth, and what the documents say.                  *)

Pays(row) == IF row.status # "POSTED" THEN 0 ELSE IF row.type = "issue" THEN -row.amount ELSE row.amount
Pay(rows) == [l \in Lines |-> Pays(rows[l])]
Weighs(row) == IF row.status = "POSTED" /\ row.type # "revaluation" THEN row.qty ELSE 0
Weight(rows) == [l \in Lines |-> Weighs(rows[l])]

ValueFits(rows, ls) ==
    /\ Worth(ls) - BaseWorth(ls) - SumFunctionOnSet(Pay(rows), Lines) <= SumFunctionOnSet(Weight(rows), Lines)
    /\ BaseWorth(ls) + SumFunctionOnSet(Pay(rows), Lines) - Worth(ls) <= SumFunctionOnSet(Weight(rows), Lines)

\* A replay has dropped the posted revaluations.  A recalculation is due: queued, at work, or lost with its worker.
Due == queued \/ crashes > 0 \/ \E p \in Procs : call[p].op \in {"claimed", "replay"}
Forgotten == replays > 0 /\ Posted("revaluation") # {}

ValueHeld == ~Due /\ ~Forgotten => ValueFits(lines, layers)

LEMMA PayIs ==
    ASSUME NEW rows \in Rows
    PROVE  /\ \A l \in Lines : /\ Pay(rows)[l] = Pays(rows[l]) /\ Pay(rows)[l] \in Int
                               /\ Weight(rows)[l] = Weighs(rows[l]) /\ Weight(rows)[l] \in Nat
           /\ SumFunctionOnSet(Pay(rows), Lines) \in Int /\ SumFunctionOnSet(Weight(rows), Lines) \in Nat
PROOF
<1>1. \A l \in Lines : Pay(rows)[l] = Pays(rows[l]) /\ Weight(rows)[l] = Weighs(rows[l])
  BY DEF Pay, Weight
<1>2. \A l \in Lines : rows[l].qty \in Nat /\ rows[l].amount \in Int
  BY DEF Rows, LineRow
<1>3. \A l \in Lines : Pay(rows)[l] \in Int
  BY <1>1, <1>2 DEF Pays
<1>4. \A l \in Lines : Weight(rows)[l] \in Nat
  BY <1>1, <1>2 DEF Weighs
<1>5. SumFunctionOnSet(Pay(rows), Lines) \in Int
  BY <1>3, LinesAssumption, SumInt
<1>6. SumFunctionOnSet(Weight(rows), Lines) \in Nat
  BY <1>4, LinesAssumption, SumNat
<1> QED
  BY <1>1, <1>3, <1>4, <1>5, <1>6

LEMMA PayChanged ==
    ASSUME NEW rows \in Rows, NEW new \in Rows, NEW l \in Lines, \A k \in Lines \ {l} : new[k] = rows[k]
    PROVE  /\ SumFunctionOnSet(Pay(new), Lines) = SumFunctionOnSet(Pay(rows), Lines) - Pays(rows[l]) + Pays(new[l])
           /\ SumFunctionOnSet(Weight(new), Lines)
                = SumFunctionOnSet(Weight(rows), Lines) - Weighs(rows[l]) + Weighs(new[l])
PROOF
<1> DEFINE F == Pay(rows)
           G == Pay(new)
           V == Weight(rows)
           W == Weight(new)
<1>1. \A k \in Lines : F[k] \in Int /\ G[k] \in Int
  BY PayIs
<1>2. \A k \in Lines : V[k] \in Int /\ W[k] \in Int
  BY PayIs
<1>3. /\ \A k \in Lines \ {l} : G[k] = F[k]
      /\ \A k \in Lines \ {l} : W[k] = V[k]
  BY DEF Pay, Weight
<1>4. F[l] = Pays(rows[l]) /\ G[l] = Pays(new[l]) /\ V[l] = Weighs(rows[l]) /\ W[l] = Weighs(new[l])
  BY PayIs
<1>5. IsFiniteSet(Lines)
  BY LinesAssumption
<1> HIDE DEF F, G, V, W
<1>6. SumFunctionOnSet(G, Lines) = SumFunctionOnSet(F, Lines) - F[l] + G[l]
  BY <1>1, <1>3, <1>5, SumChange
<1>7. SumFunctionOnSet(W, Lines) = SumFunctionOnSet(V, Lines) - V[l] + W[l]
  BY <1>2, <1>3, <1>5, SumChange
<1> QED
  BY <1>4, <1>6, <1>7 DEF F, G, V, W

\* A document changes layers and its own line by the same value.
LEMMA ValueMoved ==
    ASSUME opening \in Openings, NEW rows \in Rows, NEW new \in Rows, NEW l \in Lines,
           \A k \in Lines \ {l} : new[k] = rows[k],
           NEW ls, NEW n, Layered(ls, n), NEW ls2, ValueFits(rows, ls),
           Weighs(rows[l]) <= Weighs(new[l]),
           Worth(ls2) - BaseWorth(ls2) = Worth(ls) - BaseWorth(ls) + Pays(new[l]) - Pays(rows[l]),
           Worth(ls2) \in Int
    PROVE  ValueFits(new, ls2)
PROOF
<1>1. /\ SumFunctionOnSet(Pay(new), Lines) = SumFunctionOnSet(Pay(rows), Lines) - Pays(rows[l]) + Pays(new[l])
      /\ SumFunctionOnSet(Weight(new), Lines)
           = SumFunctionOnSet(Weight(rows), Lines) - Weighs(rows[l]) + Weighs(new[l])
  BY PayChanged
<1>2. /\ SumFunctionOnSet(Pay(rows), Lines) \in Int /\ SumFunctionOnSet(Weight(rows), Lines) \in Int
      /\ Pays(rows[l]) \in Int /\ Weighs(rows[l]) \in Int
  BY PayIs
<1>3. Pays(new[l]) \in Int /\ Weighs(new[l]) \in Int
  BY PayIs
<1>4. Worth(ls) \in Int /\ BaseWorth(ls) \in Int /\ BaseWorth(ls2) \in Int
  BY LayersHeld, BaseWorthInt
<1> QED
  BY <1>1, <1>2, <1>3, <1>4 DEF ValueFits

\* Seeding the opening.
LEMMA SeedValue ==
    ASSUME opening \in Openings, NEW ls, NEW n, Layered(ls, n), MustSeed(ls), NEW id \in Nat, n < id
    PROVE  /\ Worth(Seeded(ls, id)) - BaseWorth(Seeded(ls, id)) = Worth(ls) - BaseWorth(ls)
PROOF
<1>0. SUFFICES ASSUME NEW x, x = OpeningLayer(id), NEW new, new = ls \cup {x}
               PROVE  Worth(new) - BaseWorth(new) = Worth(ls) - BaseWorth(ls)
  BY DEF Seeded, MustSeed
<1>1. x \in LayerRow /\ x.id = id /\ x.kind = "opening" /\ x.qty = opening /\ x.cost = OpeningCost
  BY <1>0, OpeningLayerIs
<1>2. x \notin ls
  <2>1. \A y \in ls : y.id \in Int /\ y.id <= n /\ n \in Nat
    BY RowIs DEF Layered
  <2> QED
    BY <1>1, <2>1
<1>3. Worth(ls \cup {x}) = Worth(ls) + x.qty * x.cost
  BY <1>1, <1>2, AddedSums
<1>4. BaseWorth(ls) = 0
  BY DEF BaseWorth, MustSeed
<1>5. BaseWorth(new) = opening * OpeningCost
  BY <1>0, <1>1 DEF BaseWorth
<1>6. opening * OpeningCost \in Int /\ Worth(ls) \in Int
  <2>1. opening \in Nat /\ OpeningCost \in Nat
    BY DataAssumption
  <2>2. opening * OpeningCost \in Int
    BY <2>1
  <2> QED
    BY <2>2, LayersHeld
<1>7. x.qty * x.cost = opening * OpeningCost
  BY <1>1
<1> QED
  BY <1>0, <1>3, <1>4, <1>5, <1>6, <1>7

\* The layers with the opening that a posting seeds are worth the same beside it.
LEMMA SeededValue ==
    ASSUME Consistent, NEW p, seen[p].layers = layers, NEW old, old = OrSeeded(p, layers)
    PROVE  Worth(old) - BaseWorth(old) = Worth(layers) - BaseWorth(layers)
PROOF
<1>1. opening \in Openings /\ lastId \in Nat /\ Layered(layers, lastId)
  BY NowLedger
<1>2. CASE SeedFirst(p)
  <2>1. MustSeed(layers) /\ old = Seeded(layers, lastId + 1)
    BY <1>2 DEF SeedFirst, OrSeeded
  <2>2. lastId + 1 \in Nat /\ lastId < lastId + 1
    BY <1>1
  <2> QED
    BY <1>1, <2>1, <2>2, SeedValue
<1>3. CASE ~SeedFirst(p)
  BY <1>3 DEF OrSeeded
<1> QED
  BY <1>2, <1>3

\* What was due or forgotten still is.
LEMMA StillDue ==
    ASSUME Serial, NEW p \in Procs, call[p].op \notin {"claimed", "replay"}, queued' = queued, crashes' = crashes, replays' = replays,
           \A l \in Lines : lines[l].type = "revaluation" /\ lines[l].status = "POSTED" =>
                lines'[l].type = "revaluation" /\ lines'[l].status = "POSTED"
    PROVE  ~Due' /\ ~Forgotten' => ~Due /\ ~Forgotten
PROOF
<1>1. \A q \in Procs : q = p
  BY DEF Serial
<1>2. ~Due' => ~Due
  BY <1>1 DEF Due
<1>3. Forgotten => Forgotten'
  BY DEF Forgotten, Posted
<1> QED
  BY <1>2, <1>3

LEMMA StillFits ==
    ASSUME Serial, ValueHeld, NEW p \in Procs, call[p].op \notin {"claimed", "replay"},
           queued' = queued, crashes' = crashes, replays' = replays,
           lines' = lines, layers' = layers, opening' = opening
    PROVE  ValueHeld'
PROOF
<1>1. ~Due' /\ ~Forgotten' => ~Due /\ ~Forgotten
  BY StillDue
<1>2. ValueFits(lines, layers) => ValueFits(lines, layers)'
  BY DEF ValueFits, BaseWorth
<1> QED
  BY <1>1, <1>2 DEF ValueHeld

\* A posting.
LEMMA Posts ==
    ASSUME Consistent, NEW l \in Lines, NEW rate \in Nat, NEW amount \in Int, lines[l].status = "DRAFT",
           lines[l].type # "revaluation" => amount >= 0, Record(l, rate, amount)
    PROVE  /\ lines' \in Rows /\ \A k \in Lines \ {l} : lines'[k] = lines[k]
           /\ Pays(lines[l]) = 0 /\ Pays(lines'[l]) = (IF lines[l].type = "issue" THEN -amount ELSE amount)
           /\ Weighs(lines[l]) <= Weighs(lines'[l])
PROOF
<1>1. ReadRows(lines) /\ lines[l] \in LineRow /\ lines[l].qty \in Nat
  BY NowLedger DEF Rows, LineRow
<1>2. /\ ReadRows(lines') /\ lines'[l] = PostedRow(lines[l], rate, amount)
      /\ \A k \in Lines \ {l} : lines'[k] = lines[k]
  BY <1>1, Recorded
<1>3. /\ lines'[l].type = lines[l].type /\ lines'[l].qty = lines[l].qty /\ lines'[l].status = "POSTED"
      /\ lines'[l].amount = amount
  BY <1>1, <1>2 DEF PostedRow, LineRow
<1>4. Pays(lines[l]) = 0 /\ Pays(lines'[l]) = (IF lines[l].type = "issue" THEN -amount ELSE amount)
  BY <1>3 DEF Pays
<1>5. Weighs(lines[l]) <= Weighs(lines'[l])
  BY <1>1, <1>3 DEF Weighs
<1> QED
  BY <1>2, <1>4, <1>5 DEF ReadRows

\* ... and what it does to the value.
LEMMA PostingFits ==
    ASSUME Consistent, Serial, ValueHeld, NEW p \in Procs, call[p].op \notin {"claimed", "replay"},
           queued' = queued, crashes' = crashes, replays' = replays, opening' = opening,
           NEW l \in Lines, NEW rate \in Nat, NEW amount \in Int, lines[l].status = "DRAFT",
           lines[l].type # "revaluation" => amount >= 0, Record(l, rate, amount), Worth(layers') \in Int,
           Worth(layers') - BaseWorth(layers')
             = Worth(layers) - BaseWorth(layers) + (IF lines[l].type = "issue" THEN -amount ELSE amount)
    PROVE  ValueHeld'
PROOF
<1>1. /\ lines' \in Rows /\ \A k \in Lines \ {l} : lines'[k] = lines[k]
      /\ Pays(lines[l]) = 0 /\ Pays(lines'[l]) = (IF lines[l].type = "issue" THEN -amount ELSE amount)
      /\ Weighs(lines[l]) <= Weighs(lines'[l])
  BY Posts
<1>2. ~Due' /\ ~Forgotten' => ~Due /\ ~Forgotten
  <2>1. \A k \in Lines : lines[k].type = "revaluation" /\ lines[k].status = "POSTED" =>
                lines'[k].type = "revaluation" /\ lines'[k].status = "POSTED"
    BY <1>1
  <2> QED
    BY <2>1, StillDue
<1>3. /\ opening \in Openings /\ lines \in Rows /\ Layered(layers, lastId)
  BY NowLedger
<1>4. ASSUME ValueFits(lines, layers)
      PROVE  ValueFits(lines', layers')
  <2>1. /\ Worth(layers) \in Int /\ BaseWorth(layers) \in Int
    BY <1>3, LayersHeld, BaseWorthInt
  <2>2. Worth(layers') - BaseWorth(layers') = Worth(layers) - BaseWorth(layers) + Pays(lines'[l]) - Pays(lines[l])
    BY <1>1, <2>1
  <2> QED
    BY <1>1, <1>3, <1>4, <2>2, ValueMoved
<1>5. ValueFits(lines', layers') => ValueFits(lines, layers)'
  BY DEF ValueFits, BaseWorth
<1> QED
  BY <1>2, <1>4, <1>5 DEF ValueHeld

LEMMA ReceiptValue ==
    ASSUME Consistent, Serial, Fresh, ValueHeld, NEW p \in Procs, PostReceipt(p)
    PROVE  ValueHeld'
PROOF
<1>0. SUFFICES ASSUME NEW l, l = call[p].line, NEW old, old = OrSeeded(p, layers), NEW n, n = FirstId(p) - 1,
                      NEW a, a = lines[l].qty * lines[l].rate,
                      NEW x, x = ReceiptLayer(FirstId(p), l, lines[l].date, lines[l].qty, lines[l].rate)
               PROVE  ValueHeld'
  OBVIOUS
<1>1. call[p].op = "receipt" /\ "receipt" \in Documents
  BY DEF PostReceipt, At, Documents
<1>2. l \in Lines /\ lines[l].type = "receipt" /\ lines[l] \in LineRow /\ lines[l].status = "DRAFT"
  BY <1>0, <1>1, CallIs DEF PostReceipt
<1>3. seen[p].layers = layers
  BY <1>1, Reads
<1>4. Worth(old) - BaseWorth(old) = Worth(layers) - BaseWorth(layers)
  BY <1>0, <1>3, SeededValue
<1>5. lines[l].date \in Nat /\ lines[l].qty \in Nat /\ lines[l].rate \in Nat /\ a \in Nat
  BY <1>0, <1>2 DEF LineRow
<1>6. Record(l, lines[l].rate, a)
  BY <1>0 DEF PostReceipt
<1>7. /\ layers' = old \cup {x} /\ opening' = opening
      /\ queued' = queued /\ crashes' = crashes /\ replays' = replays
  BY <1>0 DEF PostReceipt, counters
<1>8. /\ opening \in Openings /\ lastId \in Nat /\ Layered(layers, lastId)
  BY NowLedger
<1>9. Layered(old, n) /\ FirstId(p) \in Nat /\ n \in Nat /\ n < FirstId(p)
  <2>1. Layered(old, FirstId(p) - 1) /\ FirstId(p) \in Nat /\ FirstId(p) - 1 \in Nat
    BY <1>0, <1>8, SeededLayers
  <2> QED
    BY <1>0, <2>1
<1>10. x \in LayerRow /\ x.id = FirstId(p) /\ x.kind = "receipt" /\ x.qty * x.cost = a
  BY <1>0, <1>2, <1>5, <1>9 DEF ReceiptLayer, LayerRow
<1>11. x \notin old
  <2>1. \A y \in old : y.id \in Int /\ y.id <= n
    BY <1>9, RowIs DEF Layered
  <2> QED
    BY <1>9, <1>10, <2>1
<1>12. Worth(old \cup {x}) = Worth(old) + a /\ Worth(old) \in Int
  <2>1. Worth(old \cup {x}) = Worth(old) + x.qty * x.cost
    BY <1>9, <1>10, <1>11, AddedSums
  <2> QED
    BY <1>9, <1>10, <2>1, LayersHeld
<1>13. BaseWorth(layers') = BaseWorth(old)
  BY <1>7, <1>10 DEF BaseWorth
<1>14. BaseWorth(old) \in Int /\ BaseWorth(layers) \in Int /\ Worth(layers) \in Int
  BY <1>8, BaseWorthInt, LayersHeld
<1>15. /\ Worth(layers') \in Int
       /\ Worth(layers') - BaseWorth(layers') = Worth(layers) - BaseWorth(layers) + a
  BY <1>4, <1>5, <1>7, <1>12, <1>13, <1>14
<1>16. /\ call[p].op \notin {"claimed", "replay"} /\ a \in Int /\ a >= 0
       /\ (IF lines[l].type = "issue" THEN -a ELSE a) = a
  BY <1>1, <1>2, <1>5
<1> QED
  BY <1>2, <1>5, <1>6, <1>7, <1>15, <1>16, PostingFits

LEMMA IssueValue ==
    ASSUME Consistent, Serial, Fresh, ValueHeld, NEW p \in Procs, PostIssue(p)
    PROVE  ValueHeld'
PROOF
<1>0. SUFFICES ASSUME NEW l, l = call[p].line, NEW old, old = OrSeeded(p, layers), NEW n, n = FirstId(p) - 1,
                      NEW h, h = HistoricCost(lines, Inward(lines)), NEW q, q = lines[l].qty, NEW at, at = lines[l].date,
                      NEW a, a = IssueAmount(old, q, h),
                      NEW after, after = AfterIssue(old, old, q),
                      NEW S, S = ShortfallLayer(FirstId(p), old, l, at, q, h)
               PROVE  ValueHeld'
  OBVIOUS
<1>1. call[p].op = "issue" /\ "issue" \in Documents
  BY DEF PostIssue, At, Documents
<1>2. /\ l \in Lines /\ lines[l].type = "issue" /\ lines[l] \in LineRow /\ lines[l].status = "DRAFT"
      /\ RowFits(lines[l])
  BY <1>0, <1>1, CallIs DEF PostIssue
<1>3. seen[p].layers = layers
  BY <1>1, Reads
<1>4. Worth(old) - BaseWorth(old) = Worth(layers) - BaseWorth(layers)
  BY <1>0, <1>3, SeededValue
<1>5. at \in Nat /\ q \in Nat \ {0} /\ q \in Nat
  BY <1>0, <1>2 DEF LineRow, RowFits
<1>6. h \in Nat
  <2>1. Inward(lines) \subseteq Lines /\ lines \in Rows
    BY NowLedger DEF Inward
  <2> QED
    BY <1>0, <2>1, HistoricIs
<1>7. /\ opening \in Openings /\ lastId \in Nat /\ Layered(layers, lastId)
  BY NowLedger
<1>8. Layered(old, n) /\ FirstId(p) \in Nat /\ n \in Nat /\ n < FirstId(p)
  <2>1. Layered(old, FirstId(p) - 1) /\ FirstId(p) \in Nat /\ FirstId(p) - 1 \in Nat
    BY <1>0, <1>7, SeededLayers
  <2> QED
    BY <1>0, <2>1
<1>9. a \in Nat /\ a \in Int /\ Rounded(a, q) \in Nat
  <2>1. a \in Nat
    BY <1>0, <1>5, <1>6, <1>8, IssueAmountIs
  <2> QED
    BY <1>5, <2>1, RoundedIs
<1>10. Record(l, Rounded(a, q), a)
  BY <1>0, <1>3 DEF PostIssue
<1>11. /\ layers' = after \cup S /\ opening' = opening
       /\ queued' = queued /\ crashes' = crashes /\ replays' = replays
  BY <1>0, <1>3 DEF PostIssue, counters
<1>12. Worth(layers') = Worth(old) - a
  <2>1. layers' = AfterIssue(old, old, q) \cup ShortfallLayer(FirstId(p), old, l, at, q, h)
    BY <1>0, <1>11
  <2>2. Worth(layers') = Worth(old) - IssueAmount(old, q, h)
    BY <1>2, <1>5, <1>6, <1>8, <2>1, IssueSums
  <2> QED
    BY <1>0, <2>2
<1>13. BaseWorth(layers') = BaseWorth(old)
  <2>1. PICK f \in [old -> LayerRow] :
          /\ after = {f[y] : y \in old}
          /\ \A y \in old : SameLayer(f[y], y) /\ f[y].cost = y.cost /\ f[y].qty = y.qty - Took(old, y, q)
    <3>1. Layered(old, n) /\ q \in Nat /\ after = AfterIssue(old, old, q)
      BY <1>0, <1>5, <1>8
    <3> QED
      BY ONLY <3>1, IssueWrites
  <2>2. /\ \A z \in after : \E y \in old : SameLayer(z, y)
        /\ \A y \in old : \E z \in after : SameLayer(z, y)
    BY <2>1
  <2>3. \A z \in S : z.kind = "backorder"
    BY <1>0 DEF ShortfallLayer, Backorder
  <2> QED
    BY <1>11, <2>2, <2>3 DEF BaseWorth, SameLayer
<1>14. BaseWorth(old) \in Int /\ BaseWorth(layers) \in Int /\ Worth(layers) \in Int /\ Worth(old) \in Int
  BY <1>7, <1>8, BaseWorthInt, LayersHeld
<1>15. /\ Worth(layers') \in Int
       /\ Worth(layers') - BaseWorth(layers') = Worth(layers) - BaseWorth(layers) + (-a)
  BY <1>4, <1>9, <1>12, <1>13, <1>14
<1>16. /\ call[p].op \notin {"claimed", "replay"} /\ a >= 0
       /\ (IF lines[l].type = "issue" THEN -a ELSE a) = -a
  BY <1>1, <1>2, <1>9
<1> QED
  BY <1>2, <1>9, <1>10, <1>11, <1>15, <1>16, PostingFits

-----------------------------------------------------------------------------
(* Documents that change costs.                                            *)

\* What some of the layers gain, as a sum over all of them.
LEMMA PartSums ==
    ASSUME NEW ls, IsFiniteSet(ls), NEW some, some \subseteq ls, NEW F \in [some -> Int], NEW e \in [ls -> Int],
           \A y \in some : e[y] = F[y], \A y \in ls \ some : e[y] = 0
    PROVE  SumFunctionOnSet(e, ls) = SumFunction(F)
PROOF
<1>1. IsFiniteSet(some)
  BY FS_Subset
<1>2. \A y \in ls : e[y] \in Int
  OBVIOUS
<1>3. SumFunctionOnSet(e, ls) = SumFunctionOnSet(e, some)
  BY <1>2, SumRestrict
<1>4. SumFunctionOnSet(e, some) = SumFunctionOnSet(F, some)
  BY <1>1, SumSame
<1>5. SumFunction([x \in some |-> F[x]]) = SumFunctionOnSet(F, some)
  BY <1>1, SumOn
<1>6. F = [x \in some |-> F[x]]
  OBVIOUS
<1> QED
  BY <1>3, <1>4, <1>5, <1>6

LEMMA RaisedWorth ==
    ASSUME NEW ls, NEW n, Layered(ls, n), NEW l, NEW opened, opened = LayersOf(ls, l), NEW perUnit \in Nat, NEW y \in ls
    PROVE  /\ y \in opened => Raised(y, opened, perUnit).cost = y.cost + perUnit /\ y.qty >= 0
           /\ y \notin opened => Raised(y, opened, perUnit) = y
PROOF
<1>1. opened \subseteq ls /\ \A x \in opened : x.id = y.id => x = y
  BY DEF LayersOf, Layered
<1>2. ASSUME y \in opened
      PROVE  Raised(y, opened, perUnit).cost = y.cost + perUnit /\ y.qty >= 0
  <2>1. (CHOOSE x \in opened : x.id = y.id) = y
    BY <1>1, <1>2
  <2>2. y \in LayerRow /\ y.kind = "receipt"
    BY <1>2 DEF LayersOf, Layered
  <2>3. Raised(y, opened, perUnit) = [y EXCEPT !.cost = y.cost + perUnit]
    BY <1>2, <2>1 DEF Raised
  <2>4. y.qty \in Int /\ ~(y.qty < 0)
    BY <2>2 DEF Layered, LayerRow
  <2> QED
    BY <2>2, <2>3, <2>4 DEF LayerRow
<1>3. ASSUME y \notin opened
      PROVE  Raised(y, opened, perUnit) = y
  BY <1>1, <1>3 DEF Raised
<1> QED
  BY <1>2, <1>3

LEMMA RaisedSums ==
    ASSUME NEW ls, NEW n, Layered(ls, n), NEW l, NEW opened, opened = LayersOf(ls, l), NEW perUnit \in Nat,
           NEW new, new = {Raised(y, opened, perUnit) : y \in ls}
    PROVE  /\ Worth(new) = Worth(ls) + SumFunction([x \in opened |-> Absorbed(x, perUnit)])
           /\ BaseWorth(new) = BaseWorth(ls)
PROOF
<1> DEFINE f == [y \in ls |-> Raised(y, opened, perUnit)]
           F == [x \in opened |-> Absorbed(x, perUnit)]
           e == [y \in ls |-> IF y \in opened THEN F[y] ELSE 0]
           d == [y \in ls |-> 0]
<1>1. opened \subseteq ls /\ opened \subseteq LayerRow /\ IsFiniteSet(ls)
  BY DEF LayersOf, Layered
<1>2. \A y \in ls : y \in LayerRow /\ y.qty \in Int /\ y.cost \in Nat /\ y.qty * y.cost \in Int
  BY LayersHeld
<1>3. ASSUME NEW y \in ls
      PROVE  f[y] \in LayerRow /\ SameLayer(f[y], y) /\ f[y].qty = y.qty
  <2>1. f[y] = Raised(y, opened, perUnit) /\ y \in LayerRow
    BY <1>2
  <2> HIDE DEF f
  <2> QED
    BY <1>1, <2>1, RaisedIs
<1>4. ASSUME NEW y \in opened
      PROVE  F[y] \in Int /\ F[y] = y.qty * perUnit
  <2>1. y.qty \in Int /\ y.qty >= 0
    BY <1>1, <1>2, RaisedWorth
  <2>2. Most(0, y.qty) = y.qty
    BY <2>1 DEF Most
  <2>3. F[y] = y.qty * perUnit
    BY <2>2 DEF Absorbed
  <2>4. y.qty * perUnit \in Int
    BY <2>1
  <2> QED
    BY <2>3, <2>4
<1>5. F \in [opened -> Int] /\ e \in [ls -> Int] /\ d \in [ls -> Int]
  BY <1>4
<1>6. ASSUME NEW y \in ls
      PROVE  f[y].qty = y.qty + d[y] /\ f[y].qty * f[y].cost = y.qty * y.cost + e[y]
  <2>1. f[y].qty = y.qty /\ f[y] = Raised(y, opened, perUnit) /\ d[y] = 0
    BY <1>3
  <2>2. CASE y \in opened
    <3>1. f[y].cost = y.cost + perUnit
      BY <2>1, <2>2, RaisedWorth
    <3>2. e[y] = y.qty * perUnit
      BY <1>4, <2>2
    <3>3. y.qty \in Int /\ y.cost \in Int /\ perUnit \in Int
      BY <1>2
    <3>4. y.qty * (y.cost + perUnit) = y.qty * y.cost + y.qty * perUnit
      BY <3>3
    <3>5. f[y].qty * f[y].cost = y.qty * (y.cost + perUnit)
      BY <2>1, <3>1
    <3> HIDE DEF f, e, d
    <3> QED
      BY <2>1, <3>2, <3>3, <3>4, <3>5
  <2>3. CASE y \notin opened
    <3>1. f[y] = y /\ e[y] = 0
      BY <2>1, <2>3, RaisedWorth
    <3> HIDE DEF f, e, d
    <3> QED
      BY <1>2, <2>1, <3>1
  <2> QED
    BY <2>2, <2>3
<1>7. f \in [ls -> LayerRow] /\ new = {f[y] : y \in ls}
  BY <1>3
<1>8. \A y \in opened : e[y] = F[y]
  BY <1>1
<1>9. \A y \in ls \ opened : e[y] = 0
  OBVIOUS
<1> HIDE DEF f, F, e, d
<1>10. \A y \in ls : SameLayer(f[y], y)
  BY <1>3
<1>11. Worth(new) = Worth(ls) + SumFunctionOnSet(e, ls)
  <2>1. Quantity(new) = Quantity(ls) + SumFunctionOnSet(d, ls) /\ Worth(new) = Worth(ls) + SumFunctionOnSet(e, ls)
    <3>1. f \in [ls -> LayerRow]
      BY <1>7
    <3>2. d \in [ls -> Int]
      BY <1>5
    <3>3. e \in [ls -> Int]
      BY <1>5
    <3>4. \A y \in ls : f[y].qty = y.qty + d[y] /\ f[y].qty * f[y].cost = y.qty * y.cost + e[y]
      BY <1>6
    <3>5. Layered(ls, n) /\ new = {f[y] : y \in ls}
      BY <1>7
    <3> QED
      BY ONLY <1>10, <3>1, <3>2, <3>3, <3>4, <3>5, EditedSums
  <2> QED
    BY <2>1
<1>12. SumFunctionOnSet(e, ls) = SumFunction(F)
  BY <1>1, <1>5, <1>8, <1>9, PartSums
<1>13. BaseWorth(new) = BaseWorth(ls)
  <2>1. new = {f[y] : y \in ls}
    BY <1>7
  <2>2. (\E x \in new : x.kind = "opening") <=> (\E x \in ls : x.kind = "opening")
    BY ONLY <1>10, <2>1 DEF SameLayer
  <2> QED
    BY <2>2 DEF BaseWorth
<1> QED
  BY <1>11, <1>12, <1>13 DEF F

LEMMA RepricedSums ==
    ASSUME NEW ls, NEW n, Layered(ls, n), NEW priced, priced = Open(ls), NEW cost \in Nat,
           NEW new, new = {Repriced(y, priced, cost) : y \in ls}
    PROVE  /\ Worth(new) = Worth(ls) + SumFunction([x \in priced |-> x.qty * (cost - x.cost)])
           /\ BaseWorth(new) = BaseWorth(ls)
PROOF
<1> DEFINE f == [y \in ls |-> Repriced(y, priced, cost)]
           F == [x \in priced |-> x.qty * (cost - x.cost)]
           e == [y \in ls |-> IF y \in priced THEN F[y] ELSE 0]
           d == [y \in ls |-> 0]
<1>1. priced \subseteq ls /\ IsFiniteSet(ls)
  BY DEF Open, Layered
<1>2. \A y \in ls : y \in LayerRow /\ y.qty \in Int /\ y.cost \in Nat /\ y.qty * y.cost \in Int
  BY LayersHeld
<1>3. ASSUME NEW y \in ls
      PROVE  f[y] \in LayerRow /\ SameLayer(f[y], y) /\ f[y].qty = y.qty
  <2>1. f[y] = Repriced(y, priced, cost) /\ y \in LayerRow
    BY <1>2
  <2> HIDE DEF f
  <2> QED
    BY <2>1, RepricedIs
<1>4. ASSUME NEW y \in priced
      PROVE  F[y] \in Int /\ F[y] = y.qty * (cost - y.cost)
  <2>1. y.qty \in Int /\ cost - y.cost \in Int
    BY <1>1, <1>2
  <2>2. y.qty * (cost - y.cost) \in Int
    BY <2>1
  <2> QED
    BY <2>2
<1>5. F \in [priced -> Int] /\ e \in [ls -> Int] /\ d \in [ls -> Int]
  BY <1>4
<1>6. ASSUME NEW y \in ls
      PROVE  f[y].qty = y.qty + d[y] /\ f[y].qty * f[y].cost = y.qty * y.cost + e[y]
  <2>1. f[y].qty = y.qty /\ f[y] = Repriced(y, priced, cost) /\ d[y] = 0
    BY <1>3
  <2>2. CASE y \in priced
    <3>1. f[y].cost = cost
      BY <1>2, <2>1, <2>2 DEF Repriced, LayerRow
    <3>2. e[y] = y.qty * (cost - y.cost)
      BY <1>4, <2>2
    <3>3. y.qty \in Int /\ y.cost \in Int /\ cost \in Int
      BY <1>2
    <3>4. y.qty * cost = y.qty * y.cost + y.qty * (cost - y.cost)
      BY <3>3
    <3>5. f[y].qty * f[y].cost = y.qty * cost
      BY <2>1, <3>1
    <3> HIDE DEF f, e, d
    <3> QED
      BY <2>1, <3>2, <3>4, <3>5, <3>3
  <2>3. CASE y \notin priced
    <3>1. \A x \in priced : x.id # y.id
      BY <1>1, <2>3 DEF Layered
    <3>2. f[y] = y /\ e[y] = 0
      BY <2>1, <2>3, <3>1 DEF Repriced
    <3> HIDE DEF f, e, d
    <3> QED
      BY <1>2, <2>1, <3>2
  <2> QED
    BY <2>2, <2>3
<1>7. f \in [ls -> LayerRow] /\ new = {f[y] : y \in ls}
  BY <1>3
<1>8. \A y \in priced : e[y] = F[y]
  BY <1>1
<1>9. \A y \in ls \ priced : e[y] = 0
  OBVIOUS
<1> HIDE DEF f, F, e, d
<1>10. \A y \in ls : SameLayer(f[y], y)
  BY <1>3
<1>11. Worth(new) = Worth(ls) + SumFunctionOnSet(e, ls)
  <2>1. Quantity(new) = Quantity(ls) + SumFunctionOnSet(d, ls) /\ Worth(new) = Worth(ls) + SumFunctionOnSet(e, ls)
    <3>1. f \in [ls -> LayerRow]
      BY <1>7
    <3>2. d \in [ls -> Int]
      BY <1>5
    <3>3. e \in [ls -> Int]
      BY <1>5
    <3>4. \A y \in ls : f[y].qty = y.qty + d[y] /\ f[y].qty * f[y].cost = y.qty * y.cost + e[y]
      BY <1>6
    <3>5. Layered(ls, n) /\ new = {f[y] : y \in ls}
      BY <1>7
    <3> QED
      BY ONLY <1>10, <3>1, <3>2, <3>3, <3>4, <3>5, EditedSums
  <2> QED
    BY <2>1
<1>12. SumFunctionOnSet(e, ls) = SumFunction(F)
  BY <1>1, <1>5, <1>8, <1>9, PartSums
<1>13. BaseWorth(new) = BaseWorth(ls)
  <2>1. new = {f[y] : y \in ls}
    BY <1>7
  <2>2. (\E x \in new : x.kind = "opening") <=> (\E x \in ls : x.kind = "opening")
    BY ONLY <1>10, <2>1 DEF SameLayer
  <2> QED
    BY <2>2 DEF BaseWorth
<1> QED
  BY <1>11, <1>12, <1>13 DEF F

LEMMA LandedValue ==
    ASSUME Consistent, Serial, Fresh, ValueHeld, NEW p \in Procs, PostLandedCost(p)
    PROVE  ValueHeld'
PROOF
<1>0. SUFFICES ASSUME NEW l, l = call[p].line, NEW row, row = lines[l], NEW charge, charge = call[p].charge,
                      NEW perUnit, perUnit = Rounded(charge, row.qty), NEW opened, opened = LayersOf(layers, l),
                      NEW gain, gain = SumFunction([x \in opened |-> Absorbed(x, perUnit)]),
                      NEW amount, amount = row.amount + gain, NEW rate, rate = Rounded(amount, row.qty)
               PROVE  ValueHeld'
  OBVIOUS
<1>1. call[p].op = "landed" /\ "landed" \in Documents
  BY DEF PostLandedCost, At, Documents
<1>2. /\ l \in Lines /\ row.type = "receipt" /\ row \in LineRow /\ RowFits(row) /\ charge \in Charges
      /\ seen[p].lines = lines /\ seen[p].layers = layers /\ Accepts("landed", row)
  BY <1>0, <1>1, CallIs, Reads
<1>3. row.status = "POSTED"
  BY <1>2 DEF Accepts
<1>4. lines' = IF gain = 0 THEN lines ELSE [lines EXCEPT ![l].amount = amount, ![l].rate = rate]
  BY <1>0, <1>2 DEF PostLandedCost
<1>5. layers' = {Raised(y, opened, perUnit) : y \in layers}
  <2>1. layers' = {Raised(y, LayersOf(seen[p].layers, call[p].line),
                          Rounded(call[p].charge, seen[p].lines[call[p].line].qty)) : y \in layers}
    BY DEF PostLandedCost, Raised
  <2> QED
    BY <1>0, <1>2, <2>1
<1>6. opening' = opening /\ queued' = queued /\ crashes' = crashes /\ replays' = replays
  BY DEF PostLandedCost
<1>7. opening \in Openings /\ lines \in Rows /\ ReadRows(lines) /\ Layered(layers, lastId)
  BY NowLedger
<1>8. row.qty \in Nat \ {0} /\ row.amount \in Int /\ charge \in Nat
  BY <1>2, DataAssumption DEF LineRow, RowFits
<1>9. perUnit \in Nat
  BY <1>0, <1>8, RoundedIs
<1>10. gain \in Nat
  BY <1>0, <1>7, <1>9, AbsorbedIs
<1>11. Worth(layers') = Worth(layers) + gain /\ BaseWorth(layers') = BaseWorth(layers)
  BY <1>0, <1>5, <1>7, <1>9, RaisedSums
<1>12. Worth(layers) \in Int /\ BaseWorth(layers) \in Int
  BY <1>7, LayersHeld, BaseWorthInt
<1>13. lines' \in Rows
  BY LandedTables DEF TablesFit, ReadRows
<1>14. /\ lines'[l].type = row.type /\ lines'[l].qty = row.qty /\ lines'[l].status = row.status
       /\ lines'[l].amount = row.amount + gain
       /\ \A k \in Lines \ {l} : lines'[k] = lines[k]
  <2>1. CASE gain = 0
    <3>1. lines' = lines /\ row = lines[l]
      BY <1>0, <1>4, <2>1
    <3>2. row.amount + gain = row.amount
      BY <1>8, <2>1
    <3> QED
      BY <3>1, <3>2
  <2>2. CASE gain # 0
    <3>1. lines' = [lines EXCEPT ![l].amount = amount, ![l].rate = rate]
      BY <1>4, <2>2
    <3> QED
      BY <1>0, <1>2, <1>7, <3>1 DEF Rows, LineRow
  <2> QED
    BY <2>1, <2>2
<1>15. /\ Pays(row) = row.amount /\ Pays(lines'[l]) = row.amount + gain
       /\ Weighs(row) = row.qty /\ Weighs(lines'[l]) = row.qty
  BY <1>2, <1>3, <1>14 DEF Pays, Weighs
<1>16. ~Due' /\ ~Forgotten' => ~Due /\ ~Forgotten
  <2>1. \A k \in Lines : lines[k].type = "revaluation" /\ lines[k].status = "POSTED" =>
                lines'[k].type = "revaluation" /\ lines'[k].status = "POSTED"
    BY <1>0, <1>14
  <2>2. call[p].op \notin {"claimed", "replay"}
    BY <1>1
  <2> QED
    BY <1>6, <2>1, <2>2, StillDue
<1>17. ASSUME ValueFits(lines, layers)
       PROVE  ValueFits(lines', layers')
  <2>1. Worth(layers') - BaseWorth(layers') = Worth(layers) - BaseWorth(layers) + Pays(lines'[l]) - Pays(lines[l])
    <3>1. Pays(lines'[l]) = Pays(lines[l]) + gain /\ Pays(lines[l]) \in Int
      BY <1>0, <1>8, <1>10, <1>15
    <3>2. Worth(layers') = Worth(layers) + gain /\ BaseWorth(layers') = BaseWorth(layers)
      BY <1>11
    <3> QED
      BY ONLY <1>10, <1>12, <3>1, <3>2
  <2>2. Weighs(lines[l]) <= Weighs(lines'[l])
    BY <1>0, <1>8, <1>15
  <2>3. Worth(layers') \in Int
    BY <1>10, <1>11, <1>12
  <2>4. \A k \in Lines \ {l} : lines'[k] = lines[k]
    BY <1>14
  <2> QED
    BY ONLY <1>2, <1>7, <1>13, <1>17, <2>1, <2>2, <2>3, <2>4, ValueMoved
<1>18. ValueFits(lines', layers') => ValueFits(lines, layers)'
  BY <1>6 DEF ValueFits, BaseWorth
<1> QED
  BY <1>16, <1>17, <1>18 DEF ValueHeld

LEMMA RevaluationValue ==
    ASSUME Consistent, Serial, Fresh, ValueHeld, NEW p \in Procs, PostRevaluation(p)
    PROVE  ValueHeld'
PROOF
<1>0. SUFFICES ASSUME NEW l, l = call[p].line, NEW cost, cost = lines[l].rate, NEW priced, priced = Open(layers),
                      NEW delta, delta = SumFunction([x \in priced |-> x.qty * (cost - x.cost)])
               PROVE  ValueHeld'
  OBVIOUS
<1>1. call[p].op = "revaluation" /\ "revaluation" \in Documents
  BY DEF PostRevaluation, At, Documents
<1>2. /\ l \in Lines /\ lines[l].type = "revaluation" /\ lines[l] \in LineRow /\ lines[l].status = "DRAFT"
      /\ seen[p].layers = layers
  BY <1>0, <1>1, CallIs, Reads DEF PostRevaluation
<1>3. layers' = {Repriced(y, priced, cost) : y \in layers} /\ Record(l, cost, delta)
  BY <1>0, <1>2 DEF PostRevaluation, Repriced
<1>4. opening' = opening /\ queued' = queued /\ crashes' = crashes /\ replays' = replays
  BY DEF PostRevaluation, counters
<1>5. opening \in Openings /\ Layered(layers, lastId)
  BY NowLedger
<1>6. cost \in Nat
  BY <1>0, <1>2 DEF LineRow
<1>7. delta \in Int
  BY <1>0, <1>5, <1>6, DeltaIs
<1>8. Worth(layers') = Worth(layers) + delta /\ BaseWorth(layers') = BaseWorth(layers)
  BY <1>0, <1>3, <1>5, <1>6, RepricedSums
<1>9. Worth(layers) \in Int /\ BaseWorth(layers) \in Int
  BY <1>5, LayersHeld, BaseWorthInt
<1>10. /\ Worth(layers') \in Int
       /\ Worth(layers') - BaseWorth(layers') = Worth(layers) - BaseWorth(layers) + delta
  BY <1>7, <1>8, <1>9
<1>11. /\ call[p].op \notin {"claimed", "replay"}
       /\ (IF lines[l].type = "issue" THEN -delta ELSE delta) = delta
       /\ (lines[l].type # "revaluation" => delta >= 0)
  BY <1>1, <1>2
<1>12. Worth(layers') - BaseWorth(layers')
         = Worth(layers) - BaseWorth(layers) + (IF lines[l].type = "issue" THEN -delta ELSE delta)
  BY <1>10, <1>11
<1> QED
  BY ONLY Consistent, Serial, ValueHeld, p \in Procs, <1>2, <1>3, <1>4, <1>6, <1>7, <1>10, <1>11, <1>12, PostingFits

-----------------------------------------------------------------------------
(* Rates of a replay and of the other documents.                           *)

LEMMA ReceiptRated ==
    ASSUME Consistent, Fresh, AllRated, NEW p \in Procs, PostReceipt(p)
    PROVE  AllRated'
PROOF
<1>0. SUFFICES ASSUME NEW l, l = call[p].line, NEW q, q = lines[l].qty, NEW rate, rate = lines[l].rate,
                      NEW a, a = q * rate
               PROVE  AllRated'
  OBVIOUS
<1>1. call[p].op = "receipt" /\ "receipt" \in Documents
  BY DEF PostReceipt, At, Documents
<1>2. l \in Lines /\ lines[l] \in LineRow
  BY <1>0, <1>1, CallIs
<1>3. q \in Nat /\ rate \in Nat
  BY <1>0, <1>2 DEF LineRow
<1>4. a \in Nat /\ RateFits(q, rate, a)
  <2>1. a \in Nat
    BY <1>0, <1>3
  <2>2. RateFits(q, rate, q * rate)
    BY <1>3, ExactFits
  <2> QED
    BY <1>0, <2>1, <2>2
<1>5. Record(l, rate, a)
  BY <1>0 DEF PostReceipt
<1>6. a \in Int /\ (lines[l].type # "revaluation" => a >= 0 /\ RateFits(lines[l].qty, rate, a))
  BY <1>0, <1>4
<1> QED
  BY <1>2, <1>3, <1>5, <1>6, PostedRated

LEMMA RevaluationRated ==
    ASSUME Consistent, Fresh, AllRated, NEW p \in Procs, PostRevaluation(p)
    PROVE  AllRated'
PROOF
<1>0. SUFFICES ASSUME NEW l, l = call[p].line, NEW cost, cost = lines[l].rate, NEW priced, priced = Open(seen[p].layers),
                      NEW delta, delta = SumFunction([x \in priced |-> x.qty * (cost - x.cost)])
               PROVE  AllRated'
  OBVIOUS
<1>1. call[p].op = "revaluation" /\ "revaluation" \in Documents
  BY DEF PostRevaluation, At, Documents
<1>2. /\ l \in Lines /\ lines[l].type = "revaluation" /\ lines[l] \in LineRow /\ Layered(seen[p].layers, lastId)
  BY <1>0, <1>1, CallIs
<1>3. Record(l, cost, delta)
  BY <1>0 DEF PostRevaluation
<1>4. cost \in Nat
  BY <1>0, <1>2 DEF LineRow
<1>5. delta \in Int
  BY <1>0, <1>2, <1>4, DeltaIs
<1>6. lines[l].type # "revaluation" => delta >= 0 /\ RateFits(lines[l].qty, cost, delta)
  BY <1>2
<1> QED
  BY <1>2, <1>3, <1>4, <1>5, <1>6, PostedRated

LEMMA ReverseRated ==
    ASSUME Consistent, AllRated, NEW p \in Procs, ReverseDocument(p)
    PROVE  AllRated'
PROOF
<1>0. SUFFICES ASSUME NEW l, l = call[p].line PROVE AllRated'
  OBVIOUS
<1>1. call[p].op = "reverse" /\ "reverse" \in Documents
  BY DEF ReverseDocument, At, Documents
<1>2. l \in Lines /\ lines[l] \in LineRow
  BY <1>0, <1>1, CallIs
<1>3. ReadRows(lines) /\ lines' = [lines EXCEPT ![l].status = "REVERSED"]
  BY <1>0, NowLedger DEF ReverseDocument
<1>4. lines'[l] = ReversedRow(lines[l]) /\ \A k \in Lines \ {l} : lines'[k] = lines[k]
  BY <1>2, <1>3, LineReversed
<1>5. lines'[l].status = "REVERSED"
  BY <1>2, <1>4 DEF ReversedRow, LineRow
<1>6. Rated(lines'[l])
  BY <1>5 DEF Rated
<1> QED
  BY <1>2, <1>4, <1>6, OneRated

\* The lines after a replay: what it came to, or what they were within the tolerance.
LEMMA ReplayedLines ==
    ASSUME Consistent, Fresh, NEW p \in Procs, Replay(p), NEW r, r = Replayed(lines, lines, lastId + 1)
    PROVE  /\ layers' = r.layers /\ trail' = trail \cup r.trail
           /\ opening' = opening /\ queued' = queued /\ crashes' = crashes /\ replays' = replays
           /\ r.rate \in [Lines -> Nat] /\ r.amount \in [Lines -> Int] /\ Layered(r.layers, r.id - 1)
           /\ RunValue(lines, Movements(lines), r) /\ lines' \in Rows
           /\ \A l \in Lines :
                /\ lines'[l].type = lines[l].type /\ lines'[l].qty = lines[l].qty /\ lines'[l].status = lines[l].status
                /\ l \in Movements(lines) =>
                     /\ lines'[l].rate = r.rate[l]
                     /\ \/ lines'[l].amount = r.amount[l]
                        \/ lines'[l].amount = lines[l].amount /\ lines[l].rate = r.rate[l]
PROOF
<1> DEFINE b == lastId + 1
           moved == Movements(lines)
<1>1. seen[p].lines = lines
  BY DEF Fresh, Replay, At
<1>2. /\ ReadRows(lines) /\ lines \in Rows /\ opening \in Openings /\ lastId \in Nat
  BY NowLedger
<1>3. b \in Nat \ {0} /\ r = Replayed(lines, lines, b)
  BY <1>2
<1> HIDE DEF b
<1>4. RunFits(lines, moved, r, b) /\ RunValue(lines, moved, r)
  BY <1>2, <1>3, ReplayFits, ReplayValue
<1>5. r.rate \in [Lines -> Nat] /\ r.amount \in [Lines -> Int] /\ Layered(r.layers, r.id - 1)
  BY <1>4 DEF RunFits
<1>6. /\ layers' = r.layers /\ trail' = trail \cup r.trail
      /\ opening' = opening /\ queued' = queued /\ crashes' = crashes /\ replays' = replays
      /\ lines' = [l \in Lines |-> IF l \in Revised(lines, r)
                                   THEN Revise(lines[l], r.rate[l], r.amount[l]) ELSE lines[l]]
  BY <1>1 DEF Replay, counters
<1>7. lines' \in Rows
  BY ReplayTables DEF TablesFit, ReadRows
<1>8. ASSUME NEW l \in Lines
      PROVE  /\ lines'[l].type = lines[l].type /\ lines'[l].qty = lines[l].qty
             /\ lines'[l].status = lines[l].status
             /\ (l \in moved =>
                   /\ lines'[l].rate = r.rate[l]
                   /\ \/ lines'[l].amount = r.amount[l]
                      \/ lines'[l].amount = lines[l].amount /\ lines[l].rate = r.rate[l])
  <2>1. lines[l] \in LineRow
    BY <1>2 DEF Rows
  <2>2. lines'[l] = IF l \in Revised(lines, r) THEN Revise(lines[l], r.rate[l], r.amount[l]) ELSE lines[l]
    BY <1>6
  <2>3. CASE l \in Revised(lines, r)
    BY <2>1, <2>2, <2>3 DEF Revise, LineRow
  <2>4. CASE l \notin Revised(lines, r)
    <3>1. l \in moved => lines[l].rate = r.rate[l]
      BY <2>4 DEF Revised
    <3> QED
      BY <2>2, <2>4, <3>1
  <2> QED
    BY <2>3, <2>4
<1> QED
  BY <1>4, <1>5, <1>6, <1>7, <1>8

LEMMA ReplayRated ==
    ASSUME Consistent, Fresh, AllRated, NEW p \in Procs, Replay(p)
    PROVE  AllRated'
PROOF
<1>0. SUFFICES ASSUME NEW r, r = Replayed(lines, lines, lastId + 1), NEW l \in Lines,
                      lines'[l].type # "revaluation", lines'[l].status = "POSTED"
               PROVE  RateFits(lines'[l].qty, lines'[l].rate, lines'[l].amount)
  BY DEF AllRated, Rated
<1>1. /\ RunValue(lines, Movements(lines), r)
      /\ lines'[l].type = lines[l].type /\ lines'[l].qty = lines[l].qty /\ lines'[l].status = lines[l].status
      /\ l \in Movements(lines) =>
           /\ lines'[l].rate = r.rate[l]
           /\ \/ lines'[l].amount = r.amount[l]
              \/ lines'[l].amount = lines[l].amount /\ lines[l].rate = r.rate[l]
  BY <1>0, ReplayedLines
<1>2. lines[l].type \in {"receipt", "issue", "revaluation"}
  BY NowLedger DEF Rows, LineRow
<1>3. l \in Movements(lines)
  BY <1>0, <1>1, <1>2 DEF Movements
<1>4. RateFits(lines[l].qty, r.rate[l], r.amount[l])
  BY <1>1, <1>3 DEF RunValue, RunRated
<1>5. RateFits(lines[l].qty, lines[l].rate, lines[l].amount)
  BY <1>0, <1>1 DEF AllRated, Rated
<1> QED
  BY <1>1, <1>3, <1>4, <1>5

LEMMA ReplayedValue ==
    ASSUME Consistent, Fresh, AllRated, NEW p \in Procs, Replay(p)
    PROVE  ValueHeld'
PROOF
<1>0. SUFFICES ASSUME NEW r, r = Replayed(lines, lines, lastId + 1), NEW moved, moved = Movements(lines), ~Forgotten'
               PROVE  ValueFits(lines, layers)'
  BY DEF ValueHeld
<1>1. /\ layers' = r.layers /\ opening' = opening /\ replays' = replays
      /\ r.amount \in [Lines -> Int] /\ Layered(r.layers, r.id - 1)
      /\ RunValue(lines, moved, r) /\ lines' \in Rows
  BY <1>0, ReplayedLines
<1>2. \A l \in Lines :
        /\ lines'[l].type = lines[l].type /\ lines'[l].qty = lines[l].qty /\ lines'[l].status = lines[l].status
        /\ l \in moved =>
             /\ lines'[l].rate = r.rate[l]
             /\ \/ lines'[l].amount = r.amount[l]
                \/ lines'[l].amount = lines[l].amount /\ lines[l].rate = r.rate[l]
  BY <1>0, ReplayedLines
<1>3. lines \in Rows /\ opening \in Openings
  BY NowLedger
<1>4. \A l \in Lines : lines[l].type = "revaluation" => lines[l].status # "POSTED"
  <2>1. replays > 0
    BY DEF Fresh, Working, Replay, At
  <2>2. Posted("revaluation")' = {}
    BY <1>0, <1>1, <2>1 DEF Forgotten
  <2> QED
    BY <1>2, <2>2 DEF Posted
<1> DEFINE P == RunPays(lines, moved, r)
           F == Pay(lines')
           W == Weight(lines')
           FW == [l \in Lines |-> F[l] + W[l]]
           PW == [l \in Lines |-> P[l] + W[l]]
<1>5. /\ \A l \in Lines : P[l] \in Int /\ F[l] \in Int /\ W[l] \in Int /\ F[l] = Pays(lines'[l]) /\ W[l] = Weighs(lines'[l])
      /\ SumFunctionOnSet(P, Lines) \in Int
      /\ SumFunctionOnSet(F, Lines) \in Int /\ SumFunctionOnSet(W, Lines) \in Int
  BY <1>1, PayIs, RunPaysInt
<1>6. ASSUME NEW l \in Lines
      PROVE  P[l] - F[l] <= W[l] /\ F[l] - P[l] <= W[l]
  <2>1. /\ lines[l].type \in {"receipt", "issue", "revaluation"} /\ lines[l].qty \in Nat /\ lines[l].amount \in Int
        /\ lines[l].rate \in Nat /\ r.amount[l] \in Int
    BY <1>1, <1>3 DEF Rows, LineRow
  <2>2. CASE l \in moved
    <3>1. lines[l].status = "POSTED" /\ lines[l].type \in {"receipt", "issue"}
      BY <1>0, <2>2 DEF Movements
    <3>2. W[l] = lines[l].qty /\ F[l] = IF lines[l].type = "issue" THEN -lines'[l].amount ELSE lines'[l].amount
      BY <1>2, <1>5, <3>1 DEF Pays, Weighs
    <3>3. P[l] = IF lines[l].type = "issue" THEN -r.amount[l] ELSE r.amount[l]
      BY <2>2 DEF RunPays
    <3>4. lines'[l].amount \in Int /\ r.amount[l] - lines'[l].amount <= lines[l].qty
          /\ lines'[l].amount - r.amount[l] <= lines[l].qty
      <4>1. CASE lines'[l].amount = r.amount[l]
        BY <2>1, <4>1
      <4>2. CASE lines'[l].amount = lines[l].amount /\ lines[l].rate = r.rate[l]
        <5>1. RateFits(lines[l].qty, lines[l].rate, r.amount[l])
          BY <1>1, <2>2, <4>2 DEF RunValue, RunRated
        <5>2. RateFits(lines[l].qty, lines[l].rate, lines[l].amount)
          BY <3>1 DEF AllRated, Rated
        <5>3. r.amount[l] - lines[l].amount <= lines[l].qty /\ lines[l].amount - r.amount[l] <= lines[l].qty
          BY <2>1, <5>1, <5>2, SameRate
        <5> QED
          BY <2>1, <4>2, <5>3
      <4> QED
        BY <1>2, <2>2, <4>1, <4>2
    <3> HIDE DEF P, F, W
    <3>5. CASE lines[l].type = "issue"
      BY <2>1, <3>2, <3>3, <3>4, <3>5
    <3>6. CASE lines[l].type # "issue"
      BY <2>1, <3>2, <3>3, <3>4, <3>6
    <3> QED
      BY <3>5, <3>6
  <2>3. CASE l \notin moved
    <3>1. P[l] = 0
      BY <2>3 DEF RunPays
    <3>2. lines[l].status # "POSTED"
      BY <1>0, <1>4, <2>1, <2>3 DEF Movements
    <3>3. F[l] = 0 /\ W[l] = 0
      BY <1>2, <1>5, <3>2 DEF Pays, Weighs
    <3> HIDE DEF P, F, W
    <3> QED
      BY <3>1, <3>3
  <2> QED
    BY <2>2, <2>3
<1> HIDE DEF P, F, W
<1>7. \A l \in Lines : FW[l] = F[l] + W[l] /\ PW[l] = P[l] + W[l] /\ FW[l] \in Int /\ PW[l] \in Int
  BY <1>5
<1>8. \A l \in Lines : P[l] <= FW[l] /\ F[l] <= PW[l]
  BY <1>5, <1>6, <1>7
<1> HIDE DEF FW, PW
<1>9. IsFiniteSet(Lines)
  BY LinesAssumption
<1>10. SumFunctionOnSet(FW, Lines) = SumFunctionOnSet(F, Lines) + SumFunctionOnSet(W, Lines)
  <2>1. \A l \in Lines : F[l] \in Int /\ W[l] \in Int /\ FW[l] = F[l] + W[l]
    BY <1>5, <1>7
  <2> QED
    BY ONLY <1>9, <2>1, SumAdd
<1>11. SumFunctionOnSet(PW, Lines) = SumFunctionOnSet(P, Lines) + SumFunctionOnSet(W, Lines)
  <2>1. \A l \in Lines : P[l] \in Int /\ W[l] \in Int /\ PW[l] = P[l] + W[l]
    BY <1>5, <1>7
  <2> QED
    BY ONLY <1>9, <2>1, SumAdd
<1>12. SumFunctionOnSet(P, Lines) <= SumFunctionOnSet(FW, Lines)
  <2>1. \A l \in Lines : P[l] \in Int /\ FW[l] \in Int /\ P[l] <= FW[l]
    BY <1>5, <1>7, <1>8
  <2> QED
    BY ONLY <1>9, <2>1, SumMonotone
<1>13. SumFunctionOnSet(F, Lines) <= SumFunctionOnSet(PW, Lines)
  <2>1. \A l \in Lines : F[l] \in Int /\ PW[l] \in Int /\ F[l] <= PW[l]
    BY <1>5, <1>7, <1>8
  <2> QED
    BY ONLY <1>9, <2>1, SumMonotone
<1>14. Worth(r.layers) = BaseWorth(r.layers) + SumFunctionOnSet(P, Lines)
  BY <1>1 DEF RunValue, RunWorth, P
<1>15. BaseWorth(r.layers) \in Int
  BY <1>3, BaseWorthInt
<1>16. ValueFits(lines', r.layers)
  BY <1>5, <1>10, <1>11, <1>12, <1>13, <1>14, <1>15 DEF ValueFits, F, W
<1> QED
  BY <1>1, <1>16 DEF ValueFits, BaseWorth

-----------------------------------------------------------------------------
(* Every step keeps rates and value, one process at a time.                *)

LEMMA RatedStep ==
    ASSUME Consistent, Fresh, AllRated, [Next]_vars
    PROVE  AllRated'
PROOF
<1>0. ASSUME lines' = lines
      PROVE  AllRated'
  BY <1>0 DEF AllRated
<1>1. CASE UNCHANGED vars
  BY <1>0, <1>1 DEF vars
<1>2. ASSUME NEW p \in Procs, Session(p)
      PROVE  AllRated'
  <2>1. ASSUME NEW l, NEW o, NEW c, Begin(p, o, l, c)
        PROVE  AllRated'
    BY <1>0, <2>1 DEF Begin, tables
  <2>2. CASE Rollback(p)
    BY <1>0, <2>2 DEF Rollback, tables
  <2> QED
    BY <1>2, <2>1, <2>2, ReceiptRated, IssueRated, LandedRated, RevaluationRated, ReverseRated DEF Session
<1>3. ASSUME NEW p \in Procs, Worker(p)
      PROVE  AllRated'
  <2>1. CASE ClaimJob(p) \/ ReadMovements(p) \/ CompleteJob(p) \/ Crash(p)
    BY <1>0, <2>1 DEF ClaimJob, ReadMovements, CompleteJob, Crash, tables
  <2>2. CASE PublishRevision(p)
    BY <1>0, <2>2 DEF PublishRevision
  <2> QED
    BY <1>3, <2>1, <2>2, ReplayRated DEF Worker
<1> QED
  BY <1>1, <1>2, <1>3 DEF Next

LEMMA ValueInit ==
    ASSUME Init
    PROVE  ValueHeld
PROOF
<1>1. \A l \in Lines : lines[l].status = "DRAFT"
  BY DraftsAssumption DEF Init, IsDraft
<1>2. \A l \in Lines : Pay(lines)[l] = 0 /\ Weight(lines)[l] = 0
  BY <1>1 DEF Pay, Pays, Weight, Weighs
<1>3. SumFunctionOnSet(Pay(lines), Lines) = 0 /\ SumFunctionOnSet(Weight(lines), Lines) = 0
  BY <1>2, LinesAssumption, SumZero
<1>4. layers = {} /\ BaseWorth({}) = 0
  BY DEF Init, BaseWorth
<1> QED
  BY <1>3, <1>4, NothingDrawn DEF ValueHeld, ValueFits

LEMMA ValueStep ==
    ASSUME Consistent, Serial, Fresh, AllRated, ValueHeld, [Next]_vars
    PROVE  ValueHeld'
PROOF
<1>1. CASE UNCHANGED vars
  BY <1>1 DEF vars, ValueHeld, ValueFits, BaseWorth, Due, Forgotten, Posted
<1>2. ASSUME NEW p \in Procs, Session(p)
      PROVE  ValueHeld'
  <2>1. ASSUME NEW l, NEW o, NEW c, Begin(p, o, l, c)
        PROVE  ValueHeld'
    BY <2>1, StillFits DEF Begin, At, tables, counters
  <2>2. CASE Rollback(p)
    BY <2>2, StillFits DEF Rollback, tables, counters
  <2>3. CASE ReverseDocument(p)
    BY <2>3 DEF ReverseDocument, ValueHeld, Due
  <2> QED
    BY <1>2, <2>1, <2>2, <2>3, ReceiptValue, IssueValue, LandedValue, RevaluationValue DEF Session
<1>3. ASSUME NEW p \in Procs, Worker(p)
      PROVE  ValueHeld'
  <2>0. call \in [Procs -> Call]
    BY DEF Consistent, CallsFit
  <2>1. CASE ClaimJob(p) \/ ReadMovements(p)
    <3>1. call'[p].op \in {"claimed", "replay"}
      BY <2>0, <2>1 DEF ClaimJob, ReadMovements, Doing
    <3> QED
      BY <3>1 DEF ValueHeld, Due
  <2>2. CASE Crash(p)
    <3>1. crashes' > 0
      BY <2>2 DEF Crash, Consistent, CountersFit
    <3> QED
      BY <3>1 DEF ValueHeld, Due
  <2>3. CASE CompleteJob(p)
    BY <2>3, StillFits DEF CompleteJob, At, tables, counters
  <2>4. CASE PublishRevision(p)
    BY <2>4, StillFits DEF PublishRevision, At, counters
  <2> QED
    BY <1>3, <2>1, <2>2, <2>3, <2>4, ReplayedValue DEF Worker
<1> QED
  BY <1>1, <1>2, <1>3 DEF Next

LEMMA Restful ==
    ASSUME Consistent, Settled
    PROVE  ~Due
PROOF
<1>1. ~queued /\ running = 0 /\ IsFiniteSet(Working) /\ Cardinality(Working) + crashes <= running /\ crashes \in Nat
  BY DEF Consistent, CountersFit, Settled
<1>2. Cardinality(Working) \in Nat
  BY <1>1, FS_CardinalityType
<1>3. crashes = 0 /\ Cardinality(Working) = 0
  BY <1>1, <1>2
<1>4. Working = {}
  BY <1>1, <1>3, FS_EmptySet
<1>5. \A p \in Procs : call[p].op \notin {"claimed", "replay"}
  BY <1>4 DEF Working
<1> QED
  BY <1>1, <1>3, <1>5 DEF Due

\* The account, kind by kind.
LEMMA PayByKind ==
    ASSUME Consistent
    PROVE  /\ Amount("receipt") \in Int /\ Amount("issue") \in Int /\ Amount("revaluation") \in Int
           /\ Moved("receipt") \in Int /\ Moved("issue") \in Int
           /\ SumFunctionOnSet(Pay(lines), Lines) = Amount("receipt") - Amount("issue") + Amount("revaluation")
           /\ SumFunctionOnSet(Weight(lines), Lines) = Moved("receipt") + Moved("issue")
PROOF
<1> DEFINE F == Pay(lines)
           W == Weight(lines)
           A == [l \in Lines |-> lines[l].amount]
           Q == [l \in Lines |-> lines[l].qty]
           R == Posted("receipt")
           S == Posted("issue")
           V == Posted("revaluation")
           M == R \cup S
<1>1. lines \in Rows
  BY NowLedger
<1>2. \A l \in Lines : lines[l].qty \in Int /\ Q[l] = lines[l].qty /\ lines[l].amount \in Int /\ A[l] = lines[l].amount
                       /\ lines[l].type \in {"receipt", "issue", "revaluation"}
  BY <1>1 DEF Rows, LineRow
<1>3. R \subseteq Lines /\ S \subseteq Lines /\ V \subseteq Lines /\ R \cap S = {} /\ M \cap V = {} /\ M \cup V \subseteq Lines
      /\ M \subseteq Lines
  BY DEF Posted
<1>4. IsFiniteSet(R) /\ IsFiniteSet(S) /\ IsFiniteSet(V) /\ IsFiniteSet(Lines) /\ IsFiniteSet(M)
  BY <1>3, LinesAssumption, FS_Subset
<1>5. \A l \in Lines : F[l] = Pays(lines[l]) /\ F[l] \in Int /\ W[l] = Weighs(lines[l]) /\ W[l] \in Int
  BY <1>1, PayIs
<1>6. /\ \A l \in R : F[l] = A[l] /\ W[l] = Q[l]
      /\ \A l \in S : F[l] = -A[l] /\ W[l] = Q[l]
      /\ \A l \in V : F[l] = A[l]
      /\ \A l \in Lines \ (M \cup V) : F[l] = 0
      /\ \A l \in Lines \ M : W[l] = 0
  BY <1>2, <1>5 DEF Pays, Weighs, Posted
<1>7. /\ Amount("receipt") = SumFunction([l \in R |-> A[l]]) /\ Amount("issue") = SumFunction([l \in S |-> A[l]])
      /\ Amount("revaluation") = SumFunction([l \in V |-> A[l]])
      /\ Moved("receipt") = SumFunction([l \in R |-> Q[l]]) /\ Moved("issue") = SumFunction([l \in S |-> Q[l]])
  <2>1. /\ [l \in R |-> lines[l].amount] = [l \in R |-> A[l]] /\ [l \in S |-> lines[l].amount] = [l \in S |-> A[l]]
        /\ [l \in V |-> lines[l].amount] = [l \in V |-> A[l]]
        /\ [l \in R |-> lines[l].qty] = [l \in R |-> Q[l]] /\ [l \in S |-> lines[l].qty] = [l \in S |-> Q[l]]
    BY <1>3
  <2> QED
    BY <2>1 DEF Amount, Moved
<1> HIDE DEF F, W, A, Q, R, S, V
<1>8. /\ Amount("receipt") = SumFunctionOnSet(A, R) /\ Amount("issue") = SumFunctionOnSet(A, S)
      /\ Amount("revaluation") = SumFunctionOnSet(A, V)
      /\ Moved("receipt") = SumFunctionOnSet(Q, R) /\ Moved("issue") = SumFunctionOnSet(Q, S)
  BY <1>4, <1>7, SumOn
<1>9. \A l \in Lines : A[l] \in Int /\ Q[l] \in Int
  BY <1>2
<1>10. /\ SumFunctionOnSet(A, R) \in Int /\ SumFunctionOnSet(A, S) \in Int /\ SumFunctionOnSet(A, V) \in Int
       /\ SumFunctionOnSet(Q, R) \in Int /\ SumFunctionOnSet(Q, S) \in Int
  BY <1>3, <1>4, <1>9, SumInt
<1> HIDE DEF M
<1>11. SumFunctionOnSet(F, Lines) = SumFunctionOnSet(F, M \cup V)
  <2>1. \A l \in Lines : F[l] \in Int
    BY <1>5
  <2> QED
    BY <1>3, <1>4, <1>6, <2>1, SumRestrict
<1>12. SumFunctionOnSet(F, M \cup V) = SumFunctionOnSet(F, M) + SumFunctionOnSet(F, V)
  <2>1. \A l \in M \cup V : F[l] \in Int
    BY <1>3, <1>5
  <2> QED
    BY <1>3, <1>4, <2>1, SumUnion
<1>13. SumFunctionOnSet(F, M) = SumFunctionOnSet(F, R) + SumFunctionOnSet(F, S)
  <2>1. \A l \in R \cup S : F[l] \in Int
    BY <1>3, <1>5
  <2>2. SumFunctionOnSet(F, R \cup S) = SumFunctionOnSet(F, R) + SumFunctionOnSet(F, S)
    BY <1>3, <1>4, <2>1, SumUnion
  <2> QED
    BY <2>2 DEF M
<1>14. SumFunctionOnSet(F, R) = SumFunctionOnSet(A, R) /\ SumFunctionOnSet(F, V) = SumFunctionOnSet(A, V)
  BY <1>4, <1>6, SumSame
<1>15. SumFunctionOnSet(F, S) = -SumFunctionOnSet(A, S)
  <2>1. \A l \in S : A[l] \in Int /\ F[l] = -A[l]
    BY <1>3, <1>6, <1>9
  <2> QED
    BY <1>4, <2>1, SumNegate
<1>16. SumFunctionOnSet(W, Lines) = SumFunctionOnSet(W, M)
  <2>1. \A l \in Lines : W[l] \in Int
    BY <1>5
  <2> QED
    BY <1>3, <1>4, <1>6, <2>1, SumRestrict
<1>17. SumFunctionOnSet(W, M) = SumFunctionOnSet(W, R) + SumFunctionOnSet(W, S)
  <2>1. \A l \in R \cup S : W[l] \in Int
    BY <1>3, <1>5
  <2>2. SumFunctionOnSet(W, R \cup S) = SumFunctionOnSet(W, R) + SumFunctionOnSet(W, S)
    BY <1>3, <1>4, <2>1, SumUnion
  <2> QED
    BY <2>2 DEF M
<1>18. SumFunctionOnSet(W, R) = SumFunctionOnSet(Q, R) /\ SumFunctionOnSet(W, S) = SumFunctionOnSet(Q, S)
  BY <1>4, <1>6, SumSame
<1>19. SumFunctionOnSet(F, Lines) = Amount("receipt") - Amount("issue") + Amount("revaluation")
  BY <1>8, <1>10, <1>11, <1>12, <1>13, <1>14, <1>15
<1>20. SumFunctionOnSet(W, Lines) = Moved("receipt") + Moved("issue")
  BY <1>8, <1>16, <1>17, <1>18
<1> QED
  BY <1>8, <1>10, <1>19, <1>20 DEF F, W

LEMMA ValueAccounts ==
    ASSUME Consistent, ValueHeld
    PROVE  ValueAccounted
PROOF
<1> DEFINE base == IF OpeningSeeded THEN opening * OpeningCost ELSE 0
           left == Worth(layers) + Amount("issue")
           right == base + Amount("receipt") + Amount("revaluation")
           weight == Moved("receipt") + Moved("issue")
<1>1. SUFFICES ASSUME Settled, replays = 0 \/ Posted("revaluation") = {}
               PROVE  Distance(left, right) <= weight
  BY DEF ValueAccounted
<1>2. ValueFits(lines, layers)
  <2>1. ~Forgotten
    BY <1>1, DataAssumption DEF Forgotten, Consistent, CountersFit
  <2> QED
    BY <1>1, <2>1, Restful DEF ValueHeld
<1>3. /\ Amount("receipt") \in Int /\ Amount("issue") \in Int /\ Amount("revaluation") \in Int
      /\ Moved("receipt") \in Int /\ Moved("issue") \in Int
      /\ SumFunctionOnSet(Pay(lines), Lines) = Amount("receipt") - Amount("issue") + Amount("revaluation")
      /\ SumFunctionOnSet(Weight(lines), Lines) = Moved("receipt") + Moved("issue")
  BY PayByKind
<1>4. opening \in Openings /\ Layered(layers, lastId)
  BY NowLedger
<1>5. BaseWorth(layers) = base
  BY DEF BaseWorth, OpeningSeeded
<1>6. Worth(layers) \in Int /\ base \in Int
  <2>1. Worth(layers) \in Int /\ BaseWorth(layers) \in Int
    BY <1>4, LayersHeld, BaseWorthInt
  <2> HIDE DEF base
  <2> QED
    BY <1>5, <2>1
<1> HIDE DEF base
<1>7. left - right <= weight /\ right - left <= weight
  BY <1>2, <1>3, <1>5, <1>6 DEF ValueFits
<1>8. left \in Int /\ right \in Int /\ weight \in Int
  BY <1>3, <1>6
<1> HIDE DEF left, right, weight
<1> QED
  BY <1>7, <1>8 DEF Distance, Most

(***************************************************************************)
(* One process at a time, whenever no recalculation is due the layers are  *)
(* worth what the documents say went in less what they say went out,       *)
(* within 0.0001 a unit.                                                   *)
(***************************************************************************)
THEOREM ValueKept == Serial /\ Spec => []ValueAccounted
PROOF
<1> DEFINE I == Consistent /\ Serial /\ Fresh /\ AllRated /\ ValueHeld
<1>1. Serial /\ Init => I
  BY ConsistentInit, FreshInit, RatedInit, ValueInit
<1>2. I /\ [Next]_vars => I'
  <2> SUFFICES ASSUME I, [Next]_vars PROVE I'
    OBVIOUS
  <2>1. Serial'
    BY DEF Serial
  <2> QED
    BY <2>1, ConsistentStep, FreshStep, RatedStep, ValueStep
<1>3. I => ValueAccounted
  BY ValueAccounts
<1> HIDE DEF I
<1> QED
  BY <1>1, <1>2, <1>3, PTL DEF Spec

-----------------------------------------------------------------------------
(* What a receipt cost is what issues took of it and what it still holds.  *)

Sold(tr, x) == Worth({t \in tr : t.layer = x.id})
AmountFits(row, a) == 2 * row.amount - 2 * a <= row.qty /\ 2 * a - 2 * row.amount <= row.qty
Spent(rows, tr, x) ==
    x.kind = "receipt" /\ rows[x.line].status = "POSTED" => AmountFits(rows[x.line], Sold(tr, x) + x.qty * x.cost)
LineFits(rows, ls, tr) == Single(ls) /\ \A x \in ls : Spent(rows, tr, x)

Repriceable == Posted("revaluation") # {}
LineHeld == ~Due /\ ~Repriceable => LineFits(lines, layers, trail)

LEMMA SoldIs ==
    ASSUME NEW tr, tr \subseteq TrailRow, IsFiniteSet(tr), NEW x
    PROVE  Sold(tr, x) \in Nat
  BY SomeTrail DEF Sold

LEMMA StillOwing ==
    ASSUME Serial, NEW p \in Procs, call[p].op \notin {"claimed", "replay"}, queued' = queued, crashes' = crashes,
           \A l \in Lines : lines[l].type = "revaluation" /\ lines[l].status = "POSTED" =>
                lines'[l].type = "revaluation" /\ lines'[l].status = "POSTED"
    PROVE  ~Due' /\ ~Repriceable' => ~Due /\ ~Repriceable
PROOF
<1>1. \A q \in Procs : q = p
  BY DEF Serial
<1>2. ~Due' => ~Due
  BY <1>1 DEF Due
<1>3. Repriceable => Repriceable'
  BY DEF Repriceable, Posted
<1> QED
  BY <1>2, <1>3

LEMMA StillSpent ==
    ASSUME Serial, LineHeld, NEW p \in Procs, call[p].op \notin {"claimed", "replay"},
           queued' = queued, crashes' = crashes, lines' = lines, layers' = layers, trail' = trail
    PROVE  LineHeld'
PROOF
<1>1. ~Due' /\ ~Repriceable' => ~Due /\ ~Repriceable
  BY StillOwing
<1> QED
  BY <1>1 DEF LineHeld, LineFits, Single, Spent, Sold, AmountFits

\* The receipts are not moved by a seeded opening.
LEMMA SeededReceipts ==
    ASSUME NEW p, NEW ls, NEW old, old = OrSeeded(p, ls), NEW x, x.kind = "receipt"
    PROVE  x \in old <=> x \in ls
  BY DEF OrSeeded, Seeded, OpeningLayer

LEMMA SeededSpent ==
    ASSUME NEW p, NEW rows, NEW tr, LineFits(rows, layers, tr)
    PROVE  LineFits(rows, OrSeeded(p, layers), tr)
PROOF
<1>0. SUFFICES ASSUME NEW old, old = OrSeeded(p, layers) PROVE LineFits(rows, old, tr)
  OBVIOUS
<1>1. \A x \in old : x.kind = "receipt" => x \in layers
  BY <1>0, SeededReceipts
<1>2. Single(old)
  BY <1>1 DEF LineFits, Single
<1>3. \A x \in old : Spent(rows, tr, x)
  BY <1>1 DEF LineFits, Spent
<1> QED
  BY <1>2, <1>3 DEF LineFits

LEMMA ReceiptSpent ==
    ASSUME Consistent, Serial, Fresh, TallyNow, LineHeld, NEW p \in Procs, PostReceipt(p)
    PROVE  LineHeld'
PROOF
<1>0. SUFFICES ASSUME NEW l, l = call[p].line, NEW old, old = OrSeeded(p, layers), NEW n, n = FirstId(p) - 1,
                      NEW q, q = lines[l].qty, NEW rate, rate = lines[l].rate, NEW a, a = q * rate,
                      NEW x, x = ReceiptLayer(FirstId(p), l, lines[l].date, q, rate)
               PROVE  LineHeld'
  OBVIOUS
<1>1. call[p].op = "receipt" /\ "receipt" \in Documents
  BY DEF PostReceipt, At, Documents
<1>2. l \in Lines /\ lines[l].type = "receipt" /\ lines[l] \in LineRow /\ lines[l].status = "DRAFT"
  BY <1>0, <1>1, CallIs DEF PostReceipt
<1>3. seen[p].layers = layers
  BY <1>1, Reads
<1>4. /\ Ledger(lines, old, trail, n) /\ Tally(lines, old, trail, n, opening)
      /\ n \in Nat /\ FirstId(p) \in Nat /\ n < FirstId(p)
  BY <1>0, <1>3, SeededTally
<1>5. q \in Nat /\ rate \in Nat /\ a \in Nat /\ lines[l].date \in Nat
  BY <1>0, <1>2 DEF LineRow
<1>6. Record(l, rate, a)
  BY <1>0 DEF PostReceipt
<1>7. /\ lines'[l].type = "receipt" /\ lines'[l].qty = q /\ lines'[l].amount = a
      /\ \A k \in Lines \ {l} : lines'[k] = lines[k]
  <2>1. ReadRows(lines)
    BY NowLedger
  <2>2. lines'[l] = PostedRow(lines[l], rate, a) /\ \A k \in Lines \ {l} : lines'[k] = lines[k]
    BY <1>2, <1>5, <2>1, <1>6, Recorded
  <2> QED
    BY <1>0, <1>2, <2>2 DEF PostedRow, LineRow
<1>8. /\ layers' = old \cup {x} /\ trail' = trail /\ queued' = queued /\ crashes' = crashes
  BY <1>0 DEF PostReceipt, counters
<1>9. x.id = FirstId(p) /\ x.kind = "receipt" /\ x.line = l /\ x.qty * x.cost = a
  BY <1>0 DEF ReceiptLayer
<1>10. ~Due' /\ ~Repriceable' => ~Due /\ ~Repriceable
  <2>1. \A k \in Lines : lines[k].type = "revaluation" /\ lines[k].status = "POSTED" =>
                lines'[k].type = "revaluation" /\ lines'[k].status = "POSTED"
    BY <1>2, <1>7
  <2>2. call[p].op \notin {"claimed", "replay"}
    BY <1>1
  <2> QED
    BY <1>8, <2>1, <2>2, StillOwing
<1>11. ASSUME LineFits(lines, layers, trail)
       PROVE  LineFits(lines', layers', trail')
  <2>1. LineFits(lines, old, trail)
    BY <1>0, <1>11, SeededSpent
  <2>2. \A y \in old : y.kind = "receipt" => y.line \in Lines /\ y.line # l
    <3>1. \A y \in old : y.kind = "receipt" => y.line \in Lines
      BY <1>4 DEF Ledger, Layered
    <3>2. \A y \in old : y.kind = "receipt" => lines[y.line].status # "DRAFT"
      BY <1>4 DEF Tally, ReceiptsFit
    <3> QED
      BY <1>2, <3>1, <3>2
  <2>3. Single(layers')
    BY <1>8, <1>9, <2>1, <2>2 DEF LineFits, Single
  <2>4. ASSUME NEW y \in old
        PROVE  Spent(lines', trail', y)
    BY <1>7, <1>8, <2>1, <2>2 DEF LineFits, Spent
  <2>5. Spent(lines', trail', x)
    <3>1. \A t \in trail : t.layer # x.id
      <4>1. \A t \in trail : t.layer <= n
        BY <1>4 DEF Tally, TrailFits
      <4>2. \A t \in trail : t.layer \in Nat
        BY <1>4 DEF Ledger, TrailRow
      <4> QED
        BY <1>4, <1>9, <4>1, <4>2
    <3>2. {t \in trail : t.layer = x.id} = {}
      BY <3>1
    <3>3. Sold(trail, x) = 0
      BY <3>2, NothingDrawn DEF Sold
    <3>4. Sold(trail', x) + x.qty * x.cost = a
      BY <1>5, <1>8, <1>9, <3>3
    <3>5. AmountFits(lines'[l], a)
      BY <1>5, <1>7 DEF AmountFits
    <3> QED
      BY <1>9, <3>4, <3>5 DEF Spent
  <2> QED
    BY <1>8, <2>3, <2>4, <2>5 DEF LineFits
<1> QED
  BY <1>10, <1>11 DEF LineHeld, LineFits, Single, Spent, Sold, AmountFits

\* Two parts of a trail that are one.
Parts(c, a, b) == c = a \cup b /\ a \cap b = {}

LEMMA TrailJoined ==
    ASSUME NEW c, c \subseteq TrailRow, IsFiniteSet(c), NEW a, NEW b, Parts(c, a, b)
    PROVE  Worth(c) = Worth(a) + Worth(b)
PROOF
<1>1. a \subseteq c /\ b \subseteq c /\ a \cap b = {} /\ c = a \cup b
  BY DEF Parts
<1>2. Quantity(a \cup b) = Quantity(a) + Quantity(b) /\ Worth(a \cup b) = Worth(a) + Worth(b)
  BY <1>1, TrailSplits
<1> QED
  BY <1>1, <1>2

\* What an issue takes of a layer, the trail says at the layer's cost.
LEMMA SoldMore ==
    ASSUME NEW ls, NEW n, Layered(ls, n), NEW tr, tr \subseteq TrailRow, IsFiniteSet(tr),
           NEW l \in Lines, \A t \in tr : t.line # l, NEW q \in Nat,
           NEW tr2, tr2 = tr \cup Consumptions(ls, l, q), NEW y \in ls
    PROVE  Sold(tr2, y) = Sold(tr, y) + Took(ls, y, q) * y.cost
PROOF
<1>0. SUFFICES ASSUME NEW C, C = Consumptions(ls, l, q), NEW some, some = {t \in C : t.layer = y.id},
                      NEW old, old = {t \in tr : t.layer = y.id}
               PROVE  Sold(tr2, y) = Sold(tr, y) + Took(ls, y, q) * y.cost
  OBVIOUS
<1>1. C \subseteq TrailRow /\ IsFiniteSet(C) /\ \A t \in C : t.line = l
  BY <1>0, ConsumptionsAre
<1>2. tr2 \subseteq TrailRow /\ IsFiniteSet(tr2) /\ tr2 = tr \cup C
  BY <1>0, <1>1, FS_Union
<1>3. Worth(some) = Took(ls, y, q) * y.cost
  BY <1>0, ConsumedIs
<1>4. Parts({t \in tr2 : t.layer = y.id}, old, some)
  BY <1>0, <1>1, <1>2 DEF Parts
<1>5. Worth({t \in tr2 : t.layer = y.id}) = Worth(old) + Worth(some)
  <2>0. SUFFICES ASSUME NEW c, c = {t \in tr2 : t.layer = y.id} PROVE Worth(c) = Worth(old) + Worth(some)
    OBVIOUS
  <2>1. c \subseteq TrailRow /\ IsFiniteSet(c)
    BY <1>2, <2>0, FS_Subset
  <2>2. Parts(c, old, some)
    BY <1>4, <2>0
  <2> QED
    BY ONLY <2>1, <2>2, TrailJoined
<1> QED
  BY <1>0, <1>3, <1>5 DEF Sold

LEMMA IssueSpent ==
    ASSUME Consistent, Serial, Fresh, TallyNow, LineHeld, NEW p \in Procs, PostIssue(p)
    PROVE  LineHeld'
PROOF
<1>0. SUFFICES ASSUME NEW l, l = call[p].line, NEW old, old = OrSeeded(p, layers), NEW n, n = FirstId(p) - 1,
                      NEW h, h = HistoricCost(lines, Inward(lines)), NEW q, q = lines[l].qty,
                      NEW a, a = IssueAmount(old, q, h), NEW after, after = AfterIssue(old, old, q),
                      NEW S, S = ShortfallLayer(FirstId(p), old, l, lines[l].date, q, h)
               PROVE  LineHeld'
  OBVIOUS
<1>1. call[p].op = "issue" /\ "issue" \in Documents
  BY DEF PostIssue, At, Documents
<1>2. /\ l \in Lines /\ lines[l].type = "issue" /\ lines[l] \in LineRow /\ lines[l].status = "DRAFT"
      /\ RowFits(lines[l])
  BY <1>0, <1>1, CallIs DEF PostIssue
<1>3. seen[p].layers = layers
  BY <1>1, Reads
<1>4. /\ Ledger(lines, old, trail, n) /\ Tally(lines, old, trail, n, opening)
      /\ n \in Nat /\ FirstId(p) \in Nat /\ n < FirstId(p)
  BY <1>0, <1>3, SeededTally
<1>5. q \in Nat \ {0} /\ q \in Nat
  BY <1>0, <1>2 DEF LineRow, RowFits
<1>6. h \in Nat
  <2>1. Inward(lines) \subseteq Lines /\ lines \in Rows
    BY NowLedger DEF Inward
  <2> QED
    BY <1>0, <2>1, HistoricIs
<1>7. Layered(old, n) /\ trail \subseteq TrailRow /\ IsFiniteSet(trail)
  BY <1>4 DEF Ledger
<1>8. a \in Nat
  BY <1>0, <1>5, <1>6, <1>7, IssueAmountIs
<1>9. Record(l, Rounded(a, q), a) /\ Rounded(a, q) \in Nat
  BY <1>0, <1>3, <1>5, <1>8, RoundedIs DEF PostIssue
<1>10. lines'[l].type = "issue" /\ \A k \in Lines \ {l} : lines'[k] = lines[k]
  <2>1. ReadRows(lines)
    BY NowLedger
  <2>2. lines'[l] = PostedRow(lines[l], Rounded(a, q), a) /\ \A k \in Lines \ {l} : lines'[k] = lines[k]
    BY <1>2, <1>8, <1>9, <2>1, Recorded
  <2> QED
    BY <1>2, <2>2 DEF PostedRow, LineRow
<1>11. /\ layers' = after \cup S /\ trail' = trail \cup Consumptions(old, l, q)
       /\ queued' = queued /\ crashes' = crashes
  BY <1>0, <1>3 DEF PostIssue, counters
<1>12. ~Due' /\ ~Repriceable' => ~Due /\ ~Repriceable
  <2>1. \A k \in Lines : lines[k].type = "revaluation" /\ lines[k].status = "POSTED" =>
                lines'[k].type = "revaluation" /\ lines'[k].status = "POSTED"
    BY <1>2, <1>10
  <2>2. call[p].op \notin {"claimed", "replay"}
    BY <1>1
  <2> QED
    BY <1>11, <2>1, <2>2, StillOwing
<1>13. PICK f \in [old -> LayerRow] :
         /\ after = {f[y] : y \in old}
         /\ \A y \in old : SameLayer(f[y], y) /\ f[y].cost = y.cost /\ f[y].qty = y.qty - Took(old, y, q)
  <2>1. Layered(old, n) /\ q \in Nat /\ after = AfterIssue(old, old, q)
    BY <1>0, <1>5, <1>7
  <2> QED
    BY ONLY <2>1, IssueWrites
<1>14. \A x \in S : x.kind # "receipt"
  BY <1>0 DEF ShortfallLayer, Backorder
<1>15. ASSUME LineFits(lines, layers, trail)
       PROVE  LineFits(lines', layers', trail')
  <2>1. LineFits(lines, old, trail)
    BY <1>0, <1>15, SeededSpent
  <2>2. Single(layers')
    <3>1. Single(old) /\ layers' = {f[y] : y \in old} \cup S
      BY <1>11, <1>13, <2>1 DEF LineFits
    <3>2. \A y \in old : SameLayer(f[y], y)
      BY <1>13
    <3> QED
      BY ONLY <1>14, <3>1, <3>2, f \in [old -> LayerRow], SingleKept
  <2>3. ASSUME NEW y \in old
        PROVE  Spent(lines', trail', f[y])
    <3>0. SUFFICES ASSUME NEW z, z = f[y], z.kind = "receipt" PROVE Spent(lines', trail', z)
      BY DEF Spent
    <3>1. /\ z.kind = y.kind /\ z.line = y.line /\ z.id = y.id /\ z.cost = y.cost /\ z.qty = y.qty - Took(old, y, q)
      BY <1>13, <3>0 DEF SameLayer
    <3>2. y.line \in Lines /\ lines[y.line].type = "receipt"
      BY <1>4, <3>0, <3>1 DEF Ledger, Layered, Tally, ReceiptsFit
    <3>3. lines'[y.line] = lines[y.line]
      BY <1>2, <1>10, <3>2
    <3>4. Sold(trail', y) = Sold(trail, y) + Took(old, y, q) * y.cost
      <4>1. \A t \in trail : t.line # l
        BY <1>2, <1>4 DEF Tally, TrailFits
      <4>2. trail' = trail \cup Consumptions(old, l, q)
        BY <1>11
      <4> QED
        BY ONLY <1>2, <1>5, <1>7, <4>1, <4>2, y \in old, SoldMore
    <3>5. Sold(trail', z) = Sold(trail', y)
      BY <3>1 DEF Sold
    <3>6. y.qty \in Int /\ y.cost \in Nat /\ Took(old, y, q) \in Nat /\ Sold(trail, y) \in Nat
      BY <1>5, <1>7, LayersHeld, TookIs, SoldIs
    <3>7. (y.qty - Took(old, y, q)) * y.cost = y.qty * y.cost - Took(old, y, q) * y.cost
          /\ y.qty * y.cost \in Int /\ Took(old, y, q) * y.cost \in Int
      <4>1. \A b, c, d \in Int : (b - c) * d = b * d - c * d /\ b * d \in Int /\ c * d \in Int
        BY Z3
      <4>2. y.qty \in Int /\ y.cost \in Int /\ Took(old, y, q) \in Int
        BY <3>6
      <4> QED
        BY <4>1, <4>2
    <3>8. z.qty * z.cost = y.qty * y.cost - Took(old, y, q) * y.cost
      BY <3>1, <3>7
    <3>9. Sold(trail', z) + z.qty * z.cost = Sold(trail, y) + y.qty * y.cost
      BY <3>4, <3>5, <3>6, <3>7, <3>8
    <3>10. Spent(lines, trail, y)
      BY <2>1 DEF LineFits
    <3> QED
      BY <3>1, <3>3, <3>9, <3>10 DEF Spent
  <2>4. ASSUME NEW x \in layers'
        PROVE  Spent(lines', trail', x)
    <3>1. CASE x \in S
      BY <1>14, <3>1 DEF Spent
    <3>2. CASE x \notin S
      <4>1. PICK y \in old : x = f[y]
        BY <1>11, <1>13, <3>2
      <4> QED
        BY <2>3, <4>1
    <3> QED
      BY <3>1, <3>2
  <2> QED
    BY <2>2, <2>4 DEF LineFits
<1> QED
  BY <1>12, <1>15 DEF LineHeld, LineFits, Single, Spent, Sold, AmountFits

LEMMA LandedSpent ==
    ASSUME Consistent, Serial, Fresh, TallyNow, LineHeld, NEW p \in Procs, PostLandedCost(p)
    PROVE  LineHeld'
PROOF
<1>0. SUFFICES ASSUME NEW l, l = call[p].line, NEW row, row = lines[l], NEW charge, charge = call[p].charge,
                      NEW perUnit, perUnit = Rounded(charge, row.qty), NEW opened, opened = LayersOf(layers, l),
                      NEW gain, gain = SumFunction([x \in opened |-> Absorbed(x, perUnit)]),
                      NEW amount, amount = row.amount + gain, NEW rate, rate = Rounded(amount, row.qty)
               PROVE  LineHeld'
  OBVIOUS
<1>1. call[p].op = "landed" /\ "landed" \in Documents
  BY DEF PostLandedCost, At, Documents
<1>2. /\ l \in Lines /\ row.type = "receipt" /\ row \in LineRow /\ RowFits(row) /\ charge \in Charges
      /\ seen[p].lines = lines /\ seen[p].layers = layers
  BY <1>0, <1>1, CallIs, Reads
<1>3. lines' = IF gain = 0 THEN lines ELSE [lines EXCEPT ![l].amount = amount, ![l].rate = rate]
  BY <1>0, <1>2 DEF PostLandedCost
<1>4. layers' = {Raised(y, opened, perUnit) : y \in layers}
  <2>1. layers' = {Raised(y, LayersOf(seen[p].layers, call[p].line),
                          Rounded(call[p].charge, seen[p].lines[call[p].line].qty)) : y \in layers}
    BY DEF PostLandedCost, Raised
  <2> QED
    BY <1>0, <1>2, <2>1
<1>5. trail' = trail /\ queued' = queued /\ crashes' = crashes
  BY DEF PostLandedCost
<1>6. lines \in Rows /\ Layered(layers, lastId) /\ layers \subseteq LayerRow /\ trail \subseteq TrailRow /\ IsFiniteSet(trail)
  BY NowLedger DEF Layered
<1>7. row.qty \in Nat \ {0} /\ row.amount \in Int /\ charge \in Nat
  BY <1>2, DataAssumption DEF LineRow, RowFits
<1>8. perUnit \in Nat
  BY <1>0, <1>7, RoundedIs
<1>9. gain \in Nat
  BY <1>0, <1>6, <1>8, AbsorbedIs
<1>10. /\ lines'[l].type = row.type /\ lines'[l].qty = row.qty /\ lines'[l].status = row.status
       /\ lines'[l].amount = row.amount + gain
       /\ \A k \in Lines \ {l} : lines'[k] = lines[k]
  <2>1. CASE gain = 0
    <3>1. lines' = lines /\ row = lines[l]
      BY <1>0, <1>3, <2>1
    <3>2. row.amount + gain = row.amount
      BY <1>7, <2>1
    <3> QED
      BY <3>1, <3>2
  <2>2. CASE gain # 0
    <3>1. lines' = [lines EXCEPT ![l].amount = amount, ![l].rate = rate]
      BY <1>3, <2>2
    <3> QED
      BY <1>0, <1>2, <1>6, <3>1 DEF Rows, LineRow
  <2> QED
    BY <2>1, <2>2
<1>11. ~Due' /\ ~Repriceable' => ~Due /\ ~Repriceable
  <2>1. \A k \in Lines : lines[k].type = "revaluation" /\ lines[k].status = "POSTED" =>
                lines'[k].type = "revaluation" /\ lines'[k].status = "POSTED"
    BY <1>0, <1>2, <1>10
  <2>2. call[p].op \notin {"claimed", "replay"}
    BY <1>1
  <2> QED
    BY <1>5, <2>1, <2>2, StillOwing
<1> DEFINE f == [y \in layers |-> Raised(y, opened, perUnit)]
<1>12. opened \subseteq LayerRow
  BY <1>0, <1>6 DEF LayersOf
<1>13. \A y \in layers : f[y] \in LayerRow /\ SameLayer(f[y], y) /\ f[y].qty = y.qty
  <2> TAKE y \in layers
  <2>1. y \in LayerRow
    BY <1>6
  <2>2. f[y] = Raised(y, opened, perUnit)
    OBVIOUS
  <2> HIDE DEF f
  <2> QED
    BY <1>8, <1>12, <2>1, <2>2, RaisedIs
<1>14. f \in [layers -> LayerRow] /\ layers' = {f[y] : y \in layers} \cup {}
  BY <1>4, <1>13
<1>15. \A y \in layers : f[y] = Raised(y, opened, perUnit)
  OBVIOUS
<1> HIDE DEF f
<1>16. ASSUME LineFits(lines, layers, trail)
       PROVE  LineFits(lines', layers', trail')
  <2>1. Single(layers')
    <3>0. SUFFICES ASSUME NEW none, none = {} PROVE Single(layers')
      OBVIOUS
    <3>1. Single(layers) /\ layers' = {f[y] : y \in layers} \cup none
      BY <1>14, <1>16, <3>0 DEF LineFits
    <3>2. \A y \in layers : SameLayer(f[y], y)
      BY <1>13
    <3>3. f \in [layers -> LayerRow]
      BY <1>14
    <3>4. \A x \in none : x.kind # "receipt"
      BY <3>0
    <3> QED
      BY ONLY <3>1, <3>2, <3>3, <3>4, SingleKept
  <2>2. ASSUME NEW y \in layers
        PROVE  Spent(lines', trail', f[y])
    <3>0. SUFFICES ASSUME NEW z, z = f[y], z.kind = "receipt", lines'[z.line].status = "POSTED"
                   PROVE  AmountFits(lines'[z.line], Sold(trail', z) + z.qty * z.cost)
      BY DEF Spent
    <3>1. /\ z.kind = y.kind /\ z.line = y.line /\ z.id = y.id /\ z.qty = y.qty
      BY <1>13, <3>0 DEF SameLayer
    <3>2. y.line \in Lines /\ y.qty \in Int /\ y.cost \in Nat
      BY <1>6, <3>0, <3>1, LayersHeld DEF Layered
    <3>3. Sold(trail', z) = Sold(trail, y) /\ Sold(trail, y) \in Nat
      BY <1>5, <1>6, <3>1, SoldIs DEF Sold
    <3>4. Spent(lines, trail, y)
      BY <1>16 DEF LineFits
    <3>5. CASE y.line = l
      <4>1. y \in opened
        BY <1>0, <3>0, <3>1, <3>5 DEF LayersOf
      <4>2. opened = {y}
        <5>1. \A x \in opened : x = y
          BY <1>0, <1>16, <3>0, <3>1, <3>5 DEF LayersOf, LineFits, Single
        <5> QED
          BY <4>1, <5>1
      <4>3. z.cost = y.cost + perUnit /\ y.qty >= 0
        BY <1>0, <1>6, <1>8, <1>15, <3>0, <4>1, RaisedWorth
      <4>4. gain = y.qty * perUnit
        <5> DEFINE F == [x \in opened |-> Absorbed(x, perUnit)]
        <5>1. F[y] = y.qty * perUnit
          BY <3>2, <4>1, <4>3 DEF Absorbed, Most
        <5>2. F = [x \in {y} |-> F[x]] /\ F[y] \in Int
          <6>1. y.qty * perUnit \in Int
            BY <1>8, <3>2
          <6> QED
            BY <4>2, <5>1, <6>1
        <5> HIDE DEF F
        <5>3. SumFunction([x \in {y} |-> F[x]]) = SumFunctionOnSet(F, {y})
          BY FS_Singleton, SumOn
        <5>4. SumFunctionOnSet(F, {y}) = F[y]
          <6>1. IsFiniteSet({}) /\ y \notin {} /\ \A x \in {} \cup {y} : F[x] \in Int
            BY <5>2, FS_EmptySet
          <6>2. SumFunctionOnSet(F, {} \cup {y}) = SumFunctionOnSet(F, {}) + F[y]
            BY <6>1, SumJoin
          <6>3. SumFunctionOnSet(F, {}) = 0 /\ {} \cup {y} = {y}
            BY SumEmpty
          <6> QED
            BY <5>2, <6>2, <6>3
        <5>5. gain = SumFunction(F)
          BY <1>0 DEF F
        <5> QED
          BY <5>1, <5>2, <5>3, <5>4, <5>5
      <4>5. z.qty * z.cost = y.qty * y.cost + gain /\ y.qty * y.cost \in Int
        <5>1. \A b, c, d \in Int : b * (c + d) = b * c + b * d /\ b * c \in Int
          BY Z3
        <5>2. y.qty \in Int /\ y.cost \in Int /\ perUnit \in Int
          BY <1>8, <3>2
        <5>3. y.qty * (y.cost + perUnit) = y.qty * y.cost + y.qty * perUnit /\ y.qty * y.cost \in Int
          BY <5>1, <5>2
        <5> QED
          BY <3>1, <4>3, <4>4, <5>3
      <4>6. AmountFits(row, Sold(trail, y) + y.qty * y.cost)
        BY <1>0, <1>10, <3>0, <3>1, <3>4, <3>5 DEF Spent
      <4>7. AmountFits(lines'[l], Sold(trail, y) + y.qty * y.cost + gain)
        BY <1>7, <1>9, <1>10, <3>3, <4>5, <4>6 DEF AmountFits
      <4>8. Sold(trail', z) + z.qty * z.cost = Sold(trail, y) + y.qty * y.cost + gain
        BY <1>9, <3>3, <4>5
      <4> QED
        BY <3>1, <3>5, <4>7, <4>8
    <3>6. CASE y.line # l
      <4>1. y \notin opened
        BY <1>0, <3>6 DEF LayersOf
      <4>2. z = y
        BY <1>0, <1>6, <1>8, <1>15, <3>0, <4>1, RaisedWorth
      <4>3. lines'[y.line] = lines[y.line]
        BY <1>10, <3>2, <3>6
      <4> QED
        BY <3>0, <3>3, <3>4, <4>2, <4>3 DEF Spent
    <3> QED
      BY <3>5, <3>6
  <2> QED
    BY <1>14, <2>1, <2>2 DEF LineFits
<1> QED
  BY <1>11, <1>16 DEF LineHeld, LineFits, Single, Spent, Sold, AmountFits

\* Consumption rows of one cost.
LEMMA SameCostWorth ==
    ASSUME NEW tr, tr \subseteq TrailRow, IsFiniteSet(tr), NEW some, some \subseteq tr, NEW c \in Nat, \A t \in some : t.cost = c
    PROVE  Worth(some) = c * Quantity(some)
PROOF
<1>1. /\ IsFiniteSet(some)
      /\ Quantity(some) = SumFunctionOnSet(Qty, some) /\ Worth(some) = SumFunctionOnSet(Value, some)
      /\ \A t \in some : t.qty \in Nat /\ t.cost \in Nat /\ Qty[t] \in Nat /\ Qty[t] = t.qty /\ Value[t] = t.qty * t.cost
  BY SomeTrail
<1>2. ASSUME NEW t \in some
      PROVE  Qty[t] \in Int /\ Value[t] = c * Qty[t]
  <2>1. t.qty \in Nat /\ Qty[t] = t.qty /\ Value[t] = t.qty * c
    BY <1>1
  <2>2. t.qty * c = c * t.qty
    BY <2>1
  <2> QED
    BY <2>1, <2>2
<1>3. c \in Int
  OBVIOUS
<1>4. SumFunctionOnSet(Value, some) = c * SumFunctionOnSet(Qty, some)
  <2>1. \A t \in some : Qty[t] \in Int /\ Value[t] = c * Qty[t]
    BY <1>2
  <2>2. IsFiniteSet(some)
    BY <1>1
  <2> QED
    BY ONLY <1>3, <2>1, <2>2, SumScale
<1> QED
  BY <1>1, <1>4

\* What a receipt moved, at its rate, whatever is left of it.
LEMMA WholeReceipt ==
    ASSUME NEW q \in Nat, NEW left \in Int, NEW c \in Nat
    PROVE  c * (q - left) + left * c = q * c /\ q * c \in Nat
  BY Z3

LEMMA ReplayedSpent ==
    ASSUME Consistent, Fresh, AllRated, TallyNow, NEW p \in Procs, Replay(p)
    PROVE  LineHeld'
PROOF
<1>0. SUFFICES ASSUME NEW b, b = lastId + 1, NEW r, r = Replayed(lines, lines, b), NEW moved, moved = Movements(lines)
               PROVE  LineFits(lines', layers', trail')
  BY DEF LineHeld, LineFits, Single, Spent, Sold, AmountFits
<1>1. /\ layers' = r.layers /\ trail' = trail \cup r.trail
      /\ RunValue(lines, moved, r)
      /\ \A l \in Lines : l \in moved => lines'[l].rate = r.rate[l]
      /\ \A l \in Lines : lines'[l].type = lines[l].type
  BY <1>0, ReplayedLines
<1>2. /\ ReadRows(lines) /\ lines \in Rows /\ opening \in Openings /\ lastId \in Nat
      /\ trail \subseteq TrailRow /\ IsFiniteSet(trail)
  BY NowLedger
<1>3. b \in Nat \ {0} /\ lastId < b
  BY <1>0, <1>2
<1>4. RunFits(lines, moved, r, b)
  BY <1>0, <1>2, <1>3, ReplayFits
<1>5. /\ Layered(r.layers, r.id - 1) /\ \A x \in r.layers : b <= x.id /\ (x.kind = "receipt" => x.line \in moved)
      /\ r.trail \subseteq TrailRow /\ IsFiniteSet(r.trail)
  BY <1>4 DEF RunFits
<1>6. trail' \subseteq TrailRow /\ IsFiniteSet(trail')
  <2>1. IsFiniteSet(trail \cup r.trail)
    BY <1>2, <1>5, FS_Union
  <2> QED
    BY <1>1, <1>2, <1>5, <2>1
<1>7. Tally(lines', layers', trail', lastId', opening')
  BY ReplayNow DEF TallyNow
<1>8. \A l \in Lines : Rated(lines'[l])
  BY ReplayRated DEF AllRated
<1>9. lines' \in Rows
  BY <1>0, ReplayedLines
<1>10. Single(layers')
  BY <1>1 DEF RunValue, RunPriced
<1>11. ASSUME NEW x \in layers', x.kind = "receipt", lines'[x.line].status = "POSTED"
       PROVE  AmountFits(lines'[x.line], Sold(trail', x) + x.qty * x.cost)
  <2>0. SUFFICES ASSUME NEW l, l = x.line, NEW some, some = {t \in trail' : t.layer = x.id},
                        NEW new, new = lines'[l]
                 PROVE  AmountFits(new, Sold(trail', x) + x.qty * x.cost)
    OBVIOUS
  <2>1. x \in r.layers /\ l \in moved /\ l \in Lines /\ x.qty \in Int /\ x.cost \in Nat /\ x.id \in Nat /\ b <= x.id
    <3>1. x \in r.layers
      BY <1>1
    <3>2. x.qty \in Int /\ x.cost \in Nat /\ x.id \in Nat
      BY <1>5, <3>1, LayersHeld, RowIs
    <3> QED
      BY <1>0, <1>5, <1>11, <2>0, <3>1, <3>2 DEF Movements
  <2>2. new \in LineRow /\ new.type = "receipt" /\ new.status = "POSTED" /\ x.received = new.qty
    BY <1>7, <1>9, <1>11, <2>0, <2>1 DEF Tally, ReceiptsFit, Rows
  <2>3. x.cost = new.rate
    <3>1. lines[l].type = "receipt"
      BY <1>1, <2>0, <2>1, <2>2
    <3>2. r.rate[l] = lines[l].rate
      BY <1>1, <2>1, <3>1 DEF RunValue, RunRated
    <3>3. x.cost = lines[l].rate
      BY <1>1, <1>11, <2>0, <2>1 DEF RunValue, RunPriced
    <3> QED
      BY <1>1, <2>0, <2>1, <3>2, <3>3
  <2>4. \A t \in some : t.cost = x.cost
    <3> TAKE t \in some
    <3>1. t \in trail' /\ t.layer = x.id
      BY <2>0
    <3>2. t \notin trail
      <4>1. t \in trail => t.layer <= lastId /\ t.layer \in Nat
        BY <1>2 DEF TallyNow, Tally, TrailFits, TrailRow
      <4> QED
        BY <1>2, <1>3, <2>1, <3>1, <4>1
    <3>3. t \in r.trail
      BY <1>1, <3>1, <3>2
    <3> QED
      BY <1>1, <2>1, <3>1, <3>3 DEF RunValue, RunPriced
  <2>5. x.received - x.qty = Quantity(some)
    <3>1. Trailed(lines', x)
      BY <1>11 DEF Trailed
    <3>2. x.received - x.qty = Lost(trail', x)
      BY <1>7, <3>1 DEF Tally, LayersTrailed
    <3> QED
      BY <2>0, <3>2 DEF Lost
  <2>6. Sold(trail', x) = x.cost * (new.qty - x.qty)
    <3>1. some \subseteq trail'
      BY <2>0
    <3>2. Worth(some) = x.cost * Quantity(some)
      BY <1>6, <2>1, <2>4, <3>1, SameCostWorth
    <3> QED
      BY <2>0, <2>2, <2>5, <3>2 DEF Sold
  <2>7. new.qty \in Nat /\ new.amount \in Int
    BY <2>2 DEF LineRow
  <2>8. x.cost * (new.qty - x.qty) + x.qty * x.cost = new.qty * x.cost /\ new.qty * x.cost \in Nat
    BY <2>1, <2>7, WholeReceipt
  <2>9. Sold(trail', x) + x.qty * x.cost = new.qty * new.rate
    BY <2>3, <2>6, <2>8
  <2>10. RateFits(new.qty, new.rate, new.amount)
    BY <1>8, <2>0, <2>1, <2>2 DEF Rated
  <2> QED
    BY <2>9, <2>10 DEF AmountFits, RateFits
<1> QED
  BY <1>10, <1>11 DEF LineFits, Spent

LEMMA LineInit ==
    ASSUME Init
    PROVE  LineHeld
  BY DEF Init, LineHeld, LineFits, Single

LEMMA LineStep ==
    ASSUME Consistent, Serial, Fresh, AllRated, TallyNow, LineHeld, [Next]_vars
    PROVE  LineHeld'
PROOF
<1>1. CASE UNCHANGED vars
  BY <1>1 DEF vars, LineHeld, LineFits, Single, Spent, Sold, AmountFits, Due, Repriceable, Posted
<1>2. ASSUME NEW p \in Procs, Session(p)
      PROVE  LineHeld'
  <2>1. ASSUME NEW l, NEW o, NEW c, Begin(p, o, l, c)
        PROVE  LineHeld'
    BY <2>1, StillSpent DEF Begin, At, tables, counters
  <2>2. CASE Rollback(p)
    BY <2>2, StillSpent DEF Rollback, tables, counters
  <2>3. CASE ReverseDocument(p)
    BY <2>3 DEF ReverseDocument, LineHeld, Due
  <2>4. CASE PostRevaluation(p)
    <3>0. SUFFICES ASSUME NEW l, l = call[p].line, NEW priced, priced = Open(seen[p].layers),
                          NEW cost, cost = lines[l].rate,
                          NEW delta, delta = SumFunction([x \in priced |-> x.qty * (cost - x.cost)])
                   PROVE  LineHeld'
      OBVIOUS
    <3>1. l \in Lines /\ lines[l].type = "revaluation" /\ lines \in Rows
      BY <2>4, <3>0, CallIs, NowLedger DEF PostRevaluation, At, Documents
    <3>2. Record(l, cost, delta)
      BY <2>4, <3>0 DEF PostRevaluation
    <3>3. lines'[l].type = "revaluation" /\ lines'[l].status = "POSTED"
      BY <3>1, <3>2 DEF Record, Rows, LineRow
    <3> QED
      BY <3>1, <3>3 DEF LineHeld, Repriceable, Posted
  <2> QED
    BY <1>2, <2>1, <2>2, <2>3, <2>4, ReceiptSpent, IssueSpent, LandedSpent DEF Session
<1>3. ASSUME NEW p \in Procs, Worker(p)
      PROVE  LineHeld'
  <2>0. call \in [Procs -> Call]
    BY DEF Consistent, CallsFit
  <2>1. CASE ClaimJob(p) \/ ReadMovements(p)
    <3>1. call'[p].op \in {"claimed", "replay"}
      BY <2>0, <2>1 DEF ClaimJob, ReadMovements, Doing
    <3> QED
      BY <3>1 DEF LineHeld, Due
  <2>2. CASE Crash(p)
    <3>1. crashes' > 0
      BY <2>2 DEF Crash, Consistent, CountersFit
    <3> QED
      BY <3>1 DEF LineHeld, Due
  <2>3. CASE CompleteJob(p)
    BY <2>3, StillSpent DEF CompleteJob, At, tables, counters
  <2>4. CASE PublishRevision(p)
    BY <2>4, StillSpent DEF PublishRevision, At, counters
  <2> QED
    BY <1>3, <2>1, <2>2, <2>3, <2>4, ReplayedSpent DEF Worker
<1> QED
  BY <1>1, <1>2, <1>3 DEF Next

LEMMA LineAccounts ==
    ASSUME Consistent, TallyNow, LineHeld
    PROVE  LineAccounted
PROOF
<1>1. SUFFICES ASSUME Settled, Posted("revaluation") = {}, NEW l \in Posted("receipt")
               PROVE  2 * Distance(lines[l].amount, SoldFrom(l) + Worth(LayersOf(layers, l))) <= lines[l].qty
  BY DEF LineAccounted
<1>2. LineFits(lines, layers, trail)
  BY <1>1, Restful DEF LineHeld, Repriceable
<1>3. l \in Lines /\ lines[l].type = "receipt" /\ lines[l].status = "POSTED"
  BY <1>1 DEF Posted
<1>4. PICK x \in layers : x.kind = "receipt" /\ x.line = l
  BY <1>3 DEF TallyNow, Tally, ReceiptsFit
<1>5. LayersOf(layers, l) = {x}
  BY <1>2, <1>4 DEF LayersOf, LineFits, Single
<1>6. AmountFits(lines[l], Sold(trail, x) + x.qty * x.cost)
  BY <1>2, <1>3, <1>4 DEF LineFits, Spent
<1>7. SoldFrom(l) = Sold(trail, x)
  <2>1. {t \in trail : \E y \in {x} : y.id = t.layer} = {t \in trail : t.layer = x.id}
    OBVIOUS
  <2> QED
    BY <1>5, <2>1 DEF SoldFrom, Sold
<1>8. Layered(layers, lastId) /\ trail \subseteq TrailRow /\ IsFiniteSet(trail) /\ lines \in Rows
  BY NowLedger
<1>9. x \in LayerRow /\ x.qty * x.cost \in Int /\ Sold(trail, x) \in Int
  BY <1>8, LayersHeld, SoldIs
<1>10. Worth({x}) = x.qty * x.cost
  <2>0. SUFFICES ASSUME NEW none, none = {} PROVE Worth({x}) = x.qty * x.cost
    OBVIOUS
  <2>1. Layered(none, 0) /\ x \notin none
    BY <2>0, FS_EmptySet DEF Layered
  <2>2. Worth(none \cup {x}) = Worth(none) + x.qty * x.cost
    BY <1>9, <2>1, AddedSums
  <2>3. none \cup {x} = {x} /\ Worth(none) = 0
    BY <2>0, NothingDrawn
  <2>4. Worth({x}) = Worth(none) + x.qty * x.cost
    BY ONLY <2>2, <2>3
  <2>5. x.qty * x.cost \in Int
    BY <1>9
  <2> QED
    BY ONLY <2>3, <2>4, <2>5
<1> DEFINE a == lines[l].amount
           c == SoldFrom(l) + Worth(LayersOf(layers, l))
<1>11. a \in Int /\ c \in Int /\ lines[l].qty \in Int
  BY <1>3, <1>5, <1>7, <1>8, <1>9, <1>10 DEF Rows, LineRow
<1>12. 2 * a - 2 * c <= lines[l].qty /\ 2 * c - 2 * a <= lines[l].qty
  BY <1>5, <1>6, <1>7, <1>10 DEF AmountFits
<1> HIDE DEF a, c
<1>13. 2 * Distance(a, c) <= lines[l].qty
  BY <1>11, <1>12 DEF Distance, Most
<1> QED
  BY <1>13 DEF a, c

(***************************************************************************)
(* One process at a time, whenever no recalculation is due and nothing is  *)
(* revalued, the amount of a receipt line is what issues took of its layer *)
(* plus what the layer still holds, within 0.00005 a unit: a landed cost   *)
(* credits no more than the layer absorbs, and a replay loses none of it.  *)
(***************************************************************************)
THEOREM LinesKept == Serial /\ Spec => []LineAccounted
PROOF
<1> DEFINE I == Consistent /\ Serial /\ Fresh /\ AllRated /\ TallyNow /\ LineHeld
<1>1. Serial /\ Init => I
  BY ConsistentInit, FreshInit, RatedInit, TallyInit, LineInit
<1>2. I /\ [Next]_vars => I'
  <2> SUFFICES ASSUME I, [Next]_vars PROVE I'
    OBVIOUS
  <2>1. Serial'
    BY DEF Serial
  <2> QED
    BY <2>1, ConsistentStep, FreshStep, RatedStep, TallyStep, LineStep
<1>3. I => LineAccounted
  BY LineAccounts
<1> HIDE DEF I
<1> QED
  BY <1>1, <1>2, <1>3, PTL DEF Spec
-----------------------------------------------------------------------------
(* The ids of the layers do not matter to a replay, only their order.      *)

Renumbered(x, d) == [id |-> x.id + d, kind |-> x.kind, line |-> x.line, at |-> x.at,
                     received |-> x.received, qty |-> x.qty, cost |-> x.cost]
Shifted(ls, d) == {Renumbered(x, d) : x \in ls}

LEMMA RenumberedIs ==
    ASSUME NEW x \in LayerRow, NEW d \in Nat, NEW y, y = Renumbered(x, d)
    PROVE  /\ y \in LayerRow /\ y.id = x.id + d /\ y.kind = x.kind /\ y.line = x.line /\ y.at = x.at
           /\ y.received = x.received /\ y.qty = x.qty /\ y.cost = x.cost
  BY DEF Renumbered, LayerRow

LEMMA SameRow ==
    ASSUME NEW x \in LayerRow, NEW y \in LayerRow, SameLayer(x, y), x.qty = y.qty, x.cost = y.cost
    PROVE  x = y
  BY DEF LayerRow, SameLayer

LEMMA RenumberedSame ==
    ASSUME NEW x \in LayerRow, NEW y \in LayerRow, NEW d \in Nat, y.id = x.id + d, y.kind = x.kind, y.line = x.line, y.at = x.at,
           y.received = x.received, y.qty = x.qty, y.cost = x.cost
    PROVE  y = Renumbered(x, d)
PROOF
<1>0. SUFFICES ASSUME NEW z, z = Renumbered(x, d) PROVE y = z
  OBVIOUS
<1>1. z \in LayerRow /\ SameLayer(y, z) /\ y.qty = z.qty /\ y.cost = z.cost
  BY <1>0, RenumberedIs DEF SameLayer
<1> QED
  BY <1>1, SameRow

\* ms is ls with other ids.
Renames(ls, ms, d) ==
    /\ d \in Nat /\ ms = Shifted(ls, d)
    /\ \E n : Layered(ls, n)
    /\ \E n : Layered(ms, n)

LEMMA RenamesIs ==
    ASSUME NEW ls, NEW ms, NEW d, Renames(ls, ms, d)
    PROVE  /\ \A x \in ls : /\ x \in LayerRow /\ Renumbered(x, d) \in ms /\ Renumbered(x, d) \in LayerRow
                            /\ Renumbered(x, d).id = x.id + d /\ Renumbered(x, d).at = x.at
                            /\ Renumbered(x, d).qty = x.qty /\ Renumbered(x, d).cost = x.cost
           /\ \A y \in ms : \E x \in ls : y = Renumbered(x, d)
           /\ \A x, y \in ls : Renumbered(x, d) = Renumbered(y, d) => x = y
PROOF
<1>1. d \in Nat /\ ms = Shifted(ls, d)
  BY DEF Renames
<1>2. PICK n : Layered(ls, n)
  BY DEF Renames
<1>3. \A x \in ls : x \in LayerRow /\ x.id \in Nat
  BY <1>2, RowIs DEF Layered
<1>4. \A x \in ls : /\ Renumbered(x, d) \in LayerRow
                    /\ Renumbered(x, d).id = x.id + d /\ Renumbered(x, d).at = x.at
                    /\ Renumbered(x, d).qty = x.qty /\ Renumbered(x, d).cost = x.cost
  BY <1>1, <1>3, RenumberedIs
<1>5. /\ \A x \in ls : Renumbered(x, d) \in ms
      /\ \A y \in ms : \E x \in ls : y = Renumbered(x, d)
  BY <1>1 DEF Shifted
<1>6. ASSUME NEW x \in ls, NEW y \in ls, Renumbered(x, d) = Renumbered(y, d)
      PROVE  x = y
  <2>1. x.id + d = y.id + d
    BY <1>4, <1>6
  <2>2. x.id \in Nat /\ y.id \in Nat
    BY <1>3
  <2>3. x.id = y.id
    BY ONLY <1>1, <2>1, <2>2
  <2> QED
    BY <1>2, <2>3 DEF Layered
<1> QED
  BY <1>3, <1>4, <1>5, <1>6

\* A part of them, renumbered, is the part of them renumbered.
LEMMA RenamesPart ==
    ASSUME NEW ls, NEW ms, NEW d, Renames(ls, ms, d), NEW some, some \subseteq ls, NEW others, others \subseteq ms,
           \A x \in ls : x \in some <=> Renumbered(x, d) \in others
    PROVE  Renames(some, others, d)
PROOF
<1>1. d \in Nat
  BY DEF Renames
<1>2. PICK n : Layered(ls, n)
  BY DEF Renames
<1>3. PICK k : Layered(ms, k)
  BY DEF Renames
<1>4. Layered(some, n) /\ Layered(others, k)
  BY <1>2, <1>3, SubLayers
<1>5. \A y \in others : \E x \in some : y = Renumbered(x, d)
  BY RenamesIs
<1>6. others = Shifted(some, d)
  BY <1>5 DEF Shifted
<1> QED
  BY <1>1, <1>4, <1>6 DEF Renames

LEMMA RenamedQuantity ==
    ASSUME NEW ls, NEW ms, NEW d, Renames(ls, ms, d)
    PROVE  Quantity(ms) = Quantity(ls)
PROOF
<1>1. PICK n : Layered(ls, n)
  BY DEF Renames
<1>2. PICK k : Layered(ms, k)
  BY DEF Renames
<1>3. ls \subseteq Holding /\ IsFiniteSet(ls) /\ ms \subseteq Holding /\ IsFiniteSet(ms)
  BY <1>1, <1>2 DEF Layered, Holding
<1> DEFINE f == [x \in ls |-> Renumbered(x, d)]
<1>4. ms = {f[x] : x \in ls}
  BY DEF Renames, Shifted
<1>5. \A x, y \in ls : f[x] = f[y] => x = y
  BY RenamesIs
<1>6. \A x \in ls : Qty[x] \in Int /\ Qty[f[x]] = Qty[x]
  <2> TAKE x \in ls
  <2>1. f[x] \in ms /\ f[x].qty = x.qty
    BY RenamesIs
  <2> HIDE DEF f
  <2> QED
    BY <1>3, <2>1, HoldingIs
<1> HIDE DEF f
<1>7. SumFunctionOnSet(Qty, {f[x] : x \in ls}) = SumFunctionOnSet(Qty, ls)
  BY <1>3, <1>5, <1>6, SumImage
<1> QED
  BY <1>3, <1>4, <1>7, QuantityIs

LEMMA RenamedOpen ==
    ASSUME NEW ls, NEW ms, NEW d, Renames(ls, ms, d)
    PROVE  Renames(Open(ls), Open(ms), d) /\ Renames(Priced(ls), Priced(ms), d)
PROOF
<1>1. /\ Open(ls) \subseteq ls /\ Open(ms) \subseteq ms /\ Priced(ls) \subseteq ls /\ Priced(ms) \subseteq ms
      /\ \A x \in ls : x \in Open(ls) <=> Renumbered(x, d) \in Open(ms)
      /\ \A x \in ls : x \in Priced(ls) <=> Renumbered(x, d) \in Priced(ms)
  BY RenamesIs DEF Open, Priced
<1> QED
  BY <1>1, RenamesPart

\* The order they are read and consumed in is the same.
LEMMA RenamedOrder ==
    ASSUME NEW ls, NEW ms, NEW d, Renames(ls, ms, d), NEW x \in ls, NEW y \in ls
    PROVE  /\ Earlier(Renumbered(x, d), Renumbered(y, d)) <=> Earlier(x, y)
           /\ Before(Renumbered(x, d), Renumbered(y, d)) <=> Before(x, y)
PROOF
<1>1. x.id \in Nat /\ y.id \in Nat /\ d \in Nat
  BY RenamesIs, RowIs DEF Renames
<1>0. SUFFICES ASSUME NEW v, v = Renumbered(x, d), NEW w, w = Renumbered(y, d)
               PROVE  (Earlier(v, w) <=> Earlier(x, y)) /\ (Before(v, w) <=> Before(x, y))
  OBVIOUS
<1>2. v.id = x.id + d /\ w.id = y.id + d /\ v.at = x.at /\ w.at = y.at
  BY <1>0, RenamesIs
<1>3. (v.id < w.id <=> x.id < y.id) /\ (w.id < v.id <=> y.id < x.id)
  BY <1>1, <1>2
<1>4. (Earlier(v, w) <=> Earlier(x, y)) /\ (Earlier(w, v) <=> Earlier(y, x))
  BY <1>2, <1>3 DEF Earlier
<1> QED
  BY <1>4 DEF Before

LEMMA RenamedTaken ==
    ASSUME NEW ls, NEW ms, NEW d, Renames(ls, ms, d), NEW x \in Open(ls), NEW q \in Nat
    PROVE  Taken(ms, Renumbered(x, d), q) = Taken(ls, x, q)
PROOF
<1>0. SUFFICES ASSUME NEW v, v = Renumbered(x, d),
                      NEW some, some = {y \in Open(ls) : Before(y, x)}, NEW others, others = {y \in Open(ms) : Before(y, v)}
               PROVE  Taken(ms, v, q) = Taken(ls, x, q)
  OBVIOUS
<1>1. Renames(Open(ls), Open(ms), d)
  BY RenamedOpen
<1>2. some \subseteq Open(ls) /\ others \subseteq Open(ms)
  BY <1>0
<1>3. \A y \in Open(ls) : y \in some <=> Renumbered(y, d) \in others
  BY <1>0, <1>1, RenamedOrder, RenamesIs
<1>4. Renames(some, others, d)
  BY <1>1, <1>2, <1>3, RenamesPart
<1>5. Quantity(others) = Quantity(some)
  BY <1>4, RenamedQuantity
<1>6. v.qty = x.qty
  BY <1>0, <1>1, RenamesIs
<1> QED
  BY <1>0, <1>5, <1>6 DEF Taken

LEMMA RenamedShortfall ==
    ASSUME NEW ls, NEW ms, NEW d, Renames(ls, ms, d), NEW q
    PROVE  Shortfall(ms, q) = Shortfall(ls, q)
  BY RenamedOpen, RenamedQuantity DEF Shortfall

LEMMA RenamedLatest ==
    ASSUME NEW ls, NEW ms, NEW d, Renames(ls, ms, d)
    PROVE  /\ ms = {} <=> ls = {}
           /\ ls # {} => Latest(ms).cost = Latest(ls).cost
PROOF
<1>1. ms = {} <=> ls = {}
  BY RenamesIs
<1>2. SUFFICES ASSUME ls # {} PROVE Latest(ms).cost = Latest(ls).cost
  BY <1>1
<1>3. PICK n : Layered(ls, n)
  BY DEF Renames
<1>4. PICK k : Layered(ms, k)
  BY DEF Renames
<1>5. Latest(ls) \in ls /\ \A y \in ls \ {Latest(ls)} : Earlier(y, Latest(ls))
  BY <1>2, <1>3, LatestIsLast
<1>6. Latest(ms) \in ms /\ \A y \in ms \ {Latest(ms)} : Earlier(y, Latest(ms))
  BY <1>1, <1>2, <1>4, LatestIsLast
<1>7. PICK z \in ls : Latest(ms) = Renumbered(z, d)
  BY <1>6, RenamesIs
<1>8. z = Latest(ls)
  <2>0. SUFFICES ASSUME NEW x, x = Latest(ls), x # z PROVE FALSE
    OBVIOUS
  <2>1. x \in ls /\ Earlier(z, x)
    BY <1>5, <2>0
  <2>2. Renumbered(x, d) # Renumbered(z, d) /\ Renumbered(x, d) \in ms
    BY <2>0, <2>1, RenamesIs
  <2>3. Earlier(Renumbered(x, d), Renumbered(z, d))
    BY <1>6, <1>7, <2>2
  <2>4. Earlier(x, z)
    BY <2>1, <2>3, RenamedOrder
  <2>5. x.id \in Nat /\ x.at \in Nat /\ z.id \in Nat /\ z.at \in Nat
    BY <2>1, RenamesIs, RowIs
  <2> QED
    BY <2>1, <2>4, <2>5 DEF Earlier
<1> QED
  BY <1>7, <1>8, RenamesIs

LEMMA RenamedPrice ==
    ASSUME NEW ls, NEW ms, NEW d, Renames(ls, ms, d), NEW h
    PROVE  ShortfallCost(ms, h) = ShortfallCost(ls, h)
PROOF
<1>0. SUFFICES ASSUME NEW a, a = Priced(Open(ls)), NEW b, b = Priced(Open(ms)),
                      NEW u, u = Priced(ls), NEW v, v = Priced(ms)
               PROVE  ShortfallCost(ms, h) = ShortfallCost(ls, h)
  OBVIOUS
<1>1. Renames(a, b, d) /\ Renames(u, v, d)
  BY <1>0, RenamedOpen
<1>2. (b = {} <=> a = {}) /\ (a # {} => Latest(b).cost = Latest(a).cost)
  BY <1>1, RenamedLatest
<1>3. (v = {} <=> u = {}) /\ (u # {} => Latest(v).cost = Latest(u).cost)
  BY <1>1, RenamedLatest
<1>4. ShortfallCost(ls, h) = IF a # {} THEN Latest(a).cost ELSE IF u # {} THEN Latest(u).cost ELSE h
  BY <1>0 DEF ShortfallCost
<1>5. ShortfallCost(ms, h) = IF b # {} THEN Latest(b).cost ELSE IF v # {} THEN Latest(v).cost ELSE h
  BY <1>0 DEF ShortfallCost
<1> QED
  BY <1>2, <1>3, <1>4, <1>5

\* ... so an issue costs the same.
LEMMA RenamedAmount ==
    ASSUME NEW ls, NEW ms, NEW d, Renames(ls, ms, d), NEW q \in Nat, NEW h
    PROVE  IssueAmount(ms, q, h) = IssueAmount(ls, q, h)
PROOF
<1>0. SUFFICES ASSUME NEW a, a = Open(ls), NEW b, b = Open(ms)
               PROVE  IssueAmount(ms, q, h) = IssueAmount(ls, q, h)
  OBVIOUS
<1>1. Renames(a, b, d)
  BY <1>0, RenamedOpen
<1> DEFINE f == [x \in a |-> Renumbered(x, d)]
           F == [x \in a |-> Taken(ls, x, q) * x.cost]
           G == [x \in b |-> Taken(ms, x, q) * x.cost]
<1>2. b = {f[x] : x \in a}
  BY <1>1 DEF Renames, Shifted
<1>3. \A x, y \in a : f[x] = f[y] => x = y
  BY <1>1, RenamesIs
<1>4. PICK n : Layered(ls, n)
  BY DEF Renames
<1>5. IsFiniteSet(a)
  BY <1>0, <1>4, OpenIs
<1>6. \A x \in a : F[x] \in Int /\ G[f[x]] = F[x]
  <2> TAKE x \in a
  <2>1. Taken(ls, x, q) \in Nat /\ x.cost \in Nat
    BY <1>0, <1>4, TakenIs, OpenIs
  <2>2. F[x] \in Int
    BY <2>1
  <2>3. Taken(ms, Renumbered(x, d), q) = Taken(ls, x, q)
    BY <1>0, RenamedTaken
  <2>4. f[x] = Renumbered(x, d) /\ Renumbered(x, d) \in b /\ Renumbered(x, d).cost = x.cost
    BY <1>1, RenamesIs
  <2>5. G[Renumbered(x, d)] = Taken(ms, Renumbered(x, d), q) * Renumbered(x, d).cost
    BY <2>4
  <2> QED
    BY <2>2, <2>3, <2>4, <2>5
<1> HIDE DEF f
<1>7. SumFunctionOnSet(G, {f[x] : x \in a}) = SumFunctionOnSet(F, a)
  <2> HIDE DEF F, G
  <2> QED
    BY <1>3, <1>5, <1>6, SumImage
<1>8. SumFunction(G) = SumFunctionOnSet(G, b) /\ SumFunction(F) = SumFunctionOnSet(F, a)
  <2>1. DOMAIN G = b /\ DOMAIN F = a
    OBVIOUS
  <2> HIDE DEF F, G
  <2> QED
    BY <2>1 DEF SumFunction
<1>9. SumFunction(G) = SumFunction(F)
  BY <1>2, <1>7, <1>8
<1>10. IssueAmount(ls, q, h) = SumFunction(F) + Shortfall(ls, q) * ShortfallCost(ls, h)
  BY <1>0 DEF IssueAmount
<1>11. IssueAmount(ms, q, h) = SumFunction(G) + Shortfall(ms, q) * ShortfallCost(ms, h)
  BY <1>0 DEF IssueAmount
<1> HIDE DEF F, G
<1> QED
  BY <1>9, <1>10, <1>11, RenamedShortfall, RenamedPrice

\* ... and leaves the same layers.
LEMMA RenamedAfter ==
    ASSUME NEW ls, NEW ms, NEW d, Renames(ls, ms, d), NEW q \in Nat
    PROVE  Renames(AfterIssue(ls, ls, q), AfterIssue(ms, ms, q), d)
PROOF
<1>1. PICK n : Layered(ls, n)
  BY DEF Renames
<1>2. PICK k : Layered(ms, k)
  BY DEF Renames
<1>3. Layered(AfterIssue(ls, ls, q), n) /\ Layered(AfterIssue(ms, ms, q), k)
  BY <1>1, <1>2, AfterIssueLayered
<1>4. ASSUME NEW y \in ls
      PROVE  Written(Renumbered(y, d), ms, q) = Renumbered(Written(y, ls, q), d)
  <2>0. SUFFICES ASSUME NEW v, v = Renumbered(y, d), NEW old, old = Written(y, ls, q), NEW new, new = Written(v, ms, q)
                 PROVE  new = Renumbered(old, d)
    OBVIOUS
  <2>1. v \in ms /\ y \in LayerRow
    BY <2>0, RenamesIs
  <2>2. d \in Nat
    BY DEF Renames
  <2>3. /\ v.id = y.id + d /\ v.kind = y.kind /\ v.line = y.line /\ v.at = y.at
        /\ v.received = y.received /\ v.qty = y.qty /\ v.cost = y.cost
    BY <2>0, <2>1, <2>2, RenumberedIs
  <2>4. old \in LayerRow /\ SameLayer(old, y) /\ old.cost = y.cost /\ old.qty = y.qty - Took(ls, y, q)
    BY <1>1, <2>0, WrittenOn
  <2>5. new \in LayerRow /\ SameLayer(new, v) /\ new.cost = v.cost /\ new.qty = v.qty - Took(ms, v, q)
    BY <1>2, <2>0, <2>1, WrittenOn
  <2>6. Took(ms, v, q) = Took(ls, y, q)
    <3>1. v \in Open(ms) <=> y \in Open(ls)
      BY <2>1, <2>3 DEF Open
    <3>2. y \in Open(ls) => Taken(ms, v, q) = Taken(ls, y, q)
      BY <2>0, RenamedTaken
    <3> QED
      BY <3>1, <3>2 DEF Took
  <2>7. /\ new.id = old.id + d /\ new.kind = old.kind /\ new.line = old.line /\ new.at = old.at
        /\ new.received = old.received /\ new.qty = old.qty /\ new.cost = old.cost
    BY <2>3, <2>4, <2>5, <2>6 DEF SameLayer
  <2> QED
    BY <2>2, <2>4, <2>5, <2>7, RenumberedSame
<1>5. AfterIssue(ls, ls, q) = {Written(y, ls, q) : y \in ls} /\ AfterIssue(ms, ms, q) = {Written(y, ms, q) : y \in ms}
  BY AfterIssueIs
<1>6. AfterIssue(ms, ms, q) = Shifted(AfterIssue(ls, ls, q), d)
  <2>1. \A v \in ms : \E y \in ls : v = Renumbered(y, d)
    BY RenamesIs
  <2>2. \A y \in ls : Renumbered(y, d) \in ms
    BY RenamesIs
  <2> QED
    BY <1>4, <1>5, <2>1, <2>2 DEF Shifted
<1> QED
  BY <1>3, <1>6 DEF Renames

\* The same layer opened in both.
LEMMA RenamedMore ==
    ASSUME NEW ls, NEW ms, NEW d \in Nat, ms = Shifted(ls, d), NEW some, NEW others, others = Shifted(some, d)
    PROVE  ms \cup others = Shifted(ls \cup some, d)
  BY DEF Shifted

LEMMA RenamedReceipt ==
    ASSUME NEW id \in Nat, NEW l \in Lines, NEW at \in Nat, NEW q \in Nat, NEW cost \in Nat, NEW d \in Nat
    PROVE  {ReceiptLayer(id + d, l, at, q, cost)} = Shifted({ReceiptLayer(id, l, at, q, cost)}, d)
  BY DEF Shifted, Renumbered, ReceiptLayer

LEMMA RenamedOpening ==
    ASSUME NEW id \in Nat, NEW d \in Nat
    PROVE  {OpeningLayer(id + d)} = Shifted({OpeningLayer(id)}, d)
  BY DEF Shifted, Renumbered, OpeningLayer

LEMMA RenamedOwed ==
    ASSUME NEW ls, NEW ms, NEW d, Renames(ls, ms, d), NEW id \in Nat, NEW l, NEW at, NEW q, NEW h
    PROVE  ShortfallLayer(id + d, ms, l, at, q, h) = Shifted(ShortfallLayer(id, ls, l, at, q, h), d)
PROOF
<1>1. Shortfall(ms, q) = Shortfall(ls, q) /\ ShortfallCost(ms, h) = ShortfallCost(ls, h)
  BY RenamedShortfall, RenamedPrice
<1>0. SUFFICES ASSUME NEW short, short = Shortfall(ls, q), NEW cost, cost = ShortfallCost(ls, h)
               PROVE  ShortfallLayer(id + d, ms, l, at, q, h) = Shifted(ShortfallLayer(id, ls, l, at, q, h), d)
  OBVIOUS
<1>2. ShortfallLayer(id + d, ms, l, at, q, h) = IF short = 0 THEN {} ELSE {Backorder(id + d, l, at, short, cost)}
  BY <1>0, <1>1 DEF ShortfallLayer
<1>3. ShortfallLayer(id, ls, l, at, q, h) = IF short = 0 THEN {} ELSE {Backorder(id, l, at, short, cost)}
  BY <1>0 DEF ShortfallLayer
<1>4. Renumbered(Backorder(id, l, at, short, cost), d) = Backorder(id + d, l, at, short, cost)
  BY DEF Renumbered, Backorder
<1> QED
  BY <1>2, <1>3, <1>4 DEF Shifted

-----------------------------------------------------------------------------
(* A replay of what a replay left.                                         *)

\* The same movements: what a replay reads of them is the same.
SameMoves(rows, again) ==
    \A l \in Lines : /\ again[l].type = rows[l].type /\ again[l].status = rows[l].status
                     /\ again[l].date = rows[l].date /\ again[l].qty = rows[l].qty
                     /\ rows[l].type = "receipt" => again[l].rate = rows[l].rate

LEMMA SameHistoric ==
    ASSUME NEW rows \in Rows, NEW again \in Rows, SameMoves(rows, again), NEW l \in Lines
    PROVE  Historic(again, again, l) = Historic(rows, rows, l)
PROOF
<1>0. SUFFICES ASSUME NEW up, up = UpTo(rows, rows[l].date)
               PROVE  Historic(again, again, l) = Historic(rows, rows, l)
  OBVIOUS
<1>1. UpTo(again, again[l].date) = up
  BY <1>0 DEF UpTo, Inward, SameMoves
<1>2. up \subseteq Lines /\ \A k \in up : rows[k].type = "receipt"
  BY <1>0 DEF UpTo, Inward
<1>3. up # {} => again[LastOf(again, up)].rate = rows[LastOf(rows, up)].rate
  <2> SUFFICES ASSUME up # {} PROVE again[LastOf(again, up)].rate = rows[LastOf(rows, up)].rate
    OBVIOUS
  <2>1. LastOf(rows, up) \in up
    BY <1>2, LastIs
  <2>2. \A k \in Lines : again[k].date = rows[k].date
    BY DEF SameMoves
  <2>3. LastOf(again, up) = LastOf(rows, up)
    BY <1>2, <2>2, LastKnown
  <2> QED
    BY <1>2, <2>1, <2>3 DEF SameMoves
<1> DEFINE a == IF up = {} THEN 0 ELSE again[LastOf(again, up)].rate
           b == IF up = {} THEN 0 ELSE rows[LastOf(rows, up)].rate
<1>4. a = b
  BY <1>3
<1>5. HistoricCost(again, up) = IF a > 0 THEN a ELSE IF opening > 0 THEN OpeningCost ELSE 0
  BY DEF HistoricCost
<1>6. HistoricCost(rows, up) = IF b > 0 THEN b ELSE IF opening > 0 THEN OpeningCost ELSE 0
  BY DEF HistoricCost
<1> HIDE DEF a, b
<1> QED
  BY <1>0, <1>1, <1>4, <1>5, <1>6 DEF Historic

\* Two replays that have posted ls: the ids differ by d, and nothing else that counts.
SameRun(ls, r, s, d) ==
    /\ Renames(r.layers, s.layers, d)
    /\ s.id = r.id + d
    /\ \A l \in ls : s.amount[l] = r.amount[l] /\ s.rate[l] = r.rate[l]

\* ... after one more movement.
SameAfter(ls, x, y, d) ==
    /\ y.layers = Shifted(x.layers, d) /\ y.id = x.id + d
    /\ \A k \in ls : y.amount[k] = x.amount[k] /\ y.rate[k] = x.rate[k]

LEMMA SameReceipt ==
    ASSUME NEW rows, ReadRows(rows), NEW again, ReadRows(again), SameMoves(rows, again), NEW ls, ls \subseteq Lines, NEW d, NEW b,
           NEW r, RunFits(rows, ls, r, b), NEW s, SameRun(ls, r, s, d), RunFits(again, ls, s, b + d),
           NEW l \in Movements(rows), l \notin ls, rows[l].type = "receipt",
           NEW x, x = Repost(rows, rows, r, l), NEW y, y = Repost(again, again, s, l)
    PROVE  SameAfter(ls \cup {l}, x, y, d)
PROOF
<1>0. SUFFICES ASSUME NEW m, m = rows[l], NEW e, e = again[l]
               PROVE  /\ y.layers = Shifted(x.layers, d) /\ y.id = x.id + d
                      /\ \A k \in ls \cup {l} : y.amount[k] = x.amount[k] /\ y.rate[k] = x.rate[k]
  BY DEF SameAfter
<1>1. l \in Lines /\ m.date \in Nat /\ m.qty \in Nat /\ m.rate \in Nat /\ m.type = "receipt"
  BY <1>0, MovementIs
<1>2. e.type = "receipt" /\ e.date = m.date /\ e.qty = m.qty /\ e.rate = m.rate
  BY <1>0, <1>1 DEF SameMoves
<1>3. /\ x.layers = r.layers \cup {ReceiptLayer(r.id, l, m.date, m.qty, m.rate)}
      /\ x.id = r.id + 1 /\ x.trail = r.trail
      /\ x.rate = [r.rate EXCEPT ![l] = m.rate] /\ x.amount = [r.amount EXCEPT ![l] = m.qty * m.rate]
  <2>1. m = rows[l] /\ m.type = "receipt" /\ x = Repost(rows, rows, r, l)
    BY <1>0, <1>1
  <2> QED
    BY ONLY <2>1 DEF Repost
<1>4. /\ y.layers = s.layers \cup {ReceiptLayer(s.id, l, m.date, m.qty, m.rate)}
      /\ y.id = s.id + 1 /\ y.trail = s.trail
      /\ y.rate = [s.rate EXCEPT ![l] = m.rate] /\ y.amount = [s.amount EXCEPT ![l] = m.qty * m.rate]
  <2>1. e = again[l] /\ e.type = "receipt" /\ y = Repost(again, again, s, l)
    BY <1>0, <1>2
  <2> QED
    BY ONLY <1>2, <2>1 DEF Repost
<1>5. r.id \in Nat /\ d \in Nat /\ s.id = r.id + d /\ s.layers = Shifted(r.layers, d)
  BY DEF RunFits, SameRun, Renames
<1>6. {ReceiptLayer(s.id, l, m.date, m.qty, m.rate)} = Shifted({ReceiptLayer(r.id, l, m.date, m.qty, m.rate)}, d)
  BY <1>1, <1>5, RenamedReceipt
<1>7. y.layers = Shifted(x.layers, d)
  BY <1>3, <1>4, <1>5, <1>6, RenamedMore
<1>8. y.id = x.id + d
  BY <1>3, <1>4, <1>5
<1>9. /\ r.rate \in [Lines -> Nat] /\ r.amount \in [Lines -> Int]
      /\ s.rate \in [Lines -> Nat] /\ s.amount \in [Lines -> Int]
  BY DEF RunFits
<1> QED
  BY <1>1, <1>3, <1>4, <1>7, <1>8, <1>9 DEF SameRun

LEMMA SameIssue ==
    ASSUME NEW rows, ReadRows(rows), NEW again, ReadRows(again), SameMoves(rows, again), NEW ls, ls \subseteq Lines, NEW d, NEW b,
           NEW r, RunFits(rows, ls, r, b), NEW s, SameRun(ls, r, s, d), RunFits(again, ls, s, b + d),
           NEW l \in Movements(rows), l \notin ls, rows[l].type = "issue",
           NEW x, x = Repost(rows, rows, r, l), NEW y, y = Repost(again, again, s, l)
    PROVE  SameAfter(ls \cup {l}, x, y, d)
PROOF
<1>0. SUFFICES ASSUME NEW m, m = rows[l], NEW e, e = again[l], NEW h, h = Historic(rows, rows, l),
                      NEW a, a = IssueAmount(r.layers, m.qty, h)
               PROVE  /\ y.layers = Shifted(x.layers, d) /\ y.id = x.id + d
                      /\ \A k \in ls \cup {l} : y.amount[k] = x.amount[k] /\ y.rate[k] = x.rate[k]
  BY DEF SameAfter
<1>1. l \in Lines /\ m.date \in Nat /\ m.qty \in Nat /\ m.type = "issue" /\ rows \in Rows /\ again \in Rows
  BY <1>0, MovementIs DEF ReadRows
<1>2. e.type = "issue" /\ e.date = m.date /\ e.qty = m.qty
  BY <1>0, <1>1 DEF SameMoves
<1>3. Historic(again, again, l) = h
  BY <1>0, <1>1, SameHistoric
<1>4. Renames(r.layers, s.layers, d) /\ r.id \in Nat /\ d \in Nat /\ s.id = r.id + d
  BY DEF RunFits, SameRun, Renames
<1>5. IssueAmount(s.layers, m.qty, h) = a
  BY <1>0, <1>1, <1>4, RenamedAmount
<1>6. /\ x.layers = AfterIssue(r.layers, r.layers, m.qty) \cup ShortfallLayer(r.id, r.layers, l, m.date, m.qty, h)
      /\ x.id = r.id + 1 /\ x.trail = r.trail \cup Consumptions(r.layers, l, m.qty)
      /\ x.rate = [r.rate EXCEPT ![l] = Rounded(a, m.qty)] /\ x.amount = [r.amount EXCEPT ![l] = a]
  <2>1. m = rows[l] /\ m.type = "issue" /\ x = Repost(rows, rows, r, l)
        /\ h = Historic(rows, rows, l) /\ a = IssueAmount(r.layers, m.qty, h)
    BY <1>0, <1>1
  <2> QED
    BY ONLY <2>1 DEF Repost, Historic
<1>7. /\ y.layers = AfterIssue(s.layers, s.layers, m.qty) \cup ShortfallLayer(s.id, s.layers, l, m.date, m.qty, h)
      /\ y.id = s.id + 1 /\ y.trail = s.trail \cup Consumptions(s.layers, l, m.qty)
      /\ y.rate = [s.rate EXCEPT ![l] = Rounded(a, m.qty)] /\ y.amount = [s.amount EXCEPT ![l] = a]
  <2>1. e = again[l] /\ e.type = "issue" /\ y = Repost(again, again, s, l)
        /\ h = Historic(again, again, l) /\ a = IssueAmount(s.layers, e.qty, h)
    BY <1>0, <1>2, <1>3, <1>5
  <2> QED
    BY ONLY <1>2, <2>1 DEF Repost, Historic
<1>8. y.layers = Shifted(x.layers, d)
  <2>1. AfterIssue(s.layers, s.layers, m.qty) = Shifted(AfterIssue(r.layers, r.layers, m.qty), d)
    BY <1>1, <1>4, RenamedAfter DEF Renames
  <2>2. ShortfallLayer(s.id, s.layers, l, m.date, m.qty, h) = Shifted(ShortfallLayer(r.id, r.layers, l, m.date, m.qty, h), d)
    BY <1>4, RenamedOwed
  <2> QED
    BY <1>4, <1>6, <1>7, <2>1, <2>2, RenamedMore
<1>9. y.id = x.id + d
  BY <1>4, <1>6, <1>7
<1>10. /\ r.rate \in [Lines -> Nat] /\ r.amount \in [Lines -> Int]
       /\ s.rate \in [Lines -> Nat] /\ s.amount \in [Lines -> Int]
  BY DEF RunFits
<1>11. \A k \in ls : s.amount[k] = r.amount[k] /\ s.rate[k] = r.rate[k]
  BY DEF SameRun
<1>12. \A k \in ls \cup {l} : y.amount[k] = x.amount[k] /\ y.rate[k] = x.rate[k]
  BY <1>1, <1>6, <1>7, <1>10, <1>11
<1> QED
  BY <1>8, <1>9, <1>12

LEMMA SameStep ==
    ASSUME NEW rows, ReadRows(rows), NEW again, ReadRows(again), SameMoves(rows, again), NEW ls, ls \subseteq Lines, NEW d, NEW b,
           NEW r, RunFits(rows, ls, r, b), NEW s, SameRun(ls, r, s, d), RunFits(again, ls, s, b + d),
           NEW l \in Movements(rows), l \notin ls,
           NEW x, x = Repost(rows, rows, r, l), RunFits(rows, ls \cup {l}, x, b),
           NEW y, y = Repost(again, again, s, l), RunFits(again, ls \cup {l}, y, b + d)
    PROVE  SameRun(ls \cup {l}, x, y, d)
PROOF
<1>1. SameAfter(ls \cup {l}, x, y, d)
  <2>1. rows[l].type = "receipt" \/ rows[l].type = "issue"
    BY MovementIs
  <2>2. CASE rows[l].type = "receipt"
    BY <2>2, SameReceipt
  <2>3. CASE rows[l].type = "issue"
    BY <2>3, SameIssue
  <2> QED
    BY <2>1, <2>2, <2>3
<1>2. Layered(x.layers, x.id - 1) /\ Layered(y.layers, y.id - 1)
  BY DEF RunFits
<1>3. d \in Nat
  BY DEF SameRun, Renames
<1> QED
  BY <1>1, <1>2, <1>3 DEF SameAfter, SameRun, Renames

LEMMA SameStart ==
    ASSUME NEW rows, ReadRows(rows), NEW again, ReadRows(again), opening \in Openings, NEW b \in Nat \ {0}, NEW d \in Nat
    PROVE  SameRun({}, Emptied(rows, b), Emptied(again, b + d), d)
PROOF
<1>0. SUFFICES ASSUME NEW r, r = Emptied(rows, b), NEW s, s = Emptied(again, b + d)
               PROVE  SameRun({}, r, s, d)
  OBVIOUS
<1>1. b + d \in Nat \ {0}
  OBVIOUS
<1>2. RunFits(rows, {}, r, b) /\ RunFits(again, {}, s, b + d)
  BY <1>0, <1>1, EmptiedFits
<1>3. Layered(r.layers, r.id - 1) /\ Layered(s.layers, s.id - 1)
  BY <1>2 DEF RunFits
<1>4. /\ r.layers = IF opening > 0 THEN {OpeningLayer(b)} ELSE {}
      /\ s.layers = IF opening > 0 THEN {OpeningLayer(b + d)} ELSE {}
      /\ r.id = b + 1 /\ s.id = b + d + 1
  BY <1>0 DEF Emptied
<1>5. {OpeningLayer(b + d)} = Shifted({OpeningLayer(b)}, d) /\ {} = Shifted({}, d)
  BY RenamedOpening DEF Shifted
<1>6. s.layers = Shifted(r.layers, d) /\ s.id = r.id + d
  BY <1>4, <1>5
<1> QED
  BY <1>3, <1>6 DEF SameRun, Renames

\* Whatever the ids start from, the same movements cost the same.
LEMMA SameReplay ==
    ASSUME NEW rows, ReadRows(rows), NEW again, ReadRows(again), SameMoves(rows, again), opening \in Openings,
           NEW b \in Nat \ {0}, NEW d \in Nat
    PROVE  \A ls \in SUBSET Movements(rows) : SameRun(ls, ReplayOf(rows, rows, b)[ls], ReplayOf(again, again, b + d)[ls], d)
PROOF
<1> DEFINE f(ls) == ReplayOf(rows, rows, b)[ls]
           g(ls) == ReplayOf(again, again, b + d)[ls]
           M == Movements(rows)
           T == {ls \in SUBSET M : ~SameRun(ls, f(ls), g(ls), d)}
<1>1. SUFFICES ASSUME T # {} PROVE FALSE
  OBVIOUS
<1>2. M \subseteq Lines /\ M = Movements(again) /\ rows \in Rows /\ again \in Rows /\ \A l \in Lines : again[l].date = rows[l].date
  BY DEF Movements, SameMoves, ReadRows
<1>3. PICK V \in T : \A W \in T : W \subseteq V => W = V
  <2>1. T \subseteq SUBSET M /\ IsFiniteSet(M)
    BY <1>2, LinesAssumption, FS_Subset
  <2> HIDE DEF T, M
  <2> QED
    BY <1>1, <2>1, SmallestMember
<1>4. V \subseteq M /\ ~SameRun(V, f(V), g(V), d)
  BY <1>3
<1>5. f(V) = IF V = {} THEN Emptied(rows, b) ELSE Step(rows, rows, f(Rest(rows, V)), V)
  BY <1>2, <1>4, ReplayUnfolds
<1>6. g(V) = IF V = {} THEN Emptied(again, b + d) ELSE Step(again, again, g(Rest(again, V)), V)
  BY <1>2, <1>4, ReplayUnfolds
<1>7. V # {}
  BY <1>4, <1>5, <1>6, SameStart
<1> DEFINE U == Rest(rows, V)
           l == LastOf(rows, V)
<1>8. l \in V /\ l \in M /\ U \subseteq V /\ U # V /\ l \notin U /\ V = U \cup {l}
  BY <1>2, <1>4, <1>7, LastIs DEF Rest
<1>9. LastOf(again, V) = l /\ Rest(again, V) = U
  BY <1>2, <1>4, <1>7, LastKnown DEF Rest
<1>10. SameRun(U, f(U), g(U), d)
  BY <1>3, <1>4, <1>8
<1>11. f(V) = Repost(rows, rows, f(U), l) /\ g(V) = Repost(again, again, g(U), l)
  BY <1>5, <1>6, <1>7, <1>9 DEF Step
<1>12. b + d \in Nat \ {0} /\ U \subseteq M /\ U \subseteq Lines
  BY <1>2, <1>4, <1>8
<1>13. RunFits(rows, U, f(U), b) /\ RunFits(rows, V, f(V), b)
  BY <1>2, <1>4, <1>12, ReplayRuns
<1>14. RunFits(again, U, g(U), b + d) /\ RunFits(again, V, g(V), b + d)
  BY <1>2, <1>4, <1>12, ReplayRuns
<1> HIDE DEF f, g, l, U, T
<1>15. SameRun(U \cup {l}, f(V), g(V), d)
  BY <1>8, <1>10, <1>11, <1>12, <1>13, <1>14, SameStep
<1> QED
  BY <1>4, <1>8, <1>15

LEMMA NothingToRevise ==
    ASSUME Consistent, Fresh, NEW p \in Procs, Replay(p)
    PROVE  Revised(lines', Replayed(lines', lines', lastId')) = {}
PROOF
<1>0. SUFFICES ASSUME NEW b, b = lastId + 1, NEW r, r = Replayed(lines, lines, b), NEW again, again = lines', NEW c, c = lastId',
                      NEW s, s = Replayed(again, again, c), NEW moved, moved = Movements(lines)
               PROVE  Revised(again, s) = {}
  OBVIOUS
<1>1. seen[p].lines = lines
  BY DEF Fresh, Replay, At
<1>2. ReadRows(lines) /\ lines \in Rows /\ opening \in Openings /\ lastId \in Nat
  BY NowLedger
<1>3. b \in Nat \ {0}
  BY <1>0, <1>2
<1>4. RunFits(lines, moved, r, b) /\ RunValue(lines, moved, r)
  BY <1>0, <1>2, <1>3, ReplayFits, ReplayValue
<1>5. /\ c = r.id
      /\ again = [l \in Lines |-> IF l \in Revised(lines, r) THEN Revise(lines[l], r.rate[l], r.amount[l]) ELSE lines[l]]
  BY <1>0, <1>1 DEF Replay
<1>6. ReadRows(again)
  BY <1>0, ReplayTables DEF TablesFit
<1>7. moved \subseteq Lines /\ r.rate \in [Lines -> Nat] /\ r.amount \in [Lines -> Int] /\ r.id \in Nat /\ b < r.id
  BY <1>0, <1>4 DEF RunFits, Movements
<1>8. ASSUME NEW l \in Lines
      PROVE  /\ again[l].type = lines[l].type /\ again[l].status = lines[l].status
             /\ again[l].date = lines[l].date /\ again[l].qty = lines[l].qty
             /\ l \notin moved => again[l] = lines[l]
             /\ l \in moved => again[l].rate = r.rate[l] /\ ~(Distance(again[l].amount, r.amount[l]) > AmountTolerance)
  <2>1. CASE l \in Revised(lines, r)
    <3>0. SUFFICES ASSUME NEW old, old = lines[l], NEW rate, rate = r.rate[l], NEW amount, amount = r.amount[l],
                          NEW new, new = again[l]
                   PROVE  /\ new.type = old.type /\ new.status = old.status /\ new.date = old.date /\ new.qty = old.qty
                          /\ new.rate = rate /\ ~(Distance(new.amount, amount) > AmountTolerance)
      BY <1>0, <2>1 DEF Revised
    <3>1. old \in LineRow /\ amount \in Int
      BY <1>2, <1>7, <3>0 DEF Rows
    <3>2. new = [old EXCEPT !.rate = rate, !.amount = amount]
      BY <1>5, <2>1, <3>0 DEF Revise
    <3>3. /\ new.type = old.type /\ new.status = old.status /\ new.date = old.date /\ new.qty = old.qty
          /\ new.rate = rate /\ new.amount = amount
      BY ONLY <3>1, <3>2 DEF LineRow
    <3>4. ~(Distance(new.amount, amount) > AmountTolerance)
      BY <3>1, <3>3 DEF Distance, Most, AmountTolerance
    <3> QED
      BY <3>3, <3>4
  <2>2. CASE l \notin Revised(lines, r)
    <3>1. again[l] = lines[l]
      BY <1>5, <2>2
    <3>2. l \in moved => r.rate[l] = lines[l].rate /\ ~(Distance(lines[l].amount, r.amount[l]) > AmountTolerance)
      BY <1>0, <2>2 DEF Revised
    <3> QED
      BY <3>1, <3>2
  <2> QED
    BY <2>1, <2>2
<1>9. SameMoves(lines, again)
  <2>1. ASSUME NEW l \in Lines, lines[l].type = "receipt"
        PROVE  again[l].rate = lines[l].rate
    <3>1. l \in moved => r.rate[l] = lines[l].rate
      BY <1>4, <2>1 DEF RunValue, RunRated
    <3> QED
      BY <1>8, <3>1
  <2> QED
    BY <1>8, <2>1 DEF SameMoves
<1>10. Movements(again) = moved
  BY <1>0, <1>8 DEF Movements
<1>11. SameRun(moved, r, s, c - b)
  <2>0. SUFFICES ASSUME NEW d, d = c - b PROVE SameRun(moved, r, s, d)
    OBVIOUS
  <2>1. d \in Nat /\ b + d = c
    BY <1>3, <1>5, <1>7, <2>0
  <2>2. r = ReplayOf(lines, lines, b)[moved] /\ s = ReplayOf(again, again, b + d)[moved]
    BY <1>0, <1>10, <2>1 DEF Replayed
  <2>3. \A ls \in SUBSET Movements(lines) : SameRun(ls, ReplayOf(lines, lines, b)[ls], ReplayOf(again, again, b + d)[ls], d)
    BY <1>2, <1>3, <1>6, <1>9, <2>1, SameReplay
  <2> QED
    BY <1>0, <2>2, <2>3
<1>12. \A l \in moved : s.amount[l] = r.amount[l] /\ s.rate[l] = r.rate[l]
  BY <1>11 DEF SameRun
<1> QED
  BY <1>7, <1>8, <1>10, <1>12 DEF Revised

(***************************************************************************)
(* One process at a time, a recalculation run again straight away revises  *)
(* nothing: it reads the same movements, the rates of receipts are the     *)
(* ones they had, and layers differ by their ids only.                     *)
(***************************************************************************)
THEOREM Stable == Serial /\ Spec => ReplayStable
PROOF
<1> DEFINE I == Consistent /\ Serial /\ Fresh
           Again == \A p \in Procs : Replay(p) => Revised(lines', Replayed(lines', lines', lastId')) = {}
<1>1. Serial /\ Init => I
  BY ConsistentInit, FreshInit
<1>2. I /\ [Next]_vars => I'
  <2> SUFFICES ASSUME I, [Next]_vars PROVE I'
    OBVIOUS
  <2>1. Serial'
    BY DEF Serial
  <2> QED
    BY <2>1, ConsistentStep, FreshStep
<1>3. I => Again
  BY NothingToRevise
<1> HIDE DEF I, Again
<1>4. I /\ [Next]_vars => [Again]_vars
  BY <1>3
<1>5. Serial /\ Spec => [][Again]_vars
  BY <1>1, <1>2, <1>4, PTL DEF Spec
<1> QED
  BY <1>5 DEF ReplayStable, Again
=============================================================================
