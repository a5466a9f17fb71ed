---------------------------- MODULE PackingLists ----------------------------
(***************************************************************************)
(* Packing lists (PackingService) and the sales that consume them.         *)
(*                                                                         *)
(* Posting a PACKING document sets its goods aside in the bucket `packed`  *)
(* and opens the list.  A list is locked while a sale is being keyed,      *)
(* consumed by the sale that issues it, reopened when that sale is         *)
(* reversed, or unpacked.                                                  *)
(*                                                                         *)
(* Each request reads the documents and the list, decides, and commits     *)
(* later.  Only two things stop a stale decision: the compare-and-swap of  *)
(* markConsumed() and the unique index on the movements of a sale.  The    *)
(* other handlers write over whatever is there by then; lost counts the    *)
(* times one of them wrote to a list whose goods had moved since it read.  *)
(*                                                                         *)
(* Every list packs one unit of one item, so the bucket is shared by all.  *)
(* A sale moves its stock on invoice (Books clamps sales to that).         *)
(***************************************************************************)
EXTENDS Integers, FiniteSets

CONSTANTS
    Lists,      \* PACKING documents
    Sales,      \* SALES_ISSUE documents that name a list
    Names,      \* and the list each names (metadata.linked_source_document_id)
    Refs,       \* Books drafts that may lock a list
    Procs,      \* requests running at once
    MaxLost,    \* bound on lost, for TLC
    None

ASSUME NamesAssumption == Names \in [Sales -> Lists]
ASSUME DocumentsAssumption == Lists \cap Sales = {} /\ IsFiniteSet(Lists)
ASSUME HoldersAssumption == Refs \cap Sales = {} /\ None \notin Refs \cup Sales
ASSUME MaxLostAssumption == MaxLost \in Nat

VARIABLES
    status,     \* inv_documents.status
    packing,    \* inv_packing_meta.packing_status, "none" before there is a row
    holder,     \* locked_by_external_ref or locked_by_document_id of that row
    packed,     \* packed_qty of the item
    journal,    \* what the status movements of a document did to packed_qty
    call,       \* what each request is doing
    seen,       \* and what it read of its list and of the bucket
    lost        \* ghost: writes to a list whose goods had moved unseen

rows == <<status, packing, holder, packed, journal>>
vars == <<status, packing, holder, packed, journal, call, seen, lost>>

Documents == Lists \cup Sales
PackingStatus == {"none", "open", "locked", "consumed", "unpacked"}
Holder == Refs \cup Sales \cup {None}
Row == [status : {"DRAFT", "POSTED", "REVERSED"}, packing : PackingStatus, ample : BOOLEAN]

\* An operation and the document it is called on; a lock has the Books draft that
\* holds it, or None for a document's lock and for a forced unlock.
Call == [op : {"pack", "unpack", "unwind"}, on : Lists, by : {None}]
    \cup [op : {"lock", "unlock"}, on : Lists, by : Refs \cup {None}]
    \cup [op : {"sell", "return"}, on : Sales, by : {None}]
Idle == [op |-> "idle", on |-> None, by |-> None]

(***************************************************************************)
(* Columns and locals have their types, and a consumed list names a sale.  *)
(***************************************************************************)
TypeOK ==
    /\ status \in [Documents -> {"DRAFT", "POSTED", "REVERSED"}]
    /\ packing \in [Lists -> PackingStatus]
    /\ holder \in [Lists -> Holder]
    /\ packed \in Int
    /\ journal \in [Documents -> Int]
    /\ call \in [Procs -> Call \cup {Idle}]
    /\ seen \in [Procs -> Row]
    /\ lost \in 0..MaxLost
    /\ \A l \in Lists : packing[l] = "consumed" => holder[l] \in Sales

Blank == [status |-> "DRAFT", packing |-> "none", ample |-> FALSE]

Init ==
    /\ status = [d \in Documents |-> "DRAFT"]
    /\ packing = [l \in Lists |-> "none"]
    /\ holder = [l \in Lists |-> None]
    /\ packed = 0
    /\ journal = [d \in Documents |-> 0]
    /\ call = [p \in Procs |-> Idle]
    /\ seen = [p \in Procs |-> Blank]
    /\ lost = 0

-----------------------------------------------------------------------------
(* The list a call is about.                                               *)
ListOf(d) == IF d \in Sales THEN Names[d] ELSE d

\* assertReversible().
AnyList(l) == TRUE
Reversible(l) == packing[l] # "consumed"

\* What each handler checks of what it reads: postedWithMeta() and the status
\* after it, consumptionRefusal() for a sale, the document's own status for post()
\* and reverse().  Only its holder takes a lock off, unless forced or unnamed.
Accepts(c, l) ==
    LET posted == status[l] = "POSTED" IN
    \/ c.op = "pack" /\ status[l] = "DRAFT"
    \/ c.op \in {"unpack", "lock"} /\ posted /\ packing[l] = "open"
    \/ /\ c.op = "unlock" /\ posted /\ packing[l] = "locked"
       /\ c.by = None \/ holder[l] \notin Refs \/ holder[l] = c.by
    \/ c.op = "unwind" /\ posted /\ Reversible(l)
    \/ /\ c.op = "sell" /\ status[c.on] = "DRAFT" /\ posted
       /\ packing[l] \in {"open", "locked", "unpacked"}
    \/ c.op = "return" /\ status[c.on] = "POSTED"

\* A request reads and checks.  (One that is refused here has changed nothing.)
Read(p, c) ==
    LET l == ListOf(c.on) IN
    /\ call[p] = Idle
    /\ Accepts(c, l)
    /\ call' = [call EXCEPT ![p] = c]
    /\ seen' = [seen EXCEPT ![p] = [status |-> status[l], packing |-> packing[l],
                                    ample |-> c.op \in {"unpack", "sell"} /\ packed >= 1]]
    /\ UNCHANGED <<rows, lost>>

Doing(p, o) == call[p] # Idle /\ call[p].op = o

Finish(p) ==
    /\ call' = [call EXCEPT ![p] = Idle]
    /\ seen' = [seen EXCEPT ![p] = Blank]

\* A check refuses, an index does, or the transaction rolls back.
Refuse(p) ==
    /\ call[p] # Idle
    /\ Finish(p)
    /\ UNCHANGED <<rows, lost>>

\* A write of this request to list l loses an update when the goods are not where
\* the request saw them; a lock taken or released meanwhile does not move them.
Writes(asSeen) == lost' = (IF asSeen THEN lost ELSE lost + 1) /\ lost' <= MaxLost
InBucket == {"open", "locked"}
Decided(p, l) ==
    Writes(/\ status[l] = seen[p].status
           /\ packing[l] = seen[p].packing \/ {packing[l], seen[p].packing} \subseteq InBucket)

\* apply() of a movement out of the bucket: its check and its delta are two
\* statements, and the check may have read the bucket before other commits.
Drains(p) == seen[p].ample \/ packed >= 1

\* post() of a PACKING document and applyPacking(): an existing row keeps its holder.
PostPacking(p) ==
    LET l == call[p].on IN
    /\ Doing(p, "pack")
    /\ status' = [status EXCEPT ![l] = "POSTED"]
    /\ packing' = [packing EXCEPT ![l] = "open"]
    /\ packed' = packed + 1
    /\ journal' = [journal EXCEPT ![l] = @ + 1]
    /\ Decided(p, l)
    /\ Finish(p)
    /\ UNCHANGED holder

Unpack(p) ==
    LET l == call[p].on IN
    /\ Doing(p, "unpack")
    /\ Drains(p)
    /\ packing' = [packing EXCEPT ![l] = "unpacked"]
    /\ holder' = [holder EXCEPT ![l] = None]
    /\ packed' = packed - 1
    /\ journal' = [journal EXCEPT ![l] = @ - 1]
    /\ Decided(p, l)
    /\ Finish(p)
    /\ UNCHANGED status

\* A list locked by the same holder is left as it is (Refuse changes nothing either).
Lock(p) ==
    LET l == call[p].on IN
    /\ Doing(p, "lock")
    /\ packing' = [packing EXCEPT ![l] = "locked"]
    /\ holder' = [holder EXCEPT ![l] = call[p].by]
    /\ Decided(p, l)
    /\ Finish(p)
    /\ UNCHANGED <<status, packed, journal>>

\* A lock is taken off by its holder, without a reference, or by force.
Unlock(p) ==
    LET l == call[p].on IN
    /\ Doing(p, "unlock")
    /\ packing' = [packing EXCEPT ![l] = "open"]
    /\ holder' = [holder EXCEPT ![l] = None]
    /\ Decided(p, l)
    /\ Finish(p)
    /\ UNCHANGED <<status, packed, journal>>

\* markConsumed(): the rows its UPDATE finds, and the consumer it writes.
AnyStatus(l) == TRUE
Claimable(l) == packing[l] \in InBucket
LockHolder(l, s) == holder[l]
Consumer(l, s) == s

\* post() of a sale.  The index lets a sale be posted once.  A list that was
\* unpacked before is left alone; one consumed by another sale refuses.
PostSale(p) ==
    LET s == call[p].on
        l == Names[s]
    IN
    /\ Doing(p, "sell")
    /\ status[s] = "DRAFT"
    /\ status' = [status EXCEPT ![s] = "POSTED"]
    /\ \/ /\ seen[p].packing = "unpacked"
          /\ UNCHANGED <<packing, holder, packed, journal, lost>>
       \/ /\ seen[p].packing # "unpacked"
          /\ Drains(p)
          /\ Claimable(l)
          /\ packing' = [packing EXCEPT ![l] = "consumed"]
          /\ holder' = [holder EXCEPT ![l] = Consumer(l, s)]
          /\ packed' = packed - 1
          /\ journal' = [journal EXCEPT ![s] = @ - 1]
          /\ Writes(status[l] = "POSTED")
    /\ Finish(p)

\* releaseConsumedBy().
NothingReopened(s) == {}
Reopened(s) == {l \in Lists : packing[l] = "consumed" /\ holder[l] = s}

\* reverse() of a sale: the index lets it be reversed once.
ReverseSale(p) ==
    LET s == call[p].on IN
    /\ Doing(p, "return")
    /\ status[s] = "POSTED"
    /\ status' = [status EXCEPT ![s] = "REVERSED"]
    /\ packed' = packed - journal[s]
    /\ packing' = [l \in Lists |-> IF l \in Reopened(s) THEN "open" ELSE packing[l]]
    /\ holder' = [l \in Lists |-> IF l \in Reopened(s) THEN None ELSE holder[l]]
    /\ Finish(p)
    /\ UNCHANGED <<journal, lost>>

\* reverse() of a PACKING document: its movements are undone, the list row stays.
ReversePacking(p) ==
    LET l == call[p].on IN
    /\ Doing(p, "unwind")
    /\ status' = [status EXCEPT ![l] = "REVERSED"]
    /\ packed' = packed - journal[l]
    /\ Decided(p, l)
    /\ Finish(p)
    /\ UNCHANGED <<packing, holder, journal>>

Commit(p) ==
    \/ PostPacking(p) \/ Unpack(p) \/ Lock(p) \/ Unlock(p)
    \/ PostSale(p) \/ ReverseSale(p) \/ ReversePacking(p)

Next == \E p \in Procs : (\E c \in Call : Read(p, c)) \/ Refuse(p) \/ Commit(p)

Spec == Init /\ [][Next]_vars

-----------------------------------------------------------------------------
(* Safety.                                                                 *)

Held == {l \in Lists : status[l] = "POSTED" /\ packing[l] \in InBucket}

(***************************************************************************)
(* The bucket holds the goods of the lists that are open or locked: never  *)
(* negative, nothing stranded in it.  Any number of sales may be posted and *)
(* reversed against the same lists at once; only an unguarded write to a    *)
(* list whose goods have moved can break it.                               *)
(***************************************************************************)
PackedIsHeld == lost = 0 => packed = Cardinality(Held)

\* The posted sales that issued the goods of l.
Issued(l) == {s \in Sales : Names[s] = l /\ status[s] = "POSTED" /\ journal[s] # 0}

(***************************************************************************)
(* "no second sale may name it again": the goods of a list are issued to   *)
(* one sale at a time.                                                     *)
(***************************************************************************)
IssuedOnce == \A l \in Lists : \A s, t \in Issued(l) : s = t

(***************************************************************************)
(* The same, as long as no unguarded write was lost: two sales posting at  *)
(* once cannot both have the list, however they interleave.                *)
(***************************************************************************)
SalesIssueOnce == lost = 0 => IssuedOnce

-----------------------------------------------------------------------------
(* Packing lists keep the promise of Consignments.                         *)

Goods(l) ==
    IF l \in Held THEN "packed"
    ELSE IF status[l] = "POSTED" /\ packing[l] = "consumed" THEN "sold" ELSE "shelf"
GoodsMap == [l \in Lists |-> Goods(l)]
BuyerMap == [l \in Lists |-> IF Goods(l) = "sold" THEN holder[l] ELSE None]

Abstract == INSTANCE Consignments
    WITH Nobody <- None, goods <- GoodsMap, buyer <- BuyerMap, intact <- (lost = 0)

(***************************************************************************)
(* Every step of the handlers is a step of Consignments, until an update   *)
(* is lost.                                                                *)
(***************************************************************************)
KeepsConsignments == Abstract!Spec
=============================================================================
