------------------------- MODULE PackingListsProofs -------------------------
(***************************************************************************)
(* What PackingLists keeps for every number of lists, sales and requests.  *)
(***************************************************************************)
EXTENDS PackingLists, FiniteSetTheorems, TLAPS

-----------------------------------------------------------------------------
(* The inductive invariant, in named parts.                                *)

\* What a request that goes on has read.
ReadFits(p) ==
    LET o == call[p].op
        row == seen[p]
    IN
    /\ o = "pack" => row.status = "DRAFT"
    /\ o \in {"unpack", "lock", "unlock", "unwind", "sell"} => row.status = "POSTED"
    /\ o \in {"unpack", "lock"} => row.packing = "open"
    /\ o = "unlock" => row.packing = "locked"
    /\ o = "unwind" => row.packing # "consumed"

\* A list that is not posted is not consumed; one that is has its goods in the
\* bucket once, unless it put them back.
ListFits(l) ==
    /\ status[l] = "DRAFT" => packing[l] = "none" /\ journal[l] = 0
    /\ status[l] = "POSTED" =>
          /\ packing[l] # "none"
          /\ journal[l] = IF packing[l] = "unpacked" THEN 0 ELSE 1
    /\ status[l] = "REVERSED" => packing[l] # "consumed"

\* A consumed list names a posted sale that took its goods out of the bucket.
ConsumerFits(l) ==
    packing[l] = "consumed" =>
        /\ holder[l] \in Sales
        /\ status[holder[l]] = "POSTED"
        /\ Names[holder[l]] = l
        /\ journal[holder[l]] = -1

\* A posted sale that took goods is the consumer of its list.
SaleFits(s) ==
    /\ status[s] = "DRAFT" => journal[s] = 0
    /\ status[s] = "POSTED" /\ journal[s] # 0 =>
          packing[Names[s]] = "consumed" /\ holder[Names[s]] = s

Sound ==
    /\ \A l \in Lists : ListFits(l) /\ ConsumerFits(l)
    /\ \A s \in Sales : SaleFits(s)
    /\ packed = Cardinality(Held)

IInv ==
    /\ TypeOK
    /\ \A p \in Procs : call[p] # Idle => ReadFits(p)
    /\ lost = 0 => Sound

-----------------------------------------------------------------------------
(* The bucket and the lists held in it.                                    *)

\* Cardinality(Held) when a list joins or leaves.
LEMMA HeldIsFinite ==
    /\ IsFiniteSet(Held)
    /\ \A l \in Lists \ Held : Cardinality(Held \cup {l}) = Cardinality(Held) + 1
    /\ \A l \in Held : Cardinality(Held \ {l}) = Cardinality(Held) - 1
    /\ Cardinality(Held) \in Int
PROOF
<1>1. Held \subseteq Lists
  BY DEF Held
<1>2. IsFiniteSet(Held)
  BY <1>1, DocumentsAssumption, FS_Subset
<1>3. Cardinality(Held) \in Nat
  BY <1>2, FS_CardinalityType
<1>4. ASSUME NEW l \in Lists \ Held
      PROVE  Cardinality(Held \cup {l}) = Cardinality(Held) + 1
  BY <1>2, <1>4, FS_AddElement
<1>5. ASSUME NEW l \in Held
      PROVE  Cardinality(Held \ {l}) = Cardinality(Held) - 1
  BY <1>2, <1>5, FS_RemoveElement
<1> QED
  BY <1>2, <1>3, <1>4, <1>5

\* A write that loses no update found the goods where the request saw them.
LEMMA NothingLost ==
    ASSUME TypeOK, NEW p, NEW l, Decided(p, l), lost' = 0
    PROVE  /\ lost = 0
           /\ status[l] = seen[p].status
           /\ packing[l] = seen[p].packing
              \/ (packing[l] \in InBucket /\ seen[p].packing \in InBucket)
PROOF
  BY MaxLostAssumption DEF TypeOK, Decided, Writes, InBucket

-----------------------------------------------------------------------------
(* Types.                                                                  *)

LEMMA InitTypeOK == Init => TypeOK
PROOF
  BY HoldersAssumption, MaxLostAssumption
  DEF Init, TypeOK, Documents, PackingStatus, Holder, Row, Call, Idle, Blank

LEMMA StepTypeOK == TypeOK /\ [Next]_vars => TypeOK'
PROOF
<1> SUFFICES ASSUME TypeOK, [Next]_vars
             PROVE  TypeOK'
  OBVIOUS
<1> USE DEF Documents, PackingStatus, Holder
<1>1. Idle \notin Call
  BY DEF Idle, Call
<1>2. Blank \in Row
  BY DEF Blank, Row
<1>3. ASSUME NEW p \in Procs, NEW c \in Call, Read(p, c)
      PROVE  TypeOK'
  <2>1. ListOf(c.on) \in Lists
    BY NamesAssumption, DocumentsAssumption DEF ListOf, Call
  <2>2. seen' \in [Procs -> Row]
    BY <1>3, <2>1 DEF Read, TypeOK, Row
  <2> QED
    BY <1>3, <2>2 DEF Read, TypeOK, rows
<1>4. ASSUME NEW p \in Procs, Refuse(p)
      PROVE  TypeOK'
  BY <1>2, <1>4 DEF Refuse, Finish, TypeOK, rows
<1>5. ASSUME NEW p \in Procs, Finish(p)
      PROVE  call' \in [Procs -> Call \cup {Idle}] /\ seen' \in [Procs -> Row]
  BY <1>2, <1>5 DEF Finish, TypeOK
<1>6. ASSUME NEW p \in Procs, NEW o \in {"pack", "unpack", "lock", "unlock", "unwind"}, Doing(p, o)
      PROVE  call[p].on \in Lists /\ call[p].by \in Refs \cup {None}
  BY <1>6 DEF Doing, TypeOK, Call
<1>7. ASSUME NEW p \in Procs, NEW o \in {"sell", "return"}, Doing(p, o)
      PROVE  call[p].on \in Sales /\ Names[call[p].on] \in Lists
  BY <1>7, NamesAssumption DEF Doing, TypeOK, Call
<1>9. ASSUME NEW p \in Procs, NEW l \in Lists, Decided(p, l)
      PROVE  lost' \in 0..MaxLost
  BY <1>9, MaxLostAssumption DEF Decided, Writes, TypeOK
<1>10. CASE UNCHANGED vars
  BY <1>10 DEF vars, TypeOK
<1>11. ASSUME NEW p \in Procs, PostPacking(p)
       PROVE  TypeOK'
  BY <1>11, <1>5, <1>6, <1>9 DEF PostPacking, TypeOK
<1>12. ASSUME NEW p \in Procs, Unpack(p)
       PROVE  TypeOK'
  BY <1>12, <1>5, <1>6, <1>9 DEF Unpack, TypeOK
<1>13. ASSUME NEW p \in Procs, Lock(p)
       PROVE  TypeOK'
  BY <1>13, <1>5, <1>6, <1>9 DEF Lock, TypeOK
<1>14. ASSUME NEW p \in Procs, Unlock(p)
       PROVE  TypeOK'
  BY <1>14, <1>5, <1>6, <1>9 DEF Unlock, TypeOK
<1>15. ASSUME NEW p \in Procs, PostSale(p)
       PROVE  TypeOK'
  <2> DEFINE s == call[p].on
             l == Names[s]
  <2>1. s \in Sales /\ l \in Lists
    BY <1>15, <1>7 DEF PostSale
  <2>2. call' \in [Procs -> Call \cup {Idle}] /\ seen' \in [Procs -> Row]
    BY <1>15, <1>5 DEF PostSale
  <2>3. lost' \in 0..MaxLost
    <3>1. CASE UNCHANGED lost
      BY <3>1 DEF TypeOK
    <3>2. CASE Writes(status[l] = "POSTED")
      BY <3>2, MaxLostAssumption DEF Writes, TypeOK
    <3> QED
      BY <1>15, <3>1, <3>2 DEF PostSale
  <2>4. status' \in [Documents -> {"DRAFT", "POSTED", "REVERSED"}]
    BY <1>15, <2>1 DEF PostSale, TypeOK
  <2>5. CASE seen[p].packing = "unpacked"
    BY <1>15, <2>2, <2>3, <2>4, <2>5 DEF PostSale, TypeOK
  <2>6. CASE seen[p].packing # "unpacked"
    <3>1. packing' = [packing EXCEPT ![l] = "consumed"] /\ holder' = [holder EXCEPT ![l] = s]
      BY <1>15, <2>6 DEF PostSale, Consumer
    <3>2. packed' = packed - 1 /\ journal' = [journal EXCEPT ![s] = @ - 1]
      BY <1>15, <2>6 DEF PostSale
    <3> HIDE DEF s, l
    <3> QED
      BY <2>1, <2>2, <2>3, <2>4, <3>1, <3>2 DEF TypeOK
  <2> QED
    BY <2>5, <2>6
<1>16. ASSUME NEW p \in Procs, ReverseSale(p)
       PROVE  TypeOK'
  BY <1>16, <1>5, <1>7 DEF ReverseSale, Reopened, TypeOK
<1>17. ASSUME NEW p \in Procs, ReversePacking(p)
       PROVE  TypeOK'
  BY <1>17, <1>5, <1>6, <1>9 DEF ReversePacking, TypeOK
<1> QED
  BY <1>3, <1>4, <1>10, <1>11, <1>12, <1>13, <1>14, <1>15, <1>16, <1>17 DEF Next, Commit

(***************************************************************************)
(* The columns keep their types, and a consumed list names a sale, for any *)
(* number of lists, sales and requests.                                    *)
(***************************************************************************)
THEOREM TypeCorrect == Spec => []TypeOK
PROOF
<1>1. Init => TypeOK
  BY InitTypeOK
<1>2. TypeOK /\ [Next]_vars => TypeOK'
  BY StepTypeOK
<1> QED
  BY <1>1, <1>2, PTL DEF Spec

-----------------------------------------------------------------------------
(* Every action keeps the books of the bucket, as long as nothing is lost. *)

\* Which document a request is on, by its operation.
LEMMA CallOn ==
    ASSUME TypeOK, NEW p \in Procs, NEW o, Doing(p, o)
    PROVE  /\ o \in {"pack", "unpack", "lock", "unlock", "unwind"} => call[p].on \in Lists
           /\ o \in {"sell", "return"} => call[p].on \in Sales /\ Names[call[p].on] \in Lists
PROOF
  BY NamesAssumption DEF Doing, TypeOK, Call

LEMMA PostPackingSound ==
    ASSUME IInv, NEW p \in Procs, PostPacking(p), lost' = 0
    PROVE  Sound'
PROOF
<1> DEFINE l == call[p].on
<1>1. l \in Lists /\ Sound /\ status[l] = "DRAFT"
  BY CallOn, NothingLost DEF PostPacking, IInv, ReadFits, Doing
<1>2. packing[l] = "none" /\ journal[l] = 0
  BY <1>1 DEF Sound, ListFits
<1>3. /\ status' = [status EXCEPT ![l] = "POSTED"]
      /\ packing' = [packing EXCEPT ![l] = "open"]
      /\ journal' = [journal EXCEPT ![l] = @ + 1]
      /\ packed' = packed + 1
      /\ holder' = holder
  BY DEF PostPacking
<1>4. l \notin Held /\ Held' = Held \cup {l}
  BY <1>1, <1>2, <1>3 DEF Held, IInv, TypeOK, InBucket, Documents
<1>5. packed' = Cardinality(Held)'
  BY <1>1, <1>3, <1>4, HeldIsFinite DEF Sound
<1> HIDE DEF l
<1>6. \A k \in Lists : ListFits(k)'
  BY <1>1, <1>2, <1>3 DEF Sound, ListFits, IInv, TypeOK, Documents
<1>7. \A k \in Lists : ConsumerFits(k)'
  BY <1>1, <1>2, <1>3, DocumentsAssumption DEF Sound, ConsumerFits, IInv, TypeOK, Documents
<1>8. \A s \in Sales : SaleFits(s)'
  BY <1>1, <1>2, <1>3, DocumentsAssumption, NamesAssumption DEF Sound, SaleFits, IInv, TypeOK, Documents
<1> QED
  BY <1>5, <1>6, <1>7, <1>8 DEF Sound

LEMMA UnpackSound ==
    ASSUME IInv, NEW p \in Procs, Unpack(p), lost' = 0
    PROVE  Sound'
PROOF
<1> DEFINE l == call[p].on
<1>1. l \in Lists /\ Sound /\ status[l] = "POSTED" /\ packing[l] \in InBucket
  BY CallOn, NothingLost DEF Unpack, IInv, ReadFits, Doing, InBucket
<1>2. journal[l] = 1
  BY <1>1 DEF Sound, ListFits, InBucket
<1>3. /\ packing' = [packing EXCEPT ![l] = "unpacked"]
      /\ holder' = [holder EXCEPT ![l] = None]
      /\ packed' = packed - 1
      /\ journal' = [journal EXCEPT ![l] = @ - 1]
      /\ status' = status
  BY DEF Unpack
<1>4. l \in Held /\ Held' = Held \ {l}
  BY <1>1, <1>3 DEF Held, IInv, TypeOK, InBucket
<1>5. packed' = Cardinality(Held)'
  BY <1>1, <1>3, <1>4, HeldIsFinite DEF Sound
<1> HIDE DEF l
<1>6. \A k \in Lists : ListFits(k)'
  BY <1>1, <1>2, <1>3 DEF Sound, ListFits, IInv, TypeOK, Documents
<1>7. \A k \in Lists : ConsumerFits(k)'
  BY <1>1, <1>3, DocumentsAssumption DEF Sound, ConsumerFits, IInv, TypeOK, Documents
<1>8. \A s \in Sales : SaleFits(s)'
  BY <1>1, <1>3, DocumentsAssumption, NamesAssumption DEF Sound, SaleFits, IInv, TypeOK, Documents, InBucket
<1> QED
  BY <1>5, <1>6, <1>7, <1>8 DEF Sound

\* A lock moves no goods: the list stays in the bucket, under another holder.
LEMMA LockSound ==
    ASSUME IInv, NEW p \in Procs, Lock(p) \/ Unlock(p), lost' = 0
    PROVE  Sound'
PROOF
<1> DEFINE l == call[p].on
<1>1. l \in Lists /\ Sound /\ status[l] = "POSTED" /\ packing[l] \in InBucket
  BY CallOn, NothingLost DEF Lock, Unlock, IInv, ReadFits, Doing, InBucket
<1>2. PICK st \in InBucket, h \in Refs \cup {None} :
        packing' = [packing EXCEPT ![l] = st] /\ holder' = [holder EXCEPT ![l] = h]
  <2>1. CASE Lock(p)
    <3>1. call[p].by \in Refs \cup {None}
      BY <2>1 DEF Lock, Doing, IInv, TypeOK, Call
    <3> QED
      BY <2>1, <3>1 DEF Lock, InBucket
  <2>2. CASE Unlock(p)
    BY <2>2 DEF Unlock, InBucket
  <2> QED
    BY <2>1, <2>2
<1>3. UNCHANGED <<status, packed, journal>>
  BY DEF Lock, Unlock
<1>4. Held' = Held
  BY <1>1, <1>2, <1>3 DEF Held, IInv, TypeOK
<1> HIDE DEF l
<1>5. \A k \in Lists : ListFits(k)'
  BY <1>1, <1>2, <1>3 DEF Sound, ListFits, IInv, TypeOK, InBucket
<1>6. \A k \in Lists : ConsumerFits(k)'
  BY <1>1, <1>2, <1>3 DEF Sound, ConsumerFits, IInv, TypeOK, InBucket
<1>7. \A s \in Sales : SaleFits(s)'
  BY <1>1, <1>2, <1>3, NamesAssumption DEF Sound, SaleFits, IInv, TypeOK, InBucket
<1> QED
  BY <1>1, <1>3, <1>4, <1>5, <1>6, <1>7 DEF Sound

LEMMA PostSaleSound ==
    ASSUME IInv, NEW p \in Procs, PostSale(p), lost' = 0
    PROVE  Sound'
PROOF
<1> DEFINE s == call[p].on
           l == Names[s]
<1>1. s \in Sales /\ l \in Lists /\ lost = 0
  BY CallOn, MaxLostAssumption DEF PostSale, Writes, IInv, TypeOK
<1>2. Sound /\ status[s] = "DRAFT" /\ journal[s] = 0
  BY <1>1 DEF IInv, Sound, SaleFits, PostSale
<1>3. status' = [status EXCEPT ![s] = "POSTED"]
  BY DEF PostSale
<1>4. \A k \in Lists : packing[k] = "consumed" => holder[k] # s
  BY <1>2 DEF Sound, ConsumerFits
<1>5. CASE seen[p].packing = "unpacked"
  <2>1. UNCHANGED <<packing, holder, packed, journal>>
    BY <1>5 DEF PostSale
  <2> HIDE DEF s, l
  <2>2. Held' = Held
    BY <1>1, <1>3, <2>1, DocumentsAssumption DEF Held, IInv, TypeOK, Documents
  <2>3. \A k \in Lists : ListFits(k)' /\ ConsumerFits(k)'
    BY <1>1, <1>2, <1>3, <1>4, <2>1, DocumentsAssumption
    DEF Sound, ListFits, ConsumerFits, IInv, TypeOK, Documents
  <2>4. \A t \in Sales : SaleFits(t)'
    BY <1>1, <1>2, <1>3, <2>1 DEF Sound, SaleFits, IInv, TypeOK, Documents
  <2> QED
    BY <1>2, <2>1, <2>2, <2>3, <2>4 DEF Sound
<1>6. CASE seen[p].packing # "unpacked"
  <2>1. /\ packing' = [packing EXCEPT ![l] = "consumed"]
        /\ holder' = [holder EXCEPT ![l] = s]
        /\ packed' = packed - 1
        /\ journal' = [journal EXCEPT ![s] = @ - 1]
        /\ packing[l] \in InBucket
        /\ Writes(status[l] = "POSTED")
    BY <1>6 DEF PostSale, Claimable, Consumer
  <2>2. status[l] = "POSTED"
    BY <1>1, <2>1 DEF Writes
  <2>3. journal[l] = 1
    BY <1>1, <1>2, <2>1, <2>2 DEF Sound, ListFits, InBucket
  <2> HIDE DEF s
  <2>4. l \in Held /\ Held' = Held \ {l}
    BY <1>1, <1>3, <2>1, <2>2, DocumentsAssumption DEF Held, IInv, TypeOK, Documents, InBucket
  <2>5. packed' = Cardinality(Held)'
    BY <1>2, <2>1, <2>4, HeldIsFinite DEF Sound
  <2>6. \A k \in Lists : ListFits(k)'
    BY <1>1, <1>2, <1>3, <2>1, <2>2, <2>3, DocumentsAssumption
    DEF Sound, ListFits, IInv, TypeOK, Documents
  <2>7. \A k \in Lists : ConsumerFits(k)'
    BY <1>1, <1>2, <1>3, <1>4, <2>1, DocumentsAssumption
    DEF Sound, ConsumerFits, IInv, TypeOK, Documents
  <2>8. ASSUME NEW t \in Sales
        PROVE  SaleFits(t)'
    BY <1>1, <1>2, <1>3, <2>1, NamesAssumption
    DEF Sound, SaleFits, IInv, TypeOK, Documents, InBucket
  <2> QED
    BY <2>5, <2>6, <2>7, <2>8 DEF Sound
<1> QED
  BY <1>5, <1>6

LEMMA ReverseSaleSound ==
    ASSUME IInv, NEW p \in Procs, ReverseSale(p), lost' = 0
    PROVE  Sound'
PROOF
<1> DEFINE s == call[p].on
           l == Names[s]
<1>1. s \in Sales /\ l \in Lists /\ lost = 0 /\ Sound
  BY CallOn DEF ReverseSale, IInv
<1>2. /\ status[s] = "POSTED"
      /\ status' = [status EXCEPT ![s] = "REVERSED"]
      /\ packed' = packed - journal[s]
      /\ packing' = [k \in Lists |-> IF k \in Reopened(s) THEN "open" ELSE packing[k]]
      /\ holder' = [k \in Lists |-> IF k \in Reopened(s) THEN None ELSE holder[k]]
      /\ journal' = journal
  BY DEF ReverseSale
<1>3. \A k \in Reopened(s) : k = l
  BY <1>1 DEF Reopened, Sound, ConsumerFits
<1> HIDE DEF s
<1>4. packed' = Cardinality(Held)'
  <2>1. CASE l \in Reopened(s)
    <3>1. packing[l] = "consumed" /\ status[l] = "POSTED" /\ journal[s] = -1
      BY <1>1, <2>1 DEF Reopened, Sound, ListFits, ConsumerFits, IInv, TypeOK, Documents
    <3>2. l \notin Held /\ Held' = Held \cup {l}
      BY <1>1, <1>2, <1>3, <2>1, <3>1, DocumentsAssumption DEF Held, IInv, TypeOK, Documents, InBucket
    <3> QED
      BY <1>1, <1>2, <3>1, <3>2, HeldIsFinite DEF Sound
  <2>2. CASE l \notin Reopened(s)
    <3>1. journal[s] = 0
      BY <1>1, <1>2, <2>2 DEF Reopened, Sound, SaleFits
    <3>2. Held' = Held
      BY <1>1, <1>2, <1>3, <2>2, DocumentsAssumption DEF Held, IInv, TypeOK, Documents
    <3> QED
      BY <1>1, <1>2, <3>1, <3>2 DEF Sound, IInv, TypeOK
  <2> QED
    BY <2>1, <2>2
<1>5. ASSUME NEW k \in Lists
      PROVE  ListFits(k)'
  <2>1. status'[k] = status[k] /\ journal'[k] = journal[k]
    BY <1>1, <1>2, DocumentsAssumption DEF IInv, TypeOK, Documents
  <2>2. CASE k \in Reopened(s)
    <3>1. packing[k] = "consumed" /\ packing'[k] = "open"
      BY <1>2, <2>2 DEF Reopened
    <3> QED
      BY <1>1, <2>1, <3>1 DEF Sound, ListFits
  <2>3. CASE k \notin Reopened(s)
    BY <1>1, <1>2, <2>1, <2>3 DEF Sound, ListFits
  <2> QED
    BY <2>2, <2>3
<1>6. \A k \in Lists : ConsumerFits(k)'
  BY <1>1, <1>2, <1>3 DEF Sound, ConsumerFits, Reopened, IInv, TypeOK, Documents
<1>7. \A t \in Sales : SaleFits(t)'
  BY <1>1, <1>2, <1>3, NamesAssumption DEF Sound, SaleFits, Reopened, IInv, TypeOK, Documents
<1> QED
  BY <1>4, <1>5, <1>6, <1>7 DEF Sound

LEMMA ReversePackingSound ==
    ASSUME IInv, NEW p \in Procs, ReversePacking(p), lost' = 0
    PROVE  Sound'
PROOF
<1> DEFINE l == call[p].on
<1>1. l \in Lists /\ Sound /\ status[l] = "POSTED" /\ packing[l] # "consumed"
  BY CallOn, NothingLost DEF ReversePacking, IInv, ReadFits, Doing, InBucket
<1>2. /\ status' = [status EXCEPT ![l] = "REVERSED"]
      /\ packed' = packed - journal[l]
      /\ UNCHANGED <<packing, holder, journal>>
  BY DEF ReversePacking
<1> HIDE DEF l
<1>3. packed' = Cardinality(Held)'
  <2>1. CASE packing[l] = "unpacked"
    <3>1. journal[l] = 0
      BY <1>1, <2>1 DEF Sound, ListFits
    <3>2. Held' = Held
      BY <1>1, <1>2, <2>1 DEF Held, InBucket, IInv, TypeOK, Documents
    <3> QED
      BY <1>1, <1>2, <3>1, <3>2 DEF Sound, IInv, TypeOK
  <2>2. CASE packing[l] # "unpacked"
    <3>1. journal[l] = 1 /\ packing[l] \in InBucket
      BY <1>1, <2>2 DEF Sound, ListFits, IInv, TypeOK, PackingStatus, InBucket
    <3>2. l \in Held /\ Held' = Held \ {l}
      BY <1>1, <1>2, <3>1 DEF Held, IInv, TypeOK, Documents
    <3> QED
      BY <1>1, <1>2, <3>1, <3>2, HeldIsFinite DEF Sound
  <2> QED
    BY <2>1, <2>2
<1>4. \A k \in Lists : ListFits(k)' /\ ConsumerFits(k)'
  BY <1>1, <1>2, DocumentsAssumption DEF Sound, ListFits, ConsumerFits, IInv, TypeOK, Documents
<1>5. \A s \in Sales : SaleFits(s)'
  BY <1>1, <1>2, DocumentsAssumption DEF Sound, SaleFits, IInv, TypeOK, Documents
<1> QED
  BY <1>3, <1>4, <1>5 DEF Sound

\* A step that writes no row keeps the books.
LEMMA IdleSound ==
    ASSUME IInv, UNCHANGED <<rows, lost>>, lost' = 0
    PROVE  Sound'
PROOF
  BY DEF IInv, rows, Sound, ListFits, ConsumerFits, SaleFits, Held

LEMMA CommitSound ==
    ASSUME IInv, NEW p \in Procs, Commit(p), lost' = 0
    PROVE  Sound'
PROOF
  BY PostPackingSound, UnpackSound, LockSound, PostSaleSound, ReverseSaleSound,
     ReversePackingSound DEF Commit

\* A request that goes on has checked what it read.
LEMMA StepReadFits ==
    ASSUME IInv, [Next]_vars, NEW q \in Procs, call'[q] # Idle
    PROVE  ReadFits(q)'
PROOF
<1>1. ASSUME NEW p \in Procs, NEW c \in Call, Read(p, c)
      PROVE  ReadFits(q)'
  <2>1. CASE q = p
    <3>1. call'[q] = c /\ seen'[q].status = status[ListOf(c.on)]
          /\ seen'[q].packing = packing[ListOf(c.on)] /\ Accepts(c, ListOf(c.on))
      BY <1>1, <2>1 DEF Read, IInv, TypeOK
    <3> QED
      BY <3>1 DEF ReadFits, Accepts, Reversible
  <2>2. CASE q # p
    <3>1. call'[q] = call[q] /\ seen'[q] = seen[q]
      BY <1>1, <2>2 DEF Read, IInv, TypeOK
    <3> QED
      BY <3>1 DEF IInv, ReadFits
  <2> QED
    BY <2>1, <2>2
<1>2. ASSUME NEW p \in Procs, Finish(p)
      PROVE  ReadFits(q)'
  <2>1. q # p /\ call'[q] = call[q] /\ seen'[q] = seen[q]
    BY <1>2 DEF Finish, IInv, TypeOK
  <2> QED
    BY <2>1 DEF IInv, ReadFits
<1>3. ASSUME NEW p \in Procs, Refuse(p) \/ Commit(p)
      PROVE  Finish(p)
  BY <1>3 DEF Refuse, Commit, PostPacking, Unpack, Lock, Unlock, PostSale, ReverseSale, ReversePacking
<1>4. CASE UNCHANGED vars
  BY <1>4 DEF vars, IInv, ReadFits
<1> QED
  BY <1>1, <1>2, <1>3, <1>4 DEF Next

-----------------------------------------------------------------------------
(* The theorems.                                                           *)

LEMMA InitIInv == Init => IInv
PROOF
<1> SUFFICES ASSUME Init
             PROVE  IInv
  OBVIOUS
<1>1. Held = {}
  BY DEF Init, Held, Documents
<1>2. Cardinality(Held) = 0
  BY <1>1, FS_EmptySet
<1> QED
  BY <1>2, InitTypeOK, DocumentsAssumption
  DEF Init, IInv, Sound, ListFits, ConsumerFits, SaleFits, Documents

LEMMA StepIInv == IInv /\ [Next]_vars => IInv'
PROOF
<1> SUFFICES ASSUME IInv, [Next]_vars
             PROVE  IInv'
  OBVIOUS
<1>1. TypeOK'
  BY StepTypeOK DEF IInv
<1>2. \A q \in Procs : (call[q] # Idle => ReadFits(q))'
  BY StepReadFits
<1>3. ASSUME lost' = 0
      PROVE  Sound'
  <2>1. CASE UNCHANGED vars
    BY <1>3, <2>1, IdleSound DEF vars, rows
  <2>2. ASSUME NEW p \in Procs, (\E c \in Call : Read(p, c)) \/ Refuse(p)
        PROVE  Sound'
    BY <1>3, <2>2, IdleSound DEF Read, Refuse
  <2> QED
    BY <1>3, <2>1, <2>2, CommitSound DEF Next
<1> QED
  BY <1>1, <1>2, <1>3 DEF IInv

(***************************************************************************)
(* The inductive invariant holds in every reachable state.                 *)
(***************************************************************************)
THEOREM Invariant == Spec => []IInv
PROOF
<1>1. Init => IInv
  BY InitIInv
<1>2. IInv /\ [Next]_vars => IInv'
  BY StepIInv
<1> QED
  BY <1>1, <1>2, PTL DEF Spec

(***************************************************************************)
(* Until an unguarded write is lost, the bucket holds exactly the goods of *)
(* the lists that are open or locked, for any number of lists, sales and   *)
(* requests: consuming and reversing sales never strand or drain goods.    *)
(***************************************************************************)
THEOREM BucketMatches == Spec => []PackedIsHeld
PROOF
<1>1. IInv => PackedIsHeld
  BY DEF IInv, Sound, PackedIsHeld
<1> QED
  BY <1>1, Invariant, PTL

(***************************************************************************)
(* Until then no two posted sales have issued the same list.               *)
(***************************************************************************)
THEOREM IssuesOnce == Spec => []SalesIssueOnce
PROOF
<1>1. ASSUME IInv
      PROVE  SalesIssueOnce
  <2> SUFFICES ASSUME lost = 0, NEW l \in Lists, NEW s \in Issued(l), NEW t \in Issued(l)
               PROVE  s = t
    BY DEF SalesIssueOnce, IssuedOnce
  <2>1. holder[l] = s /\ holder[l] = t
    BY <1>1 DEF IInv, Sound, SaleFits, Issued
  <2> QED
    BY <2>1
<1> QED
  BY <1>1, Invariant, PTL

-----------------------------------------------------------------------------
(* Refinement.                                                             *)

\* What a step does to where the goods of a list are.
LEMMA GoodsOf ==
    ASSUME NEW l \in Lists
    PROVE  /\ status[l] = "POSTED" /\ packing[l] \in InBucket => Goods(l) = "packed"
           /\ status[l] = "POSTED" /\ packing[l] = "consumed" => Goods(l) = "sold"
           /\ status[l] # "POSTED" \/ packing[l] \in {"none", "unpacked"} => Goods(l) = "shelf"
PROOF
  BY DEF Goods, Held, InBucket

LEMMA GoodsStay ==
    ASSUME NEW l \in Lists, status'[l] = status[l], packing'[l] = packing[l]
    PROVE  Goods(l)' = Goods(l)
PROOF
  BY DEF Goods, Held

\* A step that changes where one list is, and no holder of another, is a move.
LEMMA MovesOne ==
    ASSUME NEW l \in Lists, NEW from, NEW to, NEW s,
           Goods(l) = from, Goods(l)' = to,
           (to = "sold" /\ s = holder'[l]) \/ (to # "sold" /\ s = None),
           \A k \in Lists \ {l} : Goods(k)' = Goods(k) /\ holder'[k] = holder[k]
    PROVE  Abstract!Move(l, from, to, s)
PROOF
<1>1. GoodsMap[l] = from
  BY DEF GoodsMap
<1>2. GoodsMap' = [GoodsMap EXCEPT ![l] = to]
  BY DEF GoodsMap
<1>3. BuyerMap' = [BuyerMap EXCEPT ![l] = s]
  BY DEF BuyerMap
<1> QED
  BY <1>1, <1>2, <1>3 DEF Abstract!Move

\* A step of PackingLists that loses nothing moves one list as Consignments
\* allows, or none.
LEMMA CommitRefines ==
    ASSUME IInv, NEW p \in Procs, Commit(p), lost' = 0
    PROVE  \/ UNCHANGED <<GoodsMap, BuyerMap>>
           \/ \E l \in Lists : \/ Abstract!SetAside(l)
                               \/ Abstract!PutBack(l)
                               \/ Abstract!TakeBack(l)
                               \/ \E s \in Sales : Abstract!Sell(l, s)
PROOF
<1>0. PICK d : d = call[p].on
  OBVIOUS
<1>1. CASE PostPacking(p)
  <2>1. d \in Lists /\ Sound /\ status[d] = "DRAFT" /\ packing[d] = "none"
    BY <1>0, <1>1, CallOn, NothingLost DEF PostPacking, IInv, ReadFits, Doing, Sound, ListFits
  <2>2. /\ status' = [status EXCEPT ![d] = "POSTED"]
        /\ packing' = [packing EXCEPT ![d] = "open"]
        /\ holder' = holder
    BY <1>0, <1>1 DEF PostPacking
  <2>3. Abstract!SetAside(d)
    <3>1. Goods(d) = "shelf"
      BY <2>1, <2>2, GoodsOf DEF InBucket, IInv, TypeOK, Documents
    <3>2. Goods(d)' = "packed"
      BY <2>1, <2>2 DEF Goods, Held, InBucket, IInv, TypeOK, Documents
    <3>3. ASSUME NEW k \in Lists \ {d}
          PROVE  Goods(k)' = Goods(k) /\ holder'[k] = holder[k]
      <4>1. status'[k] = status[k] /\ packing'[k] = packing[k] /\ holder'[k] = holder[k]
        BY <2>1, <2>2 DEF InBucket, IInv, TypeOK, Documents
      <4> QED
        BY <4>1, GoodsStay
    <3>4. Abstract!Move(d, "shelf", "packed", None)
      BY <2>1, <3>1, <3>2, <3>3, MovesOne
    <3> QED
      BY <3>4 DEF Abstract!SetAside
  <2> QED
    BY <2>1, <2>3
<1>2. CASE Unpack(p)
  <2>1. d \in Lists /\ status[d] = "POSTED" /\ packing[d] \in InBucket
    BY <1>0, <1>2, CallOn, NothingLost DEF Unpack, IInv, ReadFits, Doing, InBucket
  <2>2. /\ packing' = [packing EXCEPT ![d] = "unpacked"]
        /\ holder' = [holder EXCEPT ![d] = None]
        /\ status' = status
    BY <1>0, <1>2 DEF Unpack
  <2>3. Abstract!PutBack(d)
    <3>1. Goods(d) = "packed"
      BY <2>1, <2>2, GoodsOf DEF InBucket, IInv, TypeOK
    <3>2. Goods(d)' = "shelf"
      BY <2>1, <2>2 DEF Goods, Held, InBucket, IInv, TypeOK
    <3>3. ASSUME NEW k \in Lists \ {d}
          PROVE  Goods(k)' = Goods(k) /\ holder'[k] = holder[k]
      <4>1. status'[k] = status[k] /\ packing'[k] = packing[k] /\ holder'[k] = holder[k]
        BY <2>1, <2>2 DEF InBucket, IInv, TypeOK
      <4> QED
        BY <4>1, GoodsStay
    <3>4. Abstract!Move(d, "packed", "shelf", None)
      BY <2>1, <3>1, <3>2, <3>3, MovesOne
    <3> QED
      BY <3>4 DEF Abstract!PutBack
  <2> QED
    BY <2>1, <2>3
<1>3. CASE Lock(p) \/ Unlock(p)
  <2>1. d \in Lists /\ status[d] = "POSTED" /\ packing[d] \in InBucket
    BY <1>0, <1>3, CallOn, NothingLost DEF Lock, Unlock, IInv, ReadFits, Doing, InBucket
  <2>2. PICK st \in InBucket, h \in Holder :
          packing' = [packing EXCEPT ![d] = st] /\ holder' = [holder EXCEPT ![d] = h]
    <3>1. call[p].by \in Holder
      BY <1>0, <1>3 DEF Lock, Unlock, Doing, IInv, TypeOK, Call, Holder
    <3> QED
      BY <1>0, <1>3, <3>1 DEF Lock, Unlock, Holder, InBucket
  <2>3. status' = status
    BY <1>0, <1>3 DEF Lock, Unlock
  <2>4. UNCHANGED <<GoodsMap, BuyerMap>>
    BY <2>1, <2>2, <2>3 DEF GoodsMap, BuyerMap, Goods, Held, InBucket, IInv, TypeOK
  <2> QED
    BY <2>4
<1>4. CASE PostSale(p)
  <2> DEFINE l == Names[d]
  <2>1. d \in Sales /\ l \in Lists /\ lost = 0
    BY <1>0, <1>4, CallOn, MaxLostAssumption DEF PostSale, Writes, IInv, TypeOK
  <2>2. Sound /\ status[d] = "DRAFT" /\ status' = [status EXCEPT ![d] = "POSTED"]
    BY <1>0, <1>4, <2>1 DEF PostSale, IInv
  <2>3. CASE seen[p].packing = "unpacked"
    <3>1. packing' = packing /\ holder' = holder
      BY <1>0, <1>4, <2>3 DEF PostSale
    <3>2. UNCHANGED <<GoodsMap, BuyerMap>>
      BY <2>1, <2>2, <3>1, DocumentsAssumption DEF GoodsMap, BuyerMap, Goods, Held, InBucket, IInv, TypeOK, Documents
    <3> QED
      BY <3>2
  <2>4. CASE seen[p].packing # "unpacked"
    <3>1. /\ packing' = [packing EXCEPT ![l] = "consumed"]
          /\ holder' = [holder EXCEPT ![l] = d]
          /\ packing[l] \in InBucket
          /\ Writes(status[l] = "POSTED")
      BY <1>0, <1>4, <2>4 DEF PostSale, Claimable, Consumer
    <3>2. status[l] = "POSTED"
      BY <2>1, <3>1 DEF Writes
    <3>3. \A k \in Lists : BuyerMap[k] # d
      BY <2>1, <2>2, HoldersAssumption DEF BuyerMap, Goods, Sound, ConsumerFits
    <3>4. Abstract!Move(l, "packed", "sold", d)
      <4>1. Goods(l) = "packed"
        BY <2>1, <2>2, <3>1, <3>2, DocumentsAssumption, GoodsOf DEF InBucket, IInv, TypeOK, Documents
      <4>2. Goods(l)' = "sold"
        BY <2>1, <2>2, <3>1, <3>2, DocumentsAssumption DEF Goods, Held, InBucket, IInv, TypeOK, Documents
      <4>3. ASSUME NEW k \in Lists \ {l}
            PROVE  Goods(k)' = Goods(k) /\ holder'[k] = holder[k]
        <5>1. status'[k] = status[k] /\ packing'[k] = packing[k] /\ holder'[k] = holder[k]
          BY <2>1, <2>2, <3>1, <3>2, DocumentsAssumption DEF InBucket, IInv, TypeOK, Documents
        <5> QED
          BY <5>1, GoodsStay
      <4>4. Abstract!Move(l, "packed", "sold", d)
        BY <2>1, <2>2, <3>1, <3>2, DocumentsAssumption, <4>1, <4>2, <4>3, MovesOne DEF IInv, TypeOK
      <4> QED
        BY <4>4
    <3> QED
      BY <2>1, <3>3, <3>4 DEF Abstract!Sell
  <2> QED
    BY <2>3, <2>4
<1>5. CASE ReverseSale(p)
  <2> DEFINE l == Names[d]
  <2>1. d \in Sales /\ l \in Lists /\ Sound
    BY <1>0, <1>5, CallOn DEF ReverseSale, IInv
  <2>2. /\ status' = [status EXCEPT ![d] = "REVERSED"]
        /\ packing' = [k \in Lists |-> IF k \in Reopened(d) THEN "open" ELSE packing[k]]
        /\ holder' = [k \in Lists |-> IF k \in Reopened(d) THEN None ELSE holder[k]]
    BY <1>0, <1>5 DEF ReverseSale
  <2>3. \A k \in Reopened(d) : k = l
    BY <2>1 DEF Reopened, Sound, ConsumerFits
  <2>4. CASE l \in Reopened(d)
    <3>1. packing[l] = "consumed" /\ status[l] = "POSTED"
      BY <2>1, <2>4 DEF Reopened, Sound, ListFits, IInv, TypeOK, Documents
    <3>2. /\ packing' = [packing EXCEPT ![l] = "open"]
          /\ holder' = [holder EXCEPT ![l] = None]
      BY <2>1, <2>2, <2>3, <2>4 DEF IInv, TypeOK
    <3>3. Abstract!TakeBack(l)
      <4>1. Goods(l) = "sold"
        BY <2>1, <2>2, <3>1, <3>2, DocumentsAssumption, GoodsOf DEF InBucket, IInv, TypeOK, Documents
      <4>2. Goods(l)' = "packed"
        BY <2>1, <2>2, <3>1, <3>2, DocumentsAssumption DEF Goods, Held, InBucket, IInv, TypeOK, Documents
      <4>3. ASSUME NEW k \in Lists \ {l}
            PROVE  Goods(k)' = Goods(k) /\ holder'[k] = holder[k]
        <5>1. status'[k] = status[k] /\ packing'[k] = packing[k] /\ holder'[k] = holder[k]
          BY <2>1, <2>2, <3>1, <3>2, DocumentsAssumption DEF InBucket, IInv, TypeOK, Documents
        <5> QED
          BY <5>1, GoodsStay
      <4>4. Abstract!Move(l, "sold", "packed", None)
        BY <2>1, <4>1, <4>2, <4>3, MovesOne
      <4> QED
        BY <4>4 DEF Abstract!TakeBack
    <3> QED
      BY <2>1, <3>3
  <2>5. CASE l \notin Reopened(d)
    <3>1. packing' = packing /\ holder' = holder
      BY <2>2, <2>3, <2>5 DEF IInv, TypeOK
    <3>2. UNCHANGED <<GoodsMap, BuyerMap>>
      BY <2>1, <2>2, <3>1, DocumentsAssumption DEF GoodsMap, BuyerMap, Goods, Held, InBucket, IInv, TypeOK, Documents
    <3> QED
      BY <3>2
  <2> QED
    BY <2>4, <2>5
<1>6. CASE ReversePacking(p)
  <2>1. d \in Lists /\ Sound /\ status[d] = "POSTED" /\ packing[d] # "consumed"
    BY <1>0, <1>6, CallOn, NothingLost DEF ReversePacking, IInv, ReadFits, Doing, InBucket
  <2>2. status' = [status EXCEPT ![d] = "REVERSED"] /\ UNCHANGED <<packing, holder>>
    BY <1>0, <1>6 DEF ReversePacking
  <2>3. CASE packing[d] \in InBucket
    <3>1. Abstract!PutBack(d)
      <4>1. Goods(d) = "packed"
        BY <2>1, <2>2, <2>3, GoodsOf DEF InBucket, IInv, TypeOK, Documents
      <4>2. Goods(d)' = "shelf"
        BY <2>1, <2>2, <2>3 DEF Goods, Held, InBucket, IInv, TypeOK, Documents
      <4>3. ASSUME NEW k \in Lists \ {d}
            PROVE  Goods(k)' = Goods(k) /\ holder'[k] = holder[k]
        <5>1. status'[k] = status[k] /\ packing'[k] = packing[k] /\ holder'[k] = holder[k]
          BY <2>1, <2>2, <2>3 DEF InBucket, IInv, TypeOK, Documents
        <5> QED
          BY <5>1, GoodsStay
      <4>4. Abstract!Move(d, "packed", "shelf", None)
        BY <2>1, <4>1, <4>2, <4>3, MovesOne
      <4> QED
        BY <4>4 DEF Abstract!PutBack
    <3> QED
      BY <2>1, <3>1
  <2>4. CASE packing[d] \notin InBucket
    <3>1. UNCHANGED <<GoodsMap, BuyerMap>>
      BY <2>1, <2>2, <2>4 DEF GoodsMap, BuyerMap, Goods, Held, InBucket, IInv, TypeOK, Documents
    <3> QED
      BY <3>1
  <2> QED
    BY <2>3, <2>4
<1> QED
  BY <1>1, <1>2, <1>3, <1>4, <1>5, <1>6 DEF Commit

(***************************************************************************)
(* PackingLists implements Consignments: every step of its handlers moves  *)
(* one list as the promise allows or none, until an unguarded write is     *)
(* lost.                                                                   *)
(***************************************************************************)
THEOREM Implements == Spec => KeepsConsignments
PROOF
<1>1. Init => Abstract!Init
  BY DEF Init, Abstract!Init, GoodsMap, BuyerMap, Goods, Held, Documents
<1>2. ASSUME IInv, [Next]_vars
      PROVE  [Abstract!Next]_(Abstract!vars)
  <2>1. CASE lost' # 0
    BY <2>1 DEF Abstract!Next
  <2>2. CASE lost' = 0 /\ UNCHANGED <<rows, lost>>
    BY <2>2 DEF rows, Abstract!vars, GoodsMap, BuyerMap, Goods, Held
  <2>3. ASSUME lost' = 0, NEW p \in Procs, Commit(p)
        PROVE  [Abstract!Next]_(Abstract!vars)
    <3>1. lost = 0
      BY <2>3, <1>2, NothingLost, MaxLostAssumption
      DEF Commit, PostPacking, Unpack, Lock, Unlock, PostSale, ReverseSale, ReversePacking,
          Decided, Writes, IInv, TypeOK
    <3> QED
      BY <1>2, <2>3, <3>1, CommitRefines DEF Abstract!Next, Abstract!vars
  <2> QED
    BY <1>2, <2>1, <2>2, <2>3 DEF Next, Read, Refuse, vars, rows
<1> QED
  BY <1>1, <1>2, Invariant, PTL DEF Spec, KeepsConsignments, Abstract!Spec
=============================================================================
