-------------------------- MODULE CostLayersProofs --------------------------
(***************************************************************************)
(* What is true of the rows of CostLayers in every state, for any set of   *)
(* processes: the types, and the invariant Consistent behind them.         *)
(*                                                                         *)
(* Nothing is locked, so a process commits values worked out from rows     *)
(* that may have changed.  What it may still rely on is small: ids only    *)
(* grow, a document keeps its type and is never a draft again (Outdated).  *)
(* A replay is a recursion on the last movement of a set of movements; the *)
(* first part of the module shows that the recursion has one solution and  *)
(* unfolds it one movement at a time.                                      *)
(***************************************************************************)
EXTENDS CostLayers, SumTheorems

Rows == [Lines -> LineRow]

\* The order of the dates is total, so a set of lines has a last one.
LEMMA LastIsLast ==
    ASSUME NEW rows \in Rows, NEW ls, ls \subseteq Lines, ls # {}
    PROVE  /\ LastOf(rows, ls) \in ls
           /\ \A k \in ls \ {LastOf(rows, ls)} :
                 \/ rows[k].date < rows[LastOf(rows, ls)].date
                 \/ rows[k].date = rows[LastOf(rows, ls)].date /\ k < LastOf(rows, ls)
PROOF
<1> DEFINE IsLast(l, V) == \A k \in V \ {l} :
                rows[k].date < rows[l].date \/ (rows[k].date = rows[l].date /\ k < l)
           T == {V \in SUBSET ls : V # {} /\ ~ \E l \in V : IsLast(l, V)}
<1>1. SUFFICES T = {}
  BY DEF LastOf
<1>2. SUFFICES ASSUME T # {} PROVE FALSE
  OBVIOUS
<1>3. PICK V \in T : \A W \in T : W \subseteq V => W = V
  <2>1. T \subseteq SUBSET ls /\ IsFiniteSet(ls)
    BY LinesAssumption, FS_Subset
  <2> HIDE DEF T
  <2> QED
    BY <1>2, <2>1, SmallestMember
<1>4. \A l \in Lines : l \in Int /\ rows[l].date \in Int
  BY LinesAssumption DEF Rows, LineRow
<1>5. PICK a \in V : TRUE
  BY <1>3
<1>6. CASE V = {a}
  <2>1. IsLast(a, V)
    BY <1>6
  <2> QED
    BY <1>3, <2>1
<1>7. CASE V # {a}
  <2>1. V \ {a} # {} /\ V \ {a} \in SUBSET ls /\ V \ {a} \subseteq V /\ V \ {a} # V
    BY <1>3, <1>5, <1>7
  <2>2. PICK b \in V \ {a} : IsLast(b, V \ {a})
    BY <1>3, <2>1
  <2>3. a \in Lines /\ b \in Lines
    BY <1>3, <1>5, <2>2
  <2>4. IsLast(a, V) \/ IsLast(b, V)
    <3>1. CASE rows[a].date < rows[b].date \/ (rows[a].date = rows[b].date /\ a < b)
      BY <2>2, <3>1
    <3>2. CASE rows[b].date < rows[a].date \/ (rows[b].date = rows[a].date /\ b < a)
      <4>1. ASSUME NEW k \in V \ {a}
            PROVE  rows[k].date < rows[a].date \/ (rows[k].date = rows[a].date /\ k < a)
        <5>1. k \in Lines
          BY <1>3
        <5>2. k = b \/ rows[k].date < rows[b].date \/ (rows[k].date = rows[b].date /\ k < b)
          BY <2>2
        <5> QED
          BY <1>4, <2>3, <3>2, <5>1, <5>2
      <4> QED
        BY <4>1
    <3> QED
      BY <1>4, <2>2, <2>3, <3>1, <3>2
  <2> QED
    BY <1>3, <2>2, <2>4
<1> QED
  BY <1>6, <1>7

LEMMA LastIs ==
    ASSUME NEW rows \in Rows, NEW ls, ls \subseteq Lines, ls # {}
    PROVE  LastOf(rows, ls) \in ls
  BY LastIsLast

-----------------------------------------------------------------------------
(* The recursion of a replay has one solution.                             *)

Rest(rows, ls) == ls \ {LastOf(rows, ls)}
Step(rows, now, r, ls) == Repost(rows, now, r, LastOf(rows, ls))

IsReplay(g, rows, now, id, M) ==
    g = [ls \in SUBSET M |-> IF ls = {} THEN Emptied(rows, id)
                             ELSE Step(rows, now, g[Rest(rows, ls)], ls)]
TheReplay(rows, now, id, M) == CHOOSE g : IsReplay(g, rows, now, id, M)

LEMMA ReplayIs ==
    ASSUME NEW rows, NEW now, NEW id
    PROVE  ReplayOf(rows, now, id) = TheReplay(rows, now, id, Movements(rows))
  BY DEF ReplayOf, TheReplay, IsReplay, Rest, Step

LEMMA RestIs ==
    ASSUME NEW rows \in Rows, NEW ls, ls \subseteq Lines, ls # {}
    PROVE  Rest(rows, ls) \subseteq ls /\ Rest(rows, ls) # ls
  BY LastIs DEF Rest

LEMMA ReplaysAgree ==
    ASSUME NEW rows \in Rows, NEW now, NEW id, NEW S, NEW V, S \subseteq Lines, V \subseteq S,
           NEW g, NEW h, IsReplay(g, rows, now, id, S), IsReplay(h, rows, now, id, V)
    PROVE  g[V] = h[V]
PROOF
<1> DEFINE T == {W \in SUBSET V : g[W] # h[W]}
<1>1. SUFFICES ASSUME T # {} PROVE FALSE
  OBVIOUS
<1>2. PICK W \in T : \A X \in T : X \subseteq W => X = W
  <2>1. T \subseteq SUBSET V /\ IsFiniteSet(V)
    BY LinesAssumption, FS_Subset
  <2> HIDE DEF T
  <2> QED
    BY <1>1, <2>1, SmallestMember
<1>3. W \subseteq V /\ g[W] # h[W]
  BY <1>2
<1>4. /\ g[W] = IF W = {} THEN Emptied(rows, id) ELSE Step(rows, now, g[Rest(rows, W)], W)
      /\ h[W] = IF W = {} THEN Emptied(rows, id) ELSE Step(rows, now, h[Rest(rows, W)], W)
  <2>1. W \in SUBSET S /\ W \in SUBSET V
    BY <1>3
  <2>2. g[W] = IF W = {} THEN Emptied(rows, id) ELSE Step(rows, now, g[Rest(rows, W)], W)
    BY <2>1 DEF IsReplay
  <2>3. h[W] = IF W = {} THEN Emptied(rows, id) ELSE Step(rows, now, h[Rest(rows, W)], W)
    BY <2>1 DEF IsReplay
  <2> QED
    BY <2>2, <2>3
<1>5. W # {} /\ W \subseteq Lines
  BY <1>3, <1>4
<1>6. Rest(rows, W) \subseteq W /\ Rest(rows, W) # W
  BY <1>5, RestIs
<1>7. g[Rest(rows, W)] = h[Rest(rows, W)]
  BY <1>2, <1>3, <1>6
<1> QED
  BY <1>3, <1>4, <1>7

LEMMA ReplayExists ==
    ASSUME NEW rows \in Rows, NEW now, NEW id, NEW S, S \subseteq Lines
    PROVE  IsReplay(TheReplay(rows, now, id, S), rows, now, id, S)
PROOF
<1> DEFINE R(X) == TheReplay(rows, now, id, X)
           T == {V \in SUBSET S : ~ \E g : IsReplay(g, rows, now, id, V)}
<1>1. SUFFICES ASSUME T # {} PROVE FALSE
  <2>1. T = {} => \E g : IsReplay(g, rows, now, id, S)
    OBVIOUS
  <2> QED
    BY <2>1 DEF TheReplay
<1>2. PICK V \in T : \A W \in T : W \subseteq V => W = V
  <2>1. T \subseteq SUBSET S /\ IsFiniteSet(S)
    BY LinesAssumption, FS_Subset
  <2> HIDE DEF T
  <2> QED
    BY <1>1, <2>1, SmallestMember
<1>3. V \subseteq S /\ ~ \E g : IsReplay(g, rows, now, id, V)
  BY <1>2
<1>4. ASSUME NEW W, W \subseteq V, W # V
      PROVE  IsReplay(R(W), rows, now, id, W)
  <2>1. \E g : IsReplay(g, rows, now, id, W)
    BY <1>2, <1>3, <1>4
  <2> QED
    BY <2>1 DEF TheReplay
<1> DEFINE h == [W \in SUBSET V |-> IF W = {} THEN Emptied(rows, id)
                                   ELSE Step(rows, now, R(Rest(rows, W))[Rest(rows, W)], W)]
<1> HIDE DEF R, T
<1>5. ASSUME NEW W \in SUBSET V, W # {}
      PROVE  h[Rest(rows, W)] = R(Rest(rows, W))[Rest(rows, W)]
  <2> DEFINE X == Rest(rows, W)
  <2>1. X \subseteq V /\ X # V /\ X \subseteq Lines
    BY <1>3, <1>5, RestIs
  <2>2. IsReplay(R(X), rows, now, id, X)
    BY <1>4, <2>1
  <2>3. R(X)[X] = IF X = {} THEN Emptied(rows, id) ELSE Step(rows, now, R(X)[Rest(rows, X)], X)
    <3> DEFINE g == R(X)
    <3>1. X \in SUBSET X /\ IsReplay(g, rows, now, id, X)
      BY <2>2
    <3> HIDE DEF X, g
    <3> SUFFICES g[X] = IF X = {} THEN Emptied(rows, id) ELSE Step(rows, now, g[Rest(rows, X)], X)
      BY DEF g
    <3> QED
      BY <3>1 DEF IsReplay
  <2>4. h[X] = IF X = {} THEN Emptied(rows, id) ELSE Step(rows, now, R(Rest(rows, X))[Rest(rows, X)], X)
    <3> HIDE DEF X
    <3> QED
      BY <2>1
  <2>5. CASE X = {}
    BY <2>3, <2>4, <2>5
  <2>6. CASE X # {}
    <3> DEFINE Y == Rest(rows, X)
    <3>1. Y \subseteq X /\ Y # V /\ Y \subseteq V
      BY <2>1, <2>6, RestIs
    <3>2. IsReplay(R(Y), rows, now, id, Y)
      BY <1>4, <3>1
    <3>3. R(X)[Y] = R(Y)[Y]
      <4> DEFINE g == R(X)
                 k == R(Y)
      <4>1. /\ X \subseteq Lines /\ Y \subseteq X
            /\ IsReplay(g, rows, now, id, X) /\ IsReplay(k, rows, now, id, Y)
        BY <2>1, <2>2, <3>1, <3>2
      <4> HIDE DEF X, Y, g, k
      <4>2. g[Y] = k[Y]
        BY <4>1, ReplaysAgree
      <4> QED
        BY <4>2 DEF g, k
    <3> QED
      BY <2>3, <2>4, <2>6, <3>3
  <2> QED
    BY <2>5, <2>6
<1>6. h = [W \in SUBSET V |-> IF W = {} THEN Emptied(rows, id) ELSE Step(rows, now, h[Rest(rows, W)], W)]
  <2>1. \A W \in SUBSET V : h[W] = IF W = {} THEN Emptied(rows, id) ELSE Step(rows, now, h[Rest(rows, W)], W)
    BY <1>5
  <2>2. h = [W \in SUBSET V |-> h[W]]
    OBVIOUS
  <2> HIDE DEF h
  <2> QED
    BY <2>1, <2>2
<1>7. IsReplay(h, rows, now, id, V)
  <2> HIDE DEF h
  <2> QED
    BY <1>6 DEF IsReplay
<1> QED
  BY <1>3, <1>7

\* What a replay is, one movement at a time.
LEMMA ReplayUnfolds ==
    ASSUME NEW rows \in Rows, NEW now, NEW id, NEW ls \in SUBSET Movements(rows)
    PROVE  ReplayOf(rows, now, id)[ls] =
             IF ls = {} THEN Emptied(rows, id)
             ELSE Step(rows, now, ReplayOf(rows, now, id)[Rest(rows, ls)], ls)
PROOF
<1> DEFINE g == ReplayOf(rows, now, id)
<1>1. Movements(rows) \subseteq Lines
  BY DEF Movements
<1>2. IsReplay(g, rows, now, id, Movements(rows))
  BY <1>1, ReplayIs, ReplayExists
<1> HIDE DEF g
<1>3. g[ls] = IF ls = {} THEN Emptied(rows, id) ELSE Step(rows, now, g[Rest(rows, ls)], ls)
  BY <1>2 DEF IsReplay
<1> QED
  BY <1>3 DEF g

-----------------------------------------------------------------------------
(* Sums of quantities and of values, as sums over a function of all rows.  *)

Holding == LayerRow \cup TrailRow
Qty == [x \in Holding |-> x.qty]
Value == [x \in Holding |-> x.qty * x.cost]

LEMMA QuantityIs ==
    ASSUME NEW ls, ls \subseteq Holding, IsFiniteSet(ls)
    PROVE  Quantity(ls) = SumFunctionOnSet(Qty, ls)
PROOF
<1>1. [x \in ls |-> x.qty] = [x \in ls |-> Qty[x]]
  BY DEF Qty
<1>2. SumFunction([x \in ls |-> Qty[x]]) = SumFunctionOnSet(Qty, ls)
  BY SumOn
<1> QED
  BY <1>1, <1>2 DEF Quantity

LEMMA WorthIs ==
    ASSUME NEW ls, ls \subseteq Holding, IsFiniteSet(ls)
    PROVE  Worth(ls) = SumFunctionOnSet(Value, ls)
PROOF
<1>1. [x \in ls |-> x.qty * x.cost] = [x \in ls |-> Value[x]]
  BY DEF Value
<1>2. SumFunction([x \in ls |-> Value[x]]) = SumFunctionOnSet(Value, ls)
  BY SumOn
<1> QED
  BY <1>1, <1>2 DEF Worth

LEMMA HoldingIs ==
    ASSUME NEW x \in Holding
    PROVE  /\ x.qty \in Int /\ x.cost \in Nat /\ x.qty * x.cost \in Int
           /\ Qty[x] = x.qty /\ Value[x] = x.qty * x.cost
PROOF
<1>1. x.qty \in Int /\ x.cost \in Nat
  BY DEF Holding, LayerRow, TrailRow
<1>2. x.qty * x.cost \in Int
  BY <1>1
<1> QED
  BY <1>1, <1>2 DEF Qty, Value

LEMMA QuantityInt ==
    ASSUME NEW ls, ls \subseteq Holding, IsFiniteSet(ls)
    PROVE  Quantity(ls) \in Int
PROOF
<1>1. \A x \in ls : Qty[x] \in Int
  BY HoldingIs
<1> QED
  BY <1>1, QuantityIs, SumInt

LEMMA QuantityNat ==
    ASSUME NEW ls, ls \subseteq Holding, IsFiniteSet(ls), \A x \in ls : x.qty >= 0
    PROVE  Quantity(ls) \in Nat
PROOF
<1>1. \A x \in ls : Qty[x] \in Nat
  BY HoldingIs
<1> QED
  BY <1>1, QuantityIs, SumNat

\* A sum of natural numbers.
LEMMA SumFunctionNat ==
    ASSUME NEW S, IsFiniteSet(S), NEW F, DOMAIN F = S, \A x \in S : F[x] \in Nat
    PROVE  SumFunction(F) \in Nat
  BY SumNat DEF SumFunction

LEMMA SumFunctionInt ==
    ASSUME NEW S, IsFiniteSet(S), NEW F, DOMAIN F = S, \A x \in S : F[x] \in Int
    PROVE  SumFunction(F) \in Int
  BY SumInt DEF SumFunction

-----------------------------------------------------------------------------
(* Layers.                                                                 *)

\* What is true of any set of layers, with ids up to n.
Layered(ls, n) ==
    /\ ls \subseteq LayerRow /\ IsFiniteSet(ls) /\ n \in Nat
    /\ \A x \in ls : x.id \in 1..n
    /\ \A x, y \in ls : x.id = y.id => x = y
    /\ \A x \in ls : x.qty < 0 => x.kind = "backorder"
    /\ \A x \in ls : x.kind = "receipt" => x.line \in Lines
    /\ \A x, y \in ls : x.kind = "receipt" /\ y.kind = "receipt" /\ x.line = y.line => x = y

SameLayer(x, y) == x.id = y.id /\ x.kind = y.kind /\ x.line = y.line /\ x.at = y.at /\ x.received = y.received

LEMMA RowIs ==
    ASSUME NEW x \in LayerRow
    PROVE  /\ x.id \in Nat /\ x.at \in Nat /\ x.received \in Int /\ x.qty \in Int /\ x.cost \in Nat
           /\ x.line \in Lines \cup {NoLine} /\ x.kind \in {"opening", "receipt", "backorder"}
           /\ x \in Holding
  BY DEF LayerRow, Holding

LEMMA LayersGrow ==
    ASSUME NEW ls, NEW n, NEW m \in Nat, Layered(ls, n), n <= m
    PROVE  Layered(ls, m)
  BY DEF Layered

LEMMA SubLayers ==
    ASSUME NEW ls, NEW n, Layered(ls, n), NEW some, some \subseteq ls
    PROVE  Layered(some, n)
PROOF
<1>1. IsFiniteSet(some)
  BY FS_Subset DEF Layered
<1> QED
  BY <1>1 DEF Layered

\* Quantities and costs are written back, layer by layer.
LEMMA EditedLayers ==
    ASSUME NEW ls, NEW n, Layered(ls, n), NEW f, \A y \in ls : f[y] \in LayerRow /\ SameLayer(f[y], y),
           \A y \in ls : f[y].qty < 0 => y.kind = "backorder"
    PROVE  Layered({f[y] : y \in ls}, n)
PROOF
<1>1. IsFiniteSet({f[y] : y \in ls})
  BY ImageFinite DEF Layered
<1> DEFINE some == {f[y] : y \in ls}
<1>2. \A x \in some : \E y \in ls : x = f[y]
  OBVIOUS
<1>3. some \subseteq LayerRow
  OBVIOUS
<1>4. IsFiniteSet(some) /\ n \in Nat
  BY <1>1 DEF Layered
<1> HIDE DEF some
<1>5. \A x \in some : x.id \in 1..n
  BY <1>2 DEF Layered, SameLayer
<1>6. \A x, z \in some : x.id = z.id => x = z
  BY <1>2 DEF Layered, SameLayer
<1>7. \A x \in some : x.qty < 0 => x.kind = "backorder"
  BY <1>2 DEF Layered, SameLayer
<1>8. \A x \in some : x.kind = "receipt" => x.line \in Lines
  BY <1>2 DEF Layered, SameLayer
<1>9. \A x, z \in some : x.kind = "receipt" /\ z.kind = "receipt" /\ x.line = z.line => x = z
  BY <1>2 DEF Layered, SameLayer
<1>10. Layered(some, n)
  BY <1>3, <1>4, <1>5, <1>6, <1>7, <1>8, <1>9 DEF Layered
<1> QED
  BY <1>10 DEF some

\* A layer is opened.
LEMMA LayerOpened ==
    ASSUME NEW ls, NEW n, NEW m \in Nat, Layered(ls, n), NEW x \in LayerRow, n < x.id, x.id <= m,
           x.qty < 0 => x.kind = "backorder",
           x.kind = "receipt" => x.line \in Lines /\ \A y \in ls : ~(y.kind = "receipt" /\ y.line = x.line)
    PROVE  Layered(ls \cup {x}, m)
PROOF
<1>1. IsFiniteSet(ls \cup {x})
  BY FS_AddElement DEF Layered
<1>2. \A y \in ls : y.id \in Nat /\ y.id <= n
  BY RowIs DEF Layered
<1>3. n \in Nat /\ x.id \in Nat
  BY RowIs DEF Layered
<1>4. \A y \in ls \cup {x} : y.id \in 1..m
  BY <1>2, <1>3 DEF Layered
<1>5. \A y, z \in ls \cup {x} : y.id = z.id => y = z
  BY <1>2, <1>3 DEF Layered
<1>6. \A y, z \in ls \cup {x} : y.kind = "receipt" /\ z.kind = "receipt" /\ y.line = z.line => y = z
  BY DEF Layered
<1> QED
  BY <1>1, <1>4, <1>5, <1>6 DEF Layered

\* Layers are read in a total order, so a set of them has a latest one.
LEMMA LatestIsLast ==
    ASSUME NEW ls, NEW n, Layered(ls, n), ls # {}
    PROVE  Latest(ls) \in ls /\ \A y \in ls \ {Latest(ls)} : Earlier(y, Latest(ls))
PROOF
<1> DEFINE IsLatest(x, V) == \A y \in V \ {x} : Earlier(y, x)
           T == {V \in SUBSET ls : V # {} /\ ~ \E x \in V : IsLatest(x, V)}
<1>1. SUFFICES T = {}
  BY DEF Latest
<1>2. SUFFICES ASSUME T # {} PROVE FALSE
  OBVIOUS
<1>3. PICK V \in T : \A W \in T : W \subseteq V => W = V
  <2>1. T \subseteq SUBSET ls /\ IsFiniteSet(ls)
    BY DEF Layered
  <2> HIDE DEF T
  <2> QED
    BY <1>2, <2>1, SmallestMember
<1>4. \A x \in ls : x.id \in Int /\ x.at \in Int
  BY RowIs DEF Layered
<1>5. \A x, y \in ls : x.id = y.id => x = y
  BY DEF Layered
<1>6. PICK a \in V : TRUE
  BY <1>3
<1>7. CASE V = {a}
  <2>1. IsLatest(a, V)
    BY <1>7
  <2> QED
    BY <1>3, <2>1
<1>8. CASE V # {a}
  <2>1. V \ {a} # {} /\ V \ {a} \in SUBSET ls /\ V \ {a} \subseteq V /\ V \ {a} # V
    BY <1>3, <1>6, <1>8
  <2>2. PICK b \in V \ {a} : IsLatest(b, V \ {a})
    BY <1>3, <2>1
  <2>3. a \in ls /\ b \in ls /\ a # b
    BY <1>3, <1>6, <2>2
  <2>4. CASE Earlier(a, b)
    <3>1. IsLatest(b, V)
      BY <2>2, <2>4
    <3> QED
      BY <1>3, <2>2, <3>1
  <2>5. CASE ~Earlier(a, b)
    <3>1. Earlier(b, a)
      BY <1>4, <1>5, <2>3, <2>5 DEF Earlier
    <3>2. ASSUME NEW y \in V \ {a}
          PROVE  Earlier(y, a)
      <4>1. y = b \/ Earlier(y, b)
        BY <2>2
      <4>2. y \in ls
        BY <1>3
      <4> QED
        BY <1>4, <2>3, <3>1, <4>1, <4>2 DEF Earlier
    <3> QED
      BY <1>3, <1>6, <3>2
  <2> QED
    BY <2>4, <2>5
<1> QED
  BY <1>7, <1>8

LEMMA LatestIs ==
    ASSUME NEW ls, NEW n, Layered(ls, n), ls # {}
    PROVE  Latest(ls) \in ls
  BY LatestIsLast

-----------------------------------------------------------------------------
(* What an issue takes, and what it costs.                                 *)

LEMMA RoundedIs ==
    ASSUME NEW a \in Nat, NEW b \in Nat \ {0}
    PROVE  Rounded(a, b) \in Nat
PROOF
<1>1. 2 * a + b \in Nat /\ 2 * b \in Nat /\ 2 * b > 0
  OBVIOUS
<1>2. ASSUME NEW x \in Nat, NEW y \in Nat, y > 0
      PROVE  x \div y \in Nat
  BY <1>2
<1> QED
  BY <1>1, <1>2 DEF Rounded

LEMMA OpenIs ==
    ASSUME NEW ls, NEW n, Layered(ls, n)
    PROVE  /\ Open(ls) \subseteq ls /\ IsFiniteSet(Open(ls)) /\ Open(ls) \subseteq Holding /\ Open(ls) \subseteq LayerRow
           /\ \A x \in Open(ls) : x.qty \in Nat \ {0} /\ x.cost \in Nat /\ x.id \in Nat
           /\ Quantity(Open(ls)) \in Nat
PROOF
<1>1. Open(ls) \subseteq ls /\ ls \subseteq LayerRow
  BY DEF Open, Layered
<1>2. IsFiniteSet(Open(ls))
  BY <1>1, FS_Subset DEF Layered
<1>3. \A x \in Open(ls) : x.qty \in Nat \ {0} /\ x.cost \in Nat /\ x.id \in Nat /\ x \in Holding
  BY <1>1, RowIs DEF Open
<1>4. Quantity(Open(ls)) \in Nat
  BY <1>2, <1>3, QuantityNat
<1> QED
  BY <1>1, <1>2, <1>3, <1>4

LEMMA TakenIs ==
    ASSUME NEW ls, NEW n, Layered(ls, n), NEW x \in Open(ls), NEW q \in Nat
    PROVE  Taken(ls, x, q) \in Nat /\ Taken(ls, x, q) <= x.qty
PROOF
<1> DEFINE before == {y \in Open(ls) : Before(y, x)}
<1>1. before \subseteq Open(ls) /\ before \subseteq Holding
  BY OpenIs
<1>2. IsFiniteSet(before)
  BY <1>1, OpenIs, FS_Subset
<1>3. Quantity(before) \in Int
  BY <1>1, <1>2, QuantityInt
<1>4. x.qty \in Nat
  BY OpenIs
<1> QED
  BY <1>3, <1>4 DEF Taken, Least, Most

LEMMA ShortfallIs ==
    ASSUME NEW ls, NEW n, Layered(ls, n), NEW q \in Nat
    PROVE  Shortfall(ls, q) \in Nat
  BY OpenIs DEF Shortfall, Most

LEMMA ShortfallCostIs ==
    ASSUME NEW ls, NEW n, Layered(ls, n), NEW historic \in Nat
    PROVE  ShortfallCost(ls, historic) \in Nat
PROOF
<1>1. Priced(Open(ls)) \subseteq ls /\ Priced(ls) \subseteq ls
  BY OpenIs DEF Priced
<1>2. Layered(Priced(Open(ls)), n) /\ Layered(Priced(ls), n)
  BY <1>1, SubLayers
<1>3. Priced(Open(ls)) # {} => Latest(Priced(Open(ls))).cost \in Nat
  BY <1>2, LatestIs, RowIs DEF Layered
<1>4. Priced(ls) # {} => Latest(Priced(ls)).cost \in Nat
  BY <1>2, LatestIs, RowIs DEF Layered
<1> QED
  BY <1>3, <1>4 DEF ShortfallCost

LEMMA IssueAmountIs ==
    ASSUME NEW ls, NEW n, Layered(ls, n), NEW q \in Nat, NEW historic \in Nat
    PROVE  IssueAmount(ls, q, historic) \in Nat
PROOF
<1> DEFINE F == [x \in Open(ls) |-> Taken(ls, x, q) * x.cost]
<1>1. \A x \in Open(ls) : F[x] \in Nat
  <2> TAKE x \in Open(ls)
  <2>1. Taken(ls, x, q) \in Nat /\ x.cost \in Nat
    BY OpenIs, TakenIs
  <2> QED
    BY <2>1
<1>2. DOMAIN F = Open(ls) /\ IsFiniteSet(Open(ls))
  BY OpenIs
<1> DEFINE sum == SumFunction(F)
<1>3. sum \in Nat
  <2> HIDE DEF F
  <2> QED
    BY <1>1, <1>2, SumFunctionNat
<1>4. IssueAmount(ls, q, historic) = sum + Shortfall(ls, q) * ShortfallCost(ls, historic)
  BY DEF IssueAmount
<1>5. Shortfall(ls, q) * ShortfallCost(ls, historic) \in Nat
  BY ShortfallIs, ShortfallCostIs
<1> HIDE DEF sum, F
<1> QED
  BY <1>3, <1>4, <1>5

LEMMA HistoricIs ==
    ASSUME NEW rows \in Rows, NEW ls, ls \subseteq Lines
    PROVE  HistoricCost(rows, ls) \in Nat
PROOF
<1>1. ls # {} => rows[LastOf(rows, ls)].rate \in Nat
  BY LastIs DEF Rows, LineRow
<1>2. OpeningCost \in Nat
  BY DataAssumption
<1> DEFINE rate == IF ls = {} THEN 0 ELSE rows[LastOf(rows, ls)].rate
<1>3. rate \in Nat
  BY <1>1
<1>4. HistoricCost(rows, ls) = IF rate > 0 THEN rate ELSE IF opening > 0 THEN OpeningCost ELSE 0
  BY DEF HistoricCost
<1> HIDE DEF rate
<1> QED
  BY <1>2, <1>3, <1>4

\* The layer that is written for y.
Written(y, what, q) ==
    IF \E x \in Touched(what, q) : x.id = y.id
    THEN LET x == CHOOSE x \in Touched(what, q) : x.id = y.id
         IN [y EXCEPT !.qty = x.qty - Taken(what, x, q)]
    ELSE y

LEMMA WrittenIs ==
    ASSUME NEW what, NEW k, Layered(what, k), NEW q \in Nat, NEW y \in LayerRow
    PROVE  /\ Written(y, what, q) \in LayerRow /\ SameLayer(Written(y, what, q), y)
           /\ Written(y, what, q).cost = y.cost
           /\ Written(y, what, q) = y \/ Written(y, what, q).qty \in Nat
PROOF
<1>1. CASE \E x \in Touched(what, q) : x.id = y.id
  <2> DEFINE x == CHOOSE x \in Touched(what, q) : x.id = y.id
  <2>1. x \in Touched(what, q)
    BY <1>1
  <2>2. x \in Open(what)
    BY <2>1 DEF Touched
  <2>3. x.qty - Taken(what, x, q) \in Nat
    <3>1. x.qty \in Nat
      BY <2>2, OpenIs
    <3>2. Taken(what, x, q) \in Nat /\ Taken(what, x, q) <= x.qty
      BY <2>2, TakenIs
    <3> QED
      BY <3>1, <3>2
  <2>4. Written(y, what, q) = [y EXCEPT !.qty = x.qty - Taken(what, x, q)]
    BY <1>1 DEF Written
  <2> DEFINE left == x.qty - Taken(what, x, q)
  <2>5. left \in Nat /\ Written(y, what, q) = [y EXCEPT !.qty = left]
    BY <2>3, <2>4
  <2> HIDE DEF left, x
  <2>6. left \in Int
    BY <2>5
  <2> QED
    BY <2>5, <2>6 DEF LayerRow, SameLayer
<1>2. CASE ~ \E x \in Touched(what, q) : x.id = y.id
  BY <1>2 DEF Written, SameLayer
<1> QED
  BY <1>1, <1>2

LEMMA AfterIssueIs ==
    ASSUME NEW ls, NEW what
    PROVE  \A q : AfterIssue(ls, what, q) = {Written(y, what, q) : y \in ls}
  BY DEF AfterIssue, Written

LEMMA AfterIssueLayered ==
    ASSUME NEW ls, NEW n, Layered(ls, n), NEW what, NEW k, Layered(what, k), NEW q \in Nat
    PROVE  Layered(AfterIssue(ls, what, q), n)
PROOF
<1> DEFINE f == [y \in ls |-> Written(y, what, q)]
<1>1. \A y \in ls : y \in LayerRow /\ f[y] = Written(y, what, q)
  BY DEF Layered
<1>2. \A y \in ls : f[y] \in LayerRow /\ SameLayer(f[y], y)
  BY <1>1, WrittenIs
<1>3. \A y \in ls : f[y].qty < 0 => y.kind = "backorder"
  <2> TAKE y \in ls
  <2>1. f[y] = y \/ f[y].qty \in Nat
    BY <1>1, WrittenIs
  <2>2. y.qty < 0 => y.kind = "backorder"
    BY DEF Layered
  <2> HIDE DEF f
  <2> QED
    BY <2>1, <2>2
<1>4. AfterIssue(ls, what, q) = {f[y] : y \in ls}
  BY AfterIssueIs
<1> HIDE DEF f
<1> QED
  BY <1>2, <1>3, <1>4, EditedLayers

LEMMA BackorderIs ==
    ASSUME NEW id \in Nat, NEW l \in Lines, NEW at \in Nat, NEW q \in Nat \ {0}, NEW cost \in Nat, NEW x, x = Backorder(id, l, at, q, cost)
    PROVE  /\ x \in LayerRow /\ x.id = id /\ x.kind = "backorder" /\ x.line = l /\ x.qty = -q /\ x.cost = cost
           /\ x.received = -q
  BY DEF Backorder, LayerRow

LEMMA ReceiptLayerIs ==
    ASSUME NEW id \in Nat, NEW l \in Lines, NEW at \in Nat, NEW q \in Nat, NEW cost \in Nat, NEW x, x = ReceiptLayer(id, l, at, q, cost)
    PROVE  /\ x \in LayerRow /\ x.id = id /\ x.kind = "receipt" /\ x.line = l /\ x.qty = q /\ x.cost = cost
           /\ x.received = q
  BY DEF ReceiptLayer, LayerRow

LEMMA OpeningLayerIs ==
    ASSUME NEW id \in Nat, opening \in Openings, NEW x, x = OpeningLayer(id)
    PROVE  /\ x \in LayerRow /\ x.id = id /\ x.kind = "opening" /\ x.line = NoLine /\ x.qty = opening
           /\ x.cost = OpeningCost /\ x.received = opening
PROOF
<1>1. opening \in Nat /\ OpeningCost \in Nat
  BY DataAssumption
<1> QED
  BY <1>1 DEF OpeningLayer, LayerRow, NoLine

\* The shortfall of an issue is one layer, owed.
LEMMA ShortLayered ==
    ASSUME NEW ls, NEW n, Layered(ls, n), NEW what, NEW k, Layered(what, k), NEW id \in Nat, n < id,
           NEW l \in Lines, NEW at \in Nat, NEW q \in Nat, NEW historic \in Nat
    PROVE  Layered(ls \cup ShortfallLayer(id, what, l, at, q, historic), id)
PROOF
<1>1. Shortfall(what, q) \in Nat /\ ShortfallCost(what, historic) \in Nat
  BY ShortfallIs, ShortfallCostIs
<1> n \in Nat /\ n <= id
  BY DEF Layered
<1>2. CASE Shortfall(what, q) = 0
  <2>1. ls \cup ShortfallLayer(id, what, l, at, q, historic) = ls
    BY <1>2 DEF ShortfallLayer
  <2> QED
    BY <2>1, LayersGrow
<1>3. CASE Shortfall(what, q) # 0
  <2> DEFINE short == Shortfall(what, q)
             cost == ShortfallCost(what, historic)
             x == Backorder(id, l, at, short, cost)
  <2>1. ShortfallLayer(id, what, l, at, q, historic) = {x}
    BY <1>3 DEF ShortfallLayer
  <2> short \in Nat \ {0} /\ cost \in Nat
    BY <1>1, <1>3
  <2> HIDE DEF short, cost
  <2>2. x \in LayerRow /\ x.id = id /\ x.kind = "backorder"
    BY BackorderIs
  <2> HIDE DEF x
  <2>3. n < x.id /\ x.id <= id /\ x.kind # "receipt"
    BY <2>2
  <2>4. Layered(ls \cup {x}, id)
    BY <2>2, <2>3, LayerOpened
  <2> QED
    BY <2>1, <2>4
<1> QED
  BY <1>2, <1>3

LEMMA ConsumptionsAre ==
    ASSUME NEW what, NEW k, Layered(what, k), NEW l \in Lines, NEW q \in Nat
    PROVE  /\ Consumptions(what, l, q) \subseteq TrailRow /\ IsFiniteSet(Consumptions(what, l, q))
           /\ \A t \in Consumptions(what, l, q) : t.line = l /\ t.layer \in 1..k
PROOF
<1> DEFINE f == [x \in Touched(what, q) |-> [layer |-> x.id, line |-> l, qty |-> Taken(what, x, q), cost |-> x.cost]]
<1>1. Consumptions(what, l, q) = {f[x] : x \in Touched(what, q)}
  BY DEF Consumptions
<1>2. Touched(what, q) \subseteq Open(what) /\ IsFiniteSet(Touched(what, q))
  <2>1. Touched(what, q) \subseteq Open(what)
    BY DEF Touched
  <2> QED
    BY <2>1, OpenIs, FS_Subset
<1>3. \A x \in Touched(what, q) : f[x] \in TrailRow /\ f[x].line = l /\ f[x].layer = x.id
  <2> TAKE x \in Touched(what, q)
  <2>1. Taken(what, x, q) \in Nat /\ x.cost \in Nat /\ x.id \in Nat
    BY <1>2, OpenIs, TakenIs
  <2> QED
    BY <2>1 DEF TrailRow
<1>4. IsFiniteSet({f[x] : x \in Touched(what, q)})
  BY <1>2, ImageFinite
<1>5. \A x \in Touched(what, q) : x.id \in 1..k
  BY <1>2, OpenIs DEF Layered
<1> HIDE DEF f
<1> QED
  BY <1>1, <1>3, <1>4, <1>5

-----------------------------------------------------------------------------
(* A replay: rows of the right type, from ids that are not in use.         *)

RowFits(row) == row.type # "revaluation" => row.qty > 0 /\ row.amount >= 0
ReadRows(rows) == rows \in Rows /\ \A l \in Lines : RowFits(rows[l])

RunFits(rows, ls, r, b) ==
    /\ r.id \in Nat /\ b < r.id
    /\ Layered(r.layers, r.id - 1)
    /\ \A x \in r.layers : b <= x.id /\ (x.kind = "receipt" => x.line \in ls)
    /\ r.trail \subseteq TrailRow /\ IsFiniteSet(r.trail)
    /\ \A t \in r.trail : b <= t.layer /\ t.layer < r.id /\ t.line \in ls
    /\ r.rate \in [Lines -> Nat] /\ r.amount \in [Lines -> Int]
    /\ \A l \in Lines : rows[l].type # "revaluation" => r.amount[l] >= 0

\* What one movement does to a replay.
LEMMA ReceiptAgain ==
    ASSUME NEW rows, NEW now, NEW r, NEW l, NEW s, NEW m, m = rows[l], m.type = "receipt", s = Repost(rows, now, r, l)
    PROVE  /\ s.layers = r.layers \cup {ReceiptLayer(r.id, l, m.date, m.qty, m.rate)}
           /\ s.id = r.id + 1 /\ s.trail = r.trail
           /\ s.rate = [r.rate EXCEPT ![l] = m.rate] /\ s.amount = [r.amount EXCEPT ![l] = m.qty * m.rate]
  BY DEF Repost

Historic(rows, now, l) == HistoricCost(now, UpTo(now, rows[l].date))

LEMMA IssueAgain ==
    ASSUME NEW rows, NEW now, NEW r, NEW l, NEW s, NEW m, m = rows[l], m.type = "issue", s = Repost(rows, now, r, l),
           NEW h, h = Historic(rows, now, l), NEW a, a = IssueAmount(r.layers, m.qty, h)
    PROVE  /\ s.layers = AfterIssue(r.layers, r.layers, m.qty) \cup ShortfallLayer(r.id, r.layers, l, m.date, m.qty, h)
           /\ s.id = r.id + 1 /\ s.trail = r.trail \cup Consumptions(r.layers, l, m.qty)
           /\ s.rate = [r.rate EXCEPT ![l] = Rounded(a, m.qty)] /\ s.amount = [r.amount EXCEPT ![l] = a]
  BY DEF Repost, Historic

LEMMA MovementIs ==
    ASSUME NEW rows, ReadRows(rows), NEW l \in Movements(rows)
    PROVE  /\ l \in Lines /\ rows[l].type \in {"receipt", "issue"} /\ rows[l].status = "POSTED"
           /\ rows[l].date \in Nat /\ rows[l].qty \in Nat \ {0} /\ rows[l].rate \in Nat /\ rows[l].amount \in Nat
  BY DEF Movements, ReadRows, RowFits, Rows, LineRow

LEMMA HistoricNat ==
    ASSUME NEW rows, NEW now \in Rows, NEW l
    PROVE  Historic(rows, now, l) \in Nat
PROOF
<1>1. UpTo(now, rows[l].date) \subseteq Lines
  BY DEF UpTo, Inward
<1> QED
  BY <1>1, HistoricIs DEF Historic

\* An amount and a rate are set.
LEMMA Revalued ==
    ASSUME NEW rows, NEW r, NEW s, NEW l \in Lines, NEW rate \in Nat, NEW amount \in Nat,
           r.rate \in [Lines -> Nat] /\ r.amount \in [Lines -> Int],
           \A k \in Lines : rows[k].type # "revaluation" => r.amount[k] >= 0,
           s.rate = [r.rate EXCEPT ![l] = rate], s.amount = [r.amount EXCEPT ![l] = amount]
    PROVE  /\ s.rate \in [Lines -> Nat] /\ s.amount \in [Lines -> Int]
           /\ \A k \in Lines : rows[k].type # "revaluation" => s.amount[k] >= 0
PROOF
<1>1. amount \in Int
  OBVIOUS
<1>2. s.rate \in [Lines -> Nat]
  OBVIOUS
<1>3. s.amount \in [Lines -> Int]
  BY <1>1
<1>4. ASSUME NEW k \in Lines
      PROVE  s.amount[k] = IF k = l THEN amount ELSE r.amount[k]
  OBVIOUS
<1> QED
  BY <1>2, <1>3, <1>4

LEMMA RepostFits ==
    ASSUME NEW rows, ReadRows(rows), NEW now \in Rows, NEW ls, NEW b \in Nat, NEW r, RunFits(rows, ls, r, b),
           NEW l \in Movements(rows), l \notin ls, NEW s, s = Repost(rows, now, r, l)
    PROVE  RunFits(rows, ls \cup {l}, s, b)
PROOF
<1> SUFFICES ASSUME NEW m, m = rows[l], NEW n, n = r.id - 1 PROVE RunFits(rows, ls \cup {l}, s, b)
  OBVIOUS
<1>1. /\ l \in Lines /\ m.type \in {"receipt", "issue"}
      /\ m.date \in Nat /\ m.qty \in Nat \ {0} /\ m.rate \in Nat
  BY MovementIs
<1>2. /\ r.id \in Nat /\ b < r.id /\ n \in Nat /\ n < r.id /\ Layered(r.layers, n)
  BY DEF RunFits
<1>3. \A x \in r.layers : b <= x.id /\ (x.kind = "receipt" => x.line \in ls)
  BY DEF RunFits
<1>4. /\ r.trail \subseteq TrailRow /\ IsFiniteSet(r.trail)
      /\ \A t \in r.trail : b <= t.layer /\ t.layer < r.id /\ t.line \in ls
  BY DEF RunFits
<1>5. /\ r.rate \in [Lines -> Nat] /\ r.amount \in [Lines -> Int]
      /\ \A k \in Lines : rows[k].type # "revaluation" => r.amount[k] >= 0
  BY DEF RunFits
<1>6. ASSUME s.id = r.id + 1, Layered(s.layers, r.id),
             \A x \in s.layers : b <= x.id /\ (x.kind = "receipt" => x.line \in ls \cup {l}),
             s.trail \subseteq TrailRow /\ IsFiniteSet(s.trail),
             \A t \in s.trail : b <= t.layer /\ t.layer < s.id /\ t.line \in ls \cup {l},
             s.rate \in [Lines -> Nat] /\ s.amount \in [Lines -> Int],
             \A k \in Lines : rows[k].type # "revaluation" => s.amount[k] >= 0
      PROVE  RunFits(rows, ls \cup {l}, s, b)
  <2>1. s.id - 1 = r.id /\ s.id \in Nat /\ b < s.id
    BY <1>2, <1>6
  <2>2. Layered(s.layers, s.id - 1)
    BY <1>6, <2>1
  <2> QED
    BY <1>6, <2>1, <2>2 DEF RunFits
<1>7. CASE m.type = "receipt"
  <2> SUFFICES ASSUME NEW x, x = ReceiptLayer(r.id, l, m.date, m.qty, m.rate) PROVE RunFits(rows, ls \cup {l}, s, b)
    OBVIOUS
  <2>1. /\ s.layers = r.layers \cup {x} /\ s.id = r.id + 1 /\ s.trail = r.trail
        /\ s.rate = [r.rate EXCEPT ![l] = m.rate] /\ s.amount = [r.amount EXCEPT ![l] = m.qty * m.rate]
    <3>1. m = rows[l] /\ s = Repost(rows, now, r, l) /\ x = ReceiptLayer(r.id, l, m.date, m.qty, m.rate)
      OBVIOUS
    <3> QED
      BY <1>7, <3>1 DEF Repost
  <2>2. x \in LayerRow /\ x.id = r.id /\ x.kind = "receipt" /\ x.line = l /\ x.qty = m.qty
    <3>1. m.qty \in Nat /\ x = ReceiptLayer(r.id, l, m.date, m.qty, m.rate)
      BY <1>1
    <3> QED
      BY <1>1, <1>2, <3>1 DEF ReceiptLayer, LayerRow
  <2>3. m.qty * m.rate \in Nat /\ ~(x.qty < 0) /\ n < x.id /\ x.id <= r.id
    BY <1>1, <1>2, <2>2
  <2>4. \A y \in r.layers : ~(y.kind = "receipt" /\ y.line = x.line)
    BY <1>3, <2>2
  <2>5. Layered(r.layers \cup {x}, r.id)
    BY <1>1, <1>2, <2>2, <2>3, <2>4, LayerOpened
  <2>6. \A y \in s.layers : b <= y.id /\ (y.kind = "receipt" => y.line \in ls \cup {l})
    BY <1>2, <1>3, <2>1, <2>2
  <2>7. \A t \in s.trail : b <= t.layer /\ t.layer < s.id /\ t.line \in ls \cup {l}
    <3> TAKE t \in s.trail
    <3>1. b <= t.layer /\ t.layer < r.id /\ t.line \in ls /\ t.layer \in Nat
      BY <1>4, <2>1 DEF TrailRow
    <3> QED
      BY <1>2, <2>1, <3>1
  <2>8. /\ s.rate \in [Lines -> Nat] /\ s.amount \in [Lines -> Int]
        /\ \A k \in Lines : rows[k].type # "revaluation" => s.amount[k] >= 0
    <3> DEFINE amount == m.qty * m.rate
    <3>1. amount \in Nat /\ s.amount = [r.amount EXCEPT ![l] = amount]
      BY <2>1, <2>3
    <3> HIDE DEF amount
    <3> QED
      BY <1>1, <1>5, <2>1, <3>1, Revalued
  <2> QED
    BY <1>4, <1>6, <2>1, <2>5, <2>6, <2>7, <2>8
<1>8. CASE m.type = "issue"
  <2> SUFFICES ASSUME NEW h, h = Historic(rows, now, l), NEW amount, amount = IssueAmount(r.layers, m.qty, h),
                      NEW rate, rate = Rounded(amount, m.qty), NEW after, after = AfterIssue(r.layers, r.layers, m.qty),
                      NEW short, short = ShortfallLayer(r.id, r.layers, l, m.date, m.qty, h),
                      NEW taken, taken = Consumptions(r.layers, l, m.qty)
               PROVE  RunFits(rows, ls \cup {l}, s, b)
    OBVIOUS
  <2>1. /\ s.layers = after \cup short /\ s.id = r.id + 1 /\ s.trail = r.trail \cup taken
        /\ s.rate = [r.rate EXCEPT ![l] = rate] /\ s.amount = [r.amount EXCEPT ![l] = amount]
    BY <1>8, IssueAgain
  <2>2. h \in Nat
    BY HistoricNat
  <2>3. amount \in Nat
    BY <1>1, <1>2, <2>2, IssueAmountIs
  <2>4. rate \in Nat
    BY <1>1, <2>3, RoundedIs
  <2>5. Layered(after, n)
    BY <1>1, <1>2, AfterIssueLayered
  <2>6. Layered(after \cup short, r.id)
    BY <1>1, <1>2, <2>2, <2>5, ShortLayered
  <2>7. \A x \in after : \E y \in r.layers : SameLayer(x, y)
    <3>1. after = {Written(y, r.layers, m.qty) : y \in r.layers}
      BY AfterIssueIs
    <3>2. \A y \in r.layers : SameLayer(Written(y, r.layers, m.qty), y)
      BY <1>1, <1>2, WrittenIs DEF Layered
    <3> QED
      BY <3>1, <3>2
  <2>8. \A x \in short : x.id = r.id /\ x.kind = "backorder"
    BY DEF ShortfallLayer, Backorder
  <2>9. taken \subseteq TrailRow /\ IsFiniteSet(taken) /\ \A t \in taken : t.line = l /\ b <= t.layer /\ t.layer < r.id
    <3>1. taken \subseteq TrailRow /\ IsFiniteSet(taken) /\ \A t \in taken : t.line = l /\ t.layer \in 1..n
      BY <1>1, <1>2, ConsumptionsAre
    <3>2. ASSUME NEW t \in taken
          PROVE  b <= t.layer
      <4>1. PICK x \in Touched(r.layers, m.qty) : t.layer = x.id
        BY DEF Consumptions
      <4>2. x \in r.layers
        BY <4>1 DEF Touched, Open
      <4> QED
        BY <1>3, <4>1, <4>2
    <3> QED
      BY <1>2, <3>1, <3>2
  <2>10. \A x \in s.layers : b <= x.id /\ (x.kind = "receipt" => x.line \in ls \cup {l})
    BY <1>2, <1>3, <2>1, <2>7, <2>8 DEF SameLayer
  <2>11. \A t \in s.trail : b <= t.layer /\ t.layer < s.id /\ t.line \in ls \cup {l}
    <3> TAKE t \in s.trail
    <3>1. b <= t.layer /\ t.layer < r.id /\ t.line \in ls \cup {l} /\ t.layer \in Nat
      BY <1>4, <2>1, <2>9 DEF TrailRow
    <3> QED
      BY <1>2, <2>1, <3>1
  <2>12. s.trail \subseteq TrailRow /\ IsFiniteSet(s.trail)
    <3>1. s.trail \subseteq TrailRow
      BY <1>4, <2>1, <2>9
    <3>2. IsFiniteSet(r.trail) /\ IsFiniteSet(taken)
      BY <1>4, <2>9
    <3>3. IsFiniteSet(r.trail \cup taken)
      BY <3>2, FS_Union
    <3> QED
      BY <2>1, <3>1, <3>3
  <2>13. /\ s.rate \in [Lines -> Nat] /\ s.amount \in [Lines -> Int]
         /\ \A k \in Lines : rows[k].type # "revaluation" => s.amount[k] >= 0
    BY <1>1, <1>5, <2>1, <2>3, <2>4, Revalued
  <2> QED
    BY <1>6, <2>1, <2>6, <2>10, <2>11, <2>12, <2>13
<1> QED
  BY <1>1, <1>7, <1>8

LEMMA EmptiedFits ==
    ASSUME NEW rows, ReadRows(rows), opening \in Openings, NEW b \in Nat \ {0}
    PROVE  RunFits(rows, {}, Emptied(rows, b), b)
PROOF
<1> DEFINE r == Emptied(rows, b)
<1>1. /\ r.layers = IF opening > 0 THEN {OpeningLayer(b)} ELSE {}
      /\ r.id = b + 1 /\ r.trail = {}
      /\ r.rate = [l \in Lines |-> rows[l].rate] /\ r.amount = [l \in Lines |-> rows[l].amount]
  BY DEF Emptied
<1> HIDE DEF r
<1>2. r.rate \in [Lines -> Nat] /\ r.amount \in [Lines -> Int]
  BY <1>1 DEF ReadRows, Rows, LineRow
<1>3. \A l \in Lines : rows[l].type # "revaluation" => r.amount[l] >= 0
  BY <1>1 DEF ReadRows, RowFits
<1>4. r.id \in Nat /\ b < r.id /\ r.id - 1 = b
  BY <1>1
<1>5. Layered({}, b)
  BY FS_EmptySet DEF Layered
<1>6. Layered(r.layers, b) /\ \A x \in r.layers : b <= x.id /\ x.kind # "receipt"
  <2>1. CASE opening > 0
    <3> DEFINE x == OpeningLayer(b)
    <3>1. x \in LayerRow /\ x.id = b /\ x.kind = "opening" /\ x.qty = opening
      BY OpeningLayerIs
    <3>2. ~(x.qty < 0) /\ r.layers = {x}
      BY <1>1, <2>1, <3>1, DataAssumption
    <3> HIDE DEF x
    <3>3. Layered({x}, b)
      <4>1. IsFiniteSet({x})
        BY FS_Singleton
      <4> QED
        BY <3>1, <3>2, <4>1 DEF Layered
    <3> QED
      BY <3>1, <3>2, <3>3
  <2>2. CASE ~(opening > 0)
    BY <1>1, <1>5, <2>2
  <2> QED
    BY <2>1, <2>2
<1>7. r.trail \subseteq TrailRow /\ IsFiniteSet(r.trail)
  BY <1>1, FS_EmptySet
<1>8. RunFits(rows, {}, r, b)
  BY <1>1, <1>2, <1>3, <1>4, <1>6, <1>7 DEF RunFits
<1> QED
  BY <1>8 DEF r

LEMMA ReplayRuns ==
    ASSUME NEW rows, ReadRows(rows), NEW now \in Rows, opening \in Openings, NEW b \in Nat \ {0},
           NEW ls \in SUBSET Movements(rows)
    PROVE  RunFits(rows, ls, ReplayOf(rows, now, b)[ls], b)
PROOF
<1> DEFINE M == Movements(rows)
           r(V) == ReplayOf(rows, now, b)[V]
           T == {V \in SUBSET M : ~RunFits(rows, V, r(V), b)}
<1>1. SUFFICES ASSUME T # {} PROVE FALSE
  OBVIOUS
<1>2. M \subseteq Lines /\ rows \in Rows
  BY DEF Movements, ReadRows
<1>3. PICK V \in T : \A W \in T : W \subseteq V => W = V
  <2>1. T \subseteq SUBSET M /\ IsFiniteSet(M)
    BY <1>2, LinesAssumption, FS_Subset
  <2> HIDE DEF T, M
  <2> QED
    BY <1>1, <2>1, SmallestMember
<1>4. V \subseteq M /\ ~RunFits(rows, V, r(V), b)
  BY <1>3
<1>5. r(V) = IF V = {} THEN Emptied(rows, b) ELSE Step(rows, now, r(Rest(rows, V)), V)
  BY <1>2, <1>4, ReplayUnfolds
<1>6. V # {}
  BY <1>4, <1>5, EmptiedFits
<1> DEFINE l == LastOf(rows, V)
           U == Rest(rows, V)
<1>7. l \in V /\ l \in M /\ U \subseteq V /\ U # V /\ l \notin U /\ V = U \cup {l}
  BY <1>2, <1>4, <1>6, LastIs DEF Rest
<1>8. RunFits(rows, U, r(U), b)
  BY <1>3, <1>4, <1>7
<1>9. r(V) = Repost(rows, now, r(U), l)
  BY <1>5, <1>6 DEF Step
<1> HIDE DEF r, l, U, T, M
<1>10. RunFits(rows, U \cup {l}, r(V), b)
  BY <1>7, <1>8, <1>9, RepostFits DEF M
<1> QED
  BY <1>4, <1>7, <1>10

LEMMA ReplayFits ==
    ASSUME NEW rows, ReadRows(rows), NEW now \in Rows, opening \in Openings, NEW b \in Nat \ {0}
    PROVE  RunFits(rows, Movements(rows), Replayed(rows, now, b), b)
  BY ReplayRuns DEF Replayed


-----------------------------------------------------------------------------
(* What every state has, whoever works on it.                              *)

LayersFit == Layered(layers, lastId) /\ \A x \in layers : x.kind = "receipt" => lines[x.line].status # "DRAFT"

TablesFit ==
    /\ method \in Methods /\ opening \in Openings
    /\ ReadRows(lines) /\ LayersFit
    /\ trail \subseteq TrailRow /\ IsFiniteSet(trail)
    /\ lastId \in Nat /\ told \in [Lines -> Nat]

\* What was read is older than the tables: a document keeps its type, and is never
\* a draft again.
Outdated(old, new) == old.type = new.type /\ (old.status # "DRAFT" => new.status # "DRAFT")
Snapshot(rows) == ReadRows(rows) /\ \A l \in Lines : Outdated(rows[l], lines[l])

Documents == {"receipt", "issue", "landed", "revaluation", "reverse"}
CallFits(p) ==
    /\ call[p].op \in Documents =>
         /\ call[p].line \in Lines
         /\ Snapshot(seen[p].lines) /\ Layered(seen[p].layers, lastId)
         /\ call[p].op \in {"receipt", "issue", "revaluation"} => lines[call[p].line].type = call[p].op
         /\ call[p].op = "landed" => lines[call[p].line].type = "receipt" /\ call[p].charge \in Charges
    /\ call[p].op = "replay" => Snapshot(seen[p].lines)

CallsFit ==
    /\ call \in [Procs -> Call]
    /\ seen \in [Procs -> [lines : Rows \cup {<< >>}, layers : SUBSET LayerRow]]
    /\ unsent \in [Procs -> SUBSET [line : Lines, amount : Nat]]
    /\ \A p \in Procs : CallFits(p)

\* Every worker has a job that is RUNNING, and a killed one leaves its own behind.
Working == {p \in Procs : call[p].op \in {"claimed", "replay", "publish"}}
CountersFit ==
    /\ queued \in BOOLEAN /\ running \in Nat
    /\ IsFiniteSet(Working) /\ Cardinality(Working) + crashes <= running
    /\ landed \in 0..MaxLanded /\ replays \in 0..MaxReplays /\ crashes \in 0..MaxCrashes

Consistent == TablesFit /\ CallsFit /\ CountersFit

LEMMA ConsistentTyped ==
    ASSUME Consistent
    PROVE  TypeOK
PROOF
<1>1. lines \in [Lines -> LineRow]
  BY DEF Consistent, TablesFit, ReadRows, Rows
<1>2. /\ layers \subseteq LayerRow
      /\ \A x, y \in layers : x.id \in 1..lastId /\ (x.id = y.id => x = y)
      /\ \A x \in layers : x.qty < 0 => x.kind = "backorder"
  BY DEF Consistent, TablesFit, LayersFit, Layered
<1>3. call \in [Procs -> Call] /\ unsent \in [Procs -> SUBSET [line : Lines, amount : Nat]]
      /\ seen \in [Procs -> [lines : [Lines -> LineRow] \cup {<< >>}, layers : SUBSET LayerRow]]
  BY DEF Consistent, CallsFit, Rows
<1> QED
  BY <1>1, <1>2, <1>3 DEF Consistent, TablesFit, CountersFit, TypeOK

LEMMA ConsistentInit ==
    ASSUME Init
    PROVE  Consistent
PROOF
<1>1. ReadRows(lines)
  <2>1. PICK f \in [Lines -> UNION {Drafts[l] : l \in Lines}] : (\A l \in Lines : f[l] \in Drafts[l]) /\ lines = f
    BY DEF Init
  <2>2. \A l \in Lines : IsDraft(f[l])
    BY <2>1, DraftsAssumption
  <2>3. lines \in Rows
    BY <2>1, <2>2 DEF IsDraft, Rows
  <2>4. \A l \in Lines : RowFits(lines[l])
    BY <2>1, <2>2 DEF IsDraft, RowFits
  <2> QED
    BY <2>3, <2>4 DEF ReadRows
<1>2. LayersFit
  <2>1. layers = {} /\ lastId = 0
    BY DEF Init
  <2> QED
    BY <2>1, FS_EmptySet DEF LayersFit, Layered
<1>3. TablesFit
  <2>1. trail = {} /\ IsFiniteSet(trail)
    BY FS_EmptySet DEF Init
  <2> QED
    BY <1>1, <1>2, <2>1 DEF Init, TablesFit
<1>4. call \in [Procs -> Call] /\ \A p \in Procs : call[p].op = "idle"
  BY DEF Init, Idle, Call, Operation, NoLine
<1>5. seen \in [Procs -> [lines : Rows \cup {<< >>}, layers : SUBSET LayerRow]]
  BY DEF Init, Nothing
<1>6. unsent \in [Procs -> SUBSET [line : Lines, amount : Nat]]
  BY DEF Init
<1>7. CallsFit
  BY <1>4, <1>5, <1>6 DEF CallsFit, CallFits, Documents
<1>8. CountersFit
  <2>1. Working = {}
    BY <1>4 DEF Working
  <2>2. IsFiniteSet(Working) /\ Cardinality(Working) = 0
    BY <2>1, FS_EmptySet
  <2>3. queued = FALSE /\ running = 0 /\ landed = 0 /\ replays = 0 /\ crashes = 0
    BY DEF Init
  <2>4. 0 \in 0..MaxLanded /\ 0 \in 0..MaxReplays /\ 0 \in 0..MaxCrashes
    BY DataAssumption
  <2>5. queued \in BOOLEAN
    BY <2>3
  <2>6. running \in Nat /\ Cardinality(Working) + crashes <= running
    BY <2>2, <2>3
  <2> QED
    BY <2>2, <2>3, <2>4, <2>5, <2>6 DEF CountersFit
<1> QED
  BY <1>3, <1>7, <1>8 DEF Consistent

\* What may happen to the tables while a process holds what it read.
Later == lastId <= lastId' /\ \A l \in Lines : Outdated(lines[l], lines'[l])

LEMMA SnapshotKept ==
    ASSUME NEW rows, Snapshot(rows), Later
    PROVE  Snapshot(rows)'
  BY DEF Snapshot, Outdated, Later

LEMMA CallKept ==
    ASSUME Consistent, Later, lastId' \in Nat, NEW q \in Procs, call'[q] = call[q], seen'[q] = seen[q]
    PROVE  CallFits(q)'
PROOF
<1>0. CallFits(q)
  BY DEF Consistent, CallsFit
<1> DEFINE c == call[q]
           s == seen[q]
<1>1. CASE c.op \in Documents
  <2>1. /\ c.line \in Lines /\ Snapshot(s.lines) /\ Layered(s.layers, lastId)
        /\ c.op \in {"receipt", "issue", "revaluation"} => lines[c.line].type = c.op
        /\ c.op = "landed" => lines[c.line].type = "receipt" /\ c.charge \in Charges
    BY <1>0, <1>1 DEF CallFits
  <2>2. Snapshot(s.lines)'
    <3> DEFINE rows == s.lines
    <3>1. Snapshot(rows)
      BY <2>1
    <3>2. ReadRows(rows) /\ \A l \in Lines : Outdated(rows[l], lines'[l])
      BY <3>1 DEF Snapshot, Outdated, Later
    <3>3. s' = s
      OBVIOUS
    <3> QED
      BY <3>2, <3>3 DEF Snapshot
  <2>3. Layered(s.layers, lastId')
    BY <2>1, LayersGrow DEF Later
  <2>4. lines'[c.line].type = lines[c.line].type
    BY <2>1 DEF Later, Outdated
  <2>5. c' = c /\ s' = s /\ c.op # "replay"
    BY <1>1 DEF Documents
  <2>6. Layered(s.layers, lastId)'
    BY <2>3, <2>5
  <2> QED
    BY <2>1, <2>2, <2>4, <2>5, <2>6 DEF CallFits
<1>2. CASE c.op = "replay"
  <2>1. Snapshot(s.lines)
    BY <1>0, <1>2 DEF CallFits
  <2>2. ReadRows(s.lines) /\ \A l \in Lines : Outdated(s.lines[l], lines'[l])
    BY <2>1 DEF Snapshot, Outdated, Later
  <2>3. s' = s /\ c' = c
    OBVIOUS
  <2>4. Snapshot(s.lines)'
    BY <2>2, <2>3 DEF Snapshot
  <2> QED
    BY <1>2, <2>3, <2>4 DEF CallFits, Documents
<1>3. CASE c.op \notin Documents /\ c.op # "replay"
  <2>1. c' = c
    OBVIOUS
  <2> QED
    BY <1>3, <2>1 DEF CallFits
<1> QED
  BY <1>1, <1>2, <1>3

\* Every commit and every rollback leaves a process with nothing.
LEMMA CallsKept ==
    ASSUME Consistent, Later, lastId' \in Nat, NEW p \in Procs, Done(p),
           unsent' \in [Procs -> SUBSET [line : Lines, amount : Nat]]
    PROVE  CallsFit'
PROOF
<1>1. call \in [Procs -> Call] /\ seen \in [Procs -> [lines : Rows \cup {<< >>}, layers : SUBSET LayerRow]]
  BY DEF Consistent, CallsFit
<1>2. Idle \in Call /\ Nothing \in [lines : Rows \cup {<< >>}, layers : SUBSET LayerRow]
  BY DEF Idle, Call, Operation, Nothing, NoLine
<1>3. call' \in [Procs -> Call] /\ seen' \in [Procs -> [lines : Rows \cup {<< >>}, layers : SUBSET LayerRow]]
  BY <1>1, <1>2 DEF Done
<1>4. call'[p].op = "idle" /\ \A q \in Procs \ {p} : call'[q] = call[q] /\ seen'[q] = seen[q]
  BY <1>1 DEF Done, Idle
<1>5. ASSUME NEW q \in Procs
      PROVE  CallFits(q)'
  <2>1. CASE q = p
    BY <1>4, <2>1 DEF CallFits, Documents
  <2>2. CASE q # p
    BY <1>4, <2>2, CallKept
  <2> QED
    BY <2>1, <2>2
<1> QED
  BY <1>3, <1>5 DEF CallsFit

-----------------------------------------------------------------------------
(* What each step does to the tables.                                      *)

LEMMA RowChanged ==
    ASSUME NEW rows, ReadRows(rows), NEW l \in Lines, NEW row \in LineRow, RowFits(row), Outdated(rows[l], row),
           NEW new, new = [rows EXCEPT ![l] = row]
    PROVE  ReadRows(new) /\ \A k \in Lines : Outdated(rows[k], new[k])
PROOF
<1>1. new \in Rows /\ \A k \in Lines : new[k] = IF k = l THEN row ELSE rows[k]
  BY DEF ReadRows, Rows
<1>2. \A k \in Lines : RowFits(new[k])
  BY <1>1 DEF ReadRows
<1>3. \A k \in Lines : Outdated(rows[k], new[k])
  BY <1>1 DEF Outdated
<1> QED
  BY <1>1, <1>2, <1>3 DEF ReadRows

\* A posting records its rate and its amount.
PostedRow(row, rate, amount) == [row EXCEPT !.status = "POSTED", !.rate = rate, !.amount = amount]
LEMMA Recorded ==
    ASSUME ReadRows(lines), NEW l \in Lines, NEW rate \in Nat, NEW amount \in Int,
           lines[l].type # "revaluation" => amount >= 0, Record(l, rate, amount)
    PROVE  /\ ReadRows(lines') /\ \A k \in Lines : Outdated(lines[k], lines'[k])
           /\ lines'[l] = PostedRow(lines[l], rate, amount)
           /\ \A k \in Lines \ {l} : lines'[k] = lines[k]
PROOF
<1> SUFFICES ASSUME NEW row, row = PostedRow(lines[l], rate, amount),
                    NEW old, old = lines[l]
             PROVE  /\ ReadRows(lines') /\ \A k \in Lines : Outdated(lines[k], lines'[k])
                    /\ lines'[l] = row /\ \A k \in Lines \ {l} : lines'[k] = lines[k]
  OBVIOUS
<1>1. old \in LineRow /\ RowFits(old) /\ lines \in Rows
  BY DEF ReadRows, Rows
<1>2. row = [old EXCEPT !.status = "POSTED", !.rate = rate, !.amount = amount]
  BY DEF PostedRow
<1>3. row \in LineRow /\ RowFits(row) /\ Outdated(old, row)
  BY <1>1, <1>2 DEF LineRow, RowFits, Outdated
<1>4. lines' = [lines EXCEPT ![l] = row]
  BY <1>1 DEF Record, Rows, PostedRow
<1>5. lines'[l] = row /\ \A k \in Lines \ {l} : lines'[k] = lines[k]
  BY <1>1, <1>4 DEF Rows
<1> QED
  BY <1>1, <1>3, <1>4, <1>5, RowChanged

LEMMA SeededLayers ==
    ASSUME lastId \in Nat, opening \in Openings, NEW p, NEW ls, Layered(ls, lastId)
    PROVE  /\ FirstId(p) \in Nat /\ FirstId(p) - 1 \in Nat /\ lastId <= FirstId(p) - 1
           /\ Layered(OrSeeded(p, ls), FirstId(p) - 1)
           /\ \A x \in OrSeeded(p, ls) : x.kind = "receipt" => x \in ls
PROOF
<1>1. CASE ~SeedFirst(p)
  <2>1. FirstId(p) = lastId + 1 /\ OrSeeded(p, ls) = ls /\ FirstId(p) - 1 = lastId
    BY <1>1 DEF FirstId, OrSeeded
  <2> QED
    BY <2>1
<1>2. CASE SeedFirst(p)
  <2>1. FirstId(p) = lastId + 2 /\ FirstId(p) - 1 = lastId + 1 /\ OrSeeded(p, ls) = Seeded(ls, lastId + 1)
    BY <1>2 DEF FirstId, OrSeeded
  <2> DEFINE x == OpeningLayer(lastId + 1)
             rest == {y \in ls : y.kind # "opening"}
  <2>2. x \in LayerRow /\ x.id = lastId + 1 /\ x.kind = "opening" /\ x.qty = opening
    BY OpeningLayerIs
  <2>3. opening \in Nat
    BY DataAssumption
  <2>4. Layered(rest, lastId)
    BY SubLayers
  <2>5. Seeded(ls, lastId + 1) = rest \cup {x}
    BY DEF Seeded
  <2>6. rest \subseteq ls
    OBVIOUS
  <2> HIDE DEF x, rest
  <2>7. lastId < x.id /\ x.id <= lastId + 1 /\ ~(x.qty < 0) /\ x.kind # "receipt"
    BY <2>2, <2>3
  <2>8. Layered(rest \cup {x}, lastId + 1)
    BY <2>2, <2>4, <2>7, LayerOpened
  <2>9. \A y \in rest \cup {x} : y.kind = "receipt" => y \in ls
    BY <2>2, <2>6
  <2> QED
    BY <2>1, <2>5, <2>8, <2>9
<1> QED
  BY <1>1, <1>2

\* The tables of a step: what is left to show.
LEMMA TablesKept ==
    ASSUME TablesFit, method' = method, opening' = opening, ReadRows(lines'),
           \A l \in Lines : Outdated(lines[l], lines'[l]),
           lastId' \in Nat, lastId <= lastId', Layered(layers', lastId'),
           \A x \in layers' : x.kind = "receipt" => lines'[x.line].status # "DRAFT",
           trail' \subseteq TrailRow, IsFiniteSet(trail'), told' \in [Lines -> Nat]
    PROVE  TablesFit' /\ Later
  BY DEF TablesFit, Later, LayersFit

LEMMA NotDraft ==
    ASSUME TablesFit, \A l \in Lines : Outdated(lines[l], lines'[l]), NEW x \in layers, x.kind = "receipt"
    PROVE  x.line \in Lines /\ lines'[x.line].status # "DRAFT"
  BY DEF TablesFit, LayersFit, Layered, Outdated

LEMMA CallIs ==
    ASSUME Consistent, NEW p \in Procs, call[p].op \in Documents, NEW l, l = call[p].line
    PROVE  /\ l \in Lines /\ Snapshot(seen[p].lines) /\ Layered(seen[p].layers, lastId)
           /\ call[p].op \in {"receipt", "issue", "revaluation"} => lines[l].type = call[p].op
           /\ call[p].op = "landed" => lines[l].type = "receipt" /\ call[p].charge \in Charges
           /\ lines[l] \in LineRow /\ RowFits(lines[l])
  BY DEF Consistent, CallsFit, CallFits, TablesFit, ReadRows, Rows

LEMMA ReceiptTables ==
    ASSUME Consistent, NEW p \in Procs, PostReceipt(p)
    PROVE  TablesFit' /\ Later
PROOF
<1> SUFFICES ASSUME NEW l, l = call[p].line, NEW m, m = lines[l], NEW id, id = FirstId(p), NEW n, n = FirstId(p) - 1,
                    NEW x, x = ReceiptLayer(FirstId(p), l, m.date, m.qty, m.rate), NEW old, old = OrSeeded(p, layers)
             PROVE  TablesFit' /\ Later
  OBVIOUS
<1>1. l \in Lines /\ m.type = "receipt" /\ m \in LineRow /\ RowFits(m)
  BY CallIs DEF PostReceipt, At, Documents
<1>2. /\ m.status = "DRAFT" /\ layers' = old \cup {x} /\ lastId' = id /\ Record(l, m.rate, m.qty * m.rate)
      /\ method' = method /\ opening' = opening /\ trail' = trail /\ told' = told
  BY DEF PostReceipt
<1>3. TablesFit /\ lastId \in Nat /\ Layered(layers, lastId) /\ ReadRows(lines) /\ opening \in Openings
  BY DEF Consistent, TablesFit, LayersFit
<1>4. /\ id \in Nat /\ n \in Nat /\ lastId <= n /\ n < id /\ Layered(old, n)
      /\ \A y \in old : y.kind = "receipt" => y \in layers
  BY <1>3, SeededLayers
<1>5. m.qty \in Nat \ {0} /\ m.rate \in Nat /\ m.date \in Nat /\ m.qty * m.rate \in Nat
  <2>1. m.qty \in Nat \ {0} /\ m.rate \in Nat /\ m.date \in Nat
    BY <1>1 DEF LineRow, RowFits
  <2> QED
    BY <2>1
<1>6. x \in LayerRow /\ x.id = id /\ x.kind = "receipt" /\ x.line = l /\ x.qty = m.qty
  <2>1. m.qty \in Nat /\ id \in Nat /\ x = ReceiptLayer(id, l, m.date, m.qty, m.rate)
    BY <1>4, <1>5
  <2> QED
    BY <1>1, <1>5, <2>1 DEF ReceiptLayer, LayerRow
<1>7. /\ ReadRows(lines') /\ \A k \in Lines : Outdated(lines[k], lines'[k])
      /\ lines'[l] = PostedRow(lines[l], m.rate, m.qty * m.rate)
  <2> DEFINE amount == m.qty * m.rate
             rate == m.rate
  <2>1. amount \in Int /\ amount >= 0 /\ rate \in Nat /\ Record(l, rate, amount)
    BY <1>2, <1>5
  <2>2. ReadRows(lines) /\ l \in Lines
    BY <1>1, <1>3
  <2> HIDE DEF amount, rate
  <2>3. /\ ReadRows(lines') /\ \A k \in Lines : Outdated(lines[k], lines'[k])
        /\ lines'[l] = PostedRow(lines[l], rate, amount)
    BY <2>1, <2>2, Recorded
  <2> QED
    BY <2>3 DEF amount, rate
<1>8. lines'[l].status # "DRAFT"
  BY <1>1, <1>7 DEF LineRow, PostedRow
<1>9. \A y \in layers : y.kind = "receipt" => lines[y.line].status # "DRAFT"
  BY DEF Consistent, TablesFit, LayersFit
<1>10. \A y \in old : ~(y.kind = "receipt" /\ y.line = l)
  BY <1>2, <1>4, <1>9
<1>11. Layered(old \cup {x}, id)
  <2>1. n < x.id /\ x.id <= id /\ ~(x.qty < 0)
    BY <1>4, <1>5, <1>6
  <2> QED
    BY <1>1, <1>4, <1>6, <1>10, <2>1, LayerOpened
<1>12. \A y \in layers' : y.kind = "receipt" => lines'[y.line].status # "DRAFT"
  <2> TAKE y \in layers'
  <2>1. CASE y = x
    BY <1>6, <1>8, <2>1
  <2>2. CASE y \in old
    BY <1>3, <1>4, <1>7, <2>2, NotDraft
  <2> QED
    BY <1>2, <2>1, <2>2
<1>13. trail' \subseteq TrailRow /\ IsFiniteSet(trail') /\ told' \in [Lines -> Nat]
  BY <1>2 DEF Consistent, TablesFit
<1>14. Layered(layers', lastId') /\ lastId' \in Nat /\ lastId <= lastId'
  BY <1>2, <1>3, <1>4, <1>11
<1> QED
  BY <1>2, <1>3, <1>7, <1>12, <1>13, <1>14, TablesKept

LEMMA EditedTables ==
    ASSUME TablesFit, method' = method, opening' = opening, ReadRows(lines'),
           \A l \in Lines : Outdated(lines[l], lines'[l]), lastId' = lastId, trail' = trail, told' = told,
           NEW f, \A y \in layers : f[y] \in LayerRow /\ SameLayer(f[y], y) /\ (f[y].qty < 0 => y.kind = "backorder"),
           layers' = {f[y] : y \in layers}
    PROVE  TablesFit' /\ Later
PROOF
<1>1. Layered(layers, lastId) /\ lastId \in Nat
  BY DEF TablesFit, LayersFit
<1>2. Layered(layers', lastId)
  BY <1>1, EditedLayers
<1>3. \A x \in layers' : x.kind = "receipt" => lines'[x.line].status # "DRAFT"
  <2> TAKE x \in layers'
  <2>1. PICK y \in layers : x = f[y] /\ SameLayer(f[y], y)
    OBVIOUS
  <2>2. x.kind = y.kind /\ x.line = y.line
    BY <2>1 DEF SameLayer
  <2> QED
    BY <2>2, NotDraft
<1>4. trail' \subseteq TrailRow /\ IsFiniteSet(trail') /\ told' \in [Lines -> Nat]
  BY DEF TablesFit
<1>5. lastId' \in Nat /\ lastId <= lastId' /\ Layered(layers', lastId')
  BY <1>1, <1>2
<1> QED
  BY <1>3, <1>4, <1>5, TablesKept

LEMMA IssueTables ==
    ASSUME Consistent, NEW p \in Procs, PostIssue(p)
    PROVE  TablesFit' /\ Later
PROOF
<1> SUFFICES ASSUME NEW l, l = call[p].line, NEW m, m = lines[l], NEW id, id = FirstId(p), NEW n, n = FirstId(p) - 1,
                    NEW old, old = OrSeeded(p, layers), NEW what, what = OrSeeded(p, seen[p].layers),
                    NEW h, h = HistoricCost(lines, Inward(lines)), NEW q, q = m.qty, NEW at, at = m.date,
                    NEW amount, amount = IssueAmount(what, q, h), NEW rate, rate = Rounded(amount, q),
                    NEW after, after = AfterIssue(old, what, q),
                    NEW short, short = ShortfallLayer(id, what, l, at, q, h),
                    NEW taken, taken = Consumptions(what, l, q)
             PROVE  TablesFit' /\ Later
  OBVIOUS
<1>1. l \in Lines /\ m.type = "issue" /\ m \in LineRow /\ RowFits(m) /\ Layered(seen[p].layers, lastId)
  BY CallIs DEF PostIssue, At, Documents
<1>2. /\ layers' = after \cup short /\ lastId' = id /\ Record(l, rate, amount)
      /\ method' = method /\ opening' = opening /\ trail' = trail \cup taken /\ told' = [told EXCEPT ![l] = amount]
  BY DEF PostIssue
<1>3. TablesFit /\ lastId \in Nat /\ Layered(layers, lastId) /\ ReadRows(lines) /\ opening \in Openings /\ lines \in Rows
  BY DEF Consistent, TablesFit, LayersFit, ReadRows
<1>4. /\ id \in Nat /\ n \in Nat /\ lastId <= n /\ n < id /\ Layered(old, n) /\ Layered(what, n)
      /\ \A y \in old : y.kind = "receipt" => y \in layers
  BY <1>1, <1>3, SeededLayers
<1>5. q \in Nat \ {0} /\ at \in Nat
  BY <1>1 DEF LineRow, RowFits
<1>6. h \in Nat
  <2>1. Inward(lines) \subseteq Lines
    BY DEF Inward
  <2> QED
    BY <1>3, <2>1, HistoricIs
<1>7. amount \in Nat
  BY <1>4, <1>5, <1>6, IssueAmountIs
<1>8. rate \in Nat
  BY <1>5, <1>7, RoundedIs
<1>9. ReadRows(lines') /\ \A k \in Lines : Outdated(lines[k], lines'[k])
  <2>1. amount \in Int /\ amount >= 0
    BY <1>7
  <2> QED
    BY <1>1, <1>2, <1>3, <1>8, <2>1, Recorded
<1>10. Layered(after, n)
  BY <1>4, <1>5, AfterIssueLayered
<1>11. Layered(after \cup short, id)
  BY <1>1, <1>4, <1>5, <1>6, <1>10, ShortLayered
<1>12. \A y \in layers' : y.kind = "receipt" => lines'[y.line].status # "DRAFT"
  <2> SUFFICES ASSUME NEW y \in layers', y.kind = "receipt"
               PROVE  lines'[y.line].status # "DRAFT"
    OBVIOUS
  <2>1. y \notin short
    BY DEF ShortfallLayer, Backorder
  <2>2. PICK z \in old : y = Written(z, what, q)
    BY <1>2, <2>1, AfterIssueIs
  <2>3. z \in LayerRow
    BY <1>4 DEF Layered
  <2>4. y.kind = z.kind /\ y.line = z.line
    BY <1>4, <1>5, <2>2, <2>3, WrittenIs DEF SameLayer
  <2> QED
    BY <1>3, <1>4, <1>9, <2>4, NotDraft
<1>13. taken \subseteq TrailRow /\ IsFiniteSet(taken)
  BY <1>1, <1>4, <1>5, ConsumptionsAre
<1>14. trail' \subseteq TrailRow /\ IsFiniteSet(trail')
  <2>1. trail \subseteq TrailRow /\ IsFiniteSet(trail)
    BY DEF Consistent, TablesFit
  <2>2. IsFiniteSet(trail \cup taken)
    BY <1>13, <2>1, FS_Union
  <2> QED
    BY <1>2, <1>13, <2>1, <2>2
<1>15. told' \in [Lines -> Nat]
  BY <1>2, <1>7 DEF Consistent, TablesFit
<1>16. Layered(layers', lastId') /\ lastId' \in Nat /\ lastId <= lastId'
  <2>1. layers' = after \cup short /\ lastId' = id
    BY <1>2
  <2>2. lastId <= id
    BY <1>3, <1>4
  <2> QED
    BY <1>4, <1>11, <2>1, <2>2
<1> QED
  BY <1>2, <1>3, <1>9, <1>12, <1>14, <1>15, <1>16, TablesKept

\* The layer that a landed cost raised.
Raised(y, opened, perUnit) ==
    IF \E x \in opened : x.id = y.id
    THEN [y EXCEPT !.cost = (CHOOSE x \in opened : x.id = y.id).cost + perUnit]
    ELSE y

LEMMA RaisedIs ==
    ASSUME NEW opened, opened \subseteq LayerRow, NEW perUnit \in Nat, NEW y \in LayerRow
    PROVE  Raised(y, opened, perUnit) \in LayerRow /\ SameLayer(Raised(y, opened, perUnit), y)
           /\ Raised(y, opened, perUnit).qty = y.qty
PROOF
<1>1. CASE \E x \in opened : x.id = y.id
  <2> DEFINE x == CHOOSE x \in opened : x.id = y.id
             cost == x.cost + perUnit
  <2>1. x \in LayerRow
    BY <1>1
  <2>2. cost \in Nat
    <3> HIDE DEF x
    <3>1. x.cost \in Nat
      BY <2>1, RowIs
    <3> QED
      BY <3>1
  <2>3. Raised(y, opened, perUnit) = [y EXCEPT !.cost = cost]
    BY <1>1 DEF Raised
  <2> HIDE DEF cost, x
  <2> QED
    BY <2>2, <2>3 DEF LayerRow, SameLayer
<1>2. CASE ~ \E x \in opened : x.id = y.id
  BY <1>2 DEF Raised, SameLayer
<1> QED
  BY <1>1, <1>2

LEMMA AbsorbedIs ==
    ASSUME NEW ls, NEW n, Layered(ls, n), NEW perUnit \in Nat, NEW l
    PROVE  SumFunction([x \in LayersOf(ls, l) |-> Absorbed(x, perUnit)]) \in Nat
PROOF
<1> DEFINE S == LayersOf(ls, l)
           F == [x \in S |-> Absorbed(x, perUnit)]
<1>1. S \subseteq ls /\ ls \subseteq LayerRow
  BY DEF LayersOf, Layered
<1>2. IsFiniteSet(S)
  BY <1>1, FS_Subset DEF Layered
<1>3. \A x \in S : F[x] \in Nat
  <2> TAKE x \in S
  <2>1. x.qty \in Int
    BY <1>1, RowIs
  <2>2. Most(0, x.qty) \in Nat
    BY <2>1 DEF Most
  <2>3. Most(0, x.qty) * perUnit \in Nat
    BY <2>2
  <2> QED
    BY <2>3 DEF Absorbed
<1>4. DOMAIN F = S
  OBVIOUS
<1> HIDE DEF F, S
<1>5. SumFunction(F) \in Nat
  BY <1>2, <1>3, <1>4, SumFunctionNat
<1> QED
  BY <1>5 DEF F, S

\* The line that a landed cost credited.
Credited(row, gain) == [row EXCEPT !.amount = @ + gain, !.rate = Rounded(row.amount + gain, row.qty)]

LEMMA LandedTables ==
    ASSUME Consistent, NEW p \in Procs, PostLandedCost(p)
    PROVE  TablesFit' /\ Later
PROOF
<1>0. SUFFICES ASSUME NEW l, l = call[p].line, NEW row, row = seen[p].lines[l], NEW charge, charge = call[p].charge,
                    NEW perUnit, perUnit = Rounded(charge, row.qty), NEW opened, opened = LayersOf(seen[p].layers, l),
                    NEW gain, gain = SumFunction([x \in opened |-> Absorbed(x, perUnit)]),
                    NEW amount, amount = row.amount + gain, NEW rate, rate = Rounded(amount, row.qty)
             PROVE  TablesFit' /\ Later
  OBVIOUS
<1>1. /\ l \in Lines /\ lines[l].type = "receipt" /\ lines[l] \in LineRow /\ RowFits(lines[l])
      /\ Layered(seen[p].layers, lastId) /\ Snapshot(seen[p].lines) /\ charge \in Charges
  BY <1>0, CallIs DEF PostLandedCost, At, Documents
<1>2. /\ layers' = {Raised(y, opened, perUnit) : y \in layers}
      /\ lines' = IF gain = 0 THEN lines ELSE [lines EXCEPT ![l].amount = amount, ![l].rate = rate]
      /\ method' = method /\ opening' = opening /\ trail' = trail /\ lastId' = lastId /\ told' = told
  <2>1. layers' = {Raised(y, opened, perUnit) : y \in layers}
    <3>1. layers' = {Raised(y, LayersOf(seen[p].layers, call[p].line),
                            Rounded(call[p].charge, seen[p].lines[call[p].line].qty)) : y \in layers}
      BY DEF PostLandedCost, Raised
    <3> QED
      BY <1>0, <3>1
  <2>2. lines' = IF gain = 0 THEN lines ELSE [lines EXCEPT ![l].amount = amount, ![l].rate = rate]
    BY <1>0 DEF PostLandedCost
  <2> QED
    BY <2>1, <2>2 DEF PostLandedCost
<1>3. TablesFit /\ ReadRows(lines) /\ layers \subseteq LayerRow
  BY DEF Consistent, TablesFit, LayersFit, Layered
<1>4. row \in LineRow /\ RowFits(row) /\ row.type = "receipt"
  BY <1>0, <1>1 DEF Snapshot, ReadRows, Rows, Outdated
<1>5. row.qty \in Nat \ {0} /\ row.amount \in Nat
  BY <1>4 DEF LineRow, RowFits
<1>6. perUnit \in Nat
  <2>1. charge \in Nat
    BY <1>1, DataAssumption
  <2> QED
    BY <1>0, <1>5, <2>1, RoundedIs
<1>7. gain \in Nat
  BY <1>0, <1>1, <1>6, AbsorbedIs
<1>8. amount \in Nat
  <2>1. row.amount + gain \in Nat
    BY <1>5, <1>7
  <2>2. amount = row.amount + gain
    BY <1>0
  <2> QED
    BY <2>1, <2>2
<1>9. rate \in Nat
  BY <1>0, <1>5, <1>8, RoundedIs
<1>10. opened \subseteq LayerRow
  BY <1>0, <1>1 DEF LayersOf, Layered
<1> DEFINE f == [y \in layers |-> Raised(y, opened, perUnit)]
<1>11. \A y \in layers : f[y] \in LayerRow /\ SameLayer(f[y], y) /\ (f[y].qty < 0 => y.kind = "backorder")
  <2> TAKE y \in layers
  <2>1. y.qty < 0 => y.kind = "backorder"
    BY <1>3 DEF TablesFit, LayersFit, Layered
  <2>2. y \in LayerRow
    BY <1>3
  <2>3. f[y] = Raised(y, opened, perUnit)
    OBVIOUS
  <2>4. Raised(y, opened, perUnit) \in LayerRow /\ SameLayer(Raised(y, opened, perUnit), y)
        /\ Raised(y, opened, perUnit).qty = y.qty
    BY <1>6, <1>10, <2>2, RaisedIs
  <2> QED
    BY <2>1, <2>3, <2>4
<1>12. layers' = {f[y] : y \in layers}
  BY <1>2
<1> HIDE DEF f
<1>13. ReadRows(lines') /\ \A k \in Lines : Outdated(lines[k], lines'[k])
  <2>1. CASE gain = 0
    BY <1>2, <1>3, <2>1 DEF Outdated
  <2>2. CASE gain # 0
    <3>0. SUFFICES ASSUME NEW old, old = lines[l], NEW new, new = [old EXCEPT !.amount = amount, !.rate = rate]
                 PROVE  ReadRows(lines') /\ \A k \in Lines : Outdated(lines[k], lines'[k])
      OBVIOUS
    <3>1. new \in LineRow /\ RowFits(new) /\ Outdated(old, new)
      <4>1. amount \in Int /\ amount >= 0
        BY <1>8
      <4> QED
        BY <1>1, <1>9, <3>0, <4>1 DEF LineRow, RowFits, Outdated
    <3>2. lines' = [lines EXCEPT ![l] = new]
      BY <1>2, <1>3, <2>2, <3>0 DEF ReadRows, Rows
    <3> QED
      BY <1>1, <1>3, <3>0, <3>1, <3>2, RowChanged
  <2> QED
    BY <2>1, <2>2
<1> QED
  BY <1>2, <1>3, <1>11, <1>12, <1>13, EditedTables

\* The layer that a revaluation re-priced.
Repriced(y, priced, cost) == IF \E x \in priced : x.id = y.id THEN [y EXCEPT !.cost = cost] ELSE y

LEMMA RepricedIs ==
    ASSUME NEW priced, NEW cost \in Nat, NEW y \in LayerRow
    PROVE  Repriced(y, priced, cost) \in LayerRow /\ SameLayer(Repriced(y, priced, cost), y)
           /\ Repriced(y, priced, cost).qty = y.qty
  BY DEF Repriced, SameLayer, LayerRow

LEMMA DeltaIs ==
    ASSUME NEW ls, NEW n, Layered(ls, n), NEW cost \in Nat
    PROVE  SumFunction([x \in Open(ls) |-> x.qty * (cost - x.cost)]) \in Int
PROOF
<1> DEFINE S == Open(ls)
           F == [x \in S |-> x.qty * (cost - x.cost)]
<1>1. IsFiniteSet(S)
  BY OpenIs
<1>2. \A x \in S : F[x] \in Int
  <2> TAKE x \in S
  <2>1. x.qty \in Nat /\ x.cost \in Nat
    BY OpenIs
  <2> QED
    BY <2>1
<1>3. DOMAIN F = S
  OBVIOUS
<1> HIDE DEF F, S
<1>4. SumFunction(F) \in Int
  BY <1>1, <1>2, <1>3, SumFunctionInt
<1> QED
  BY <1>4 DEF F, S

LEMMA RevaluationTables ==
    ASSUME Consistent, NEW p \in Procs, PostRevaluation(p)
    PROVE  TablesFit' /\ Later
PROOF
<1>0. SUFFICES ASSUME NEW l, l = call[p].line, NEW cost, cost = lines[l].rate, NEW priced, priced = Open(seen[p].layers),
                      NEW delta, delta = SumFunction([x \in priced |-> x.qty * (cost - x.cost)])
               PROVE  TablesFit' /\ Later
  OBVIOUS
<1>1. l \in Lines /\ lines[l].type = "revaluation" /\ lines[l] \in LineRow /\ Layered(seen[p].layers, lastId)
  BY <1>0, CallIs DEF PostRevaluation, At, Documents
<1>2. /\ layers' = {Repriced(y, priced, cost) : y \in layers} /\ Record(l, cost, delta)
      /\ method' = method /\ opening' = opening /\ trail' = trail /\ lastId' = lastId /\ told' = told
  BY <1>0 DEF PostRevaluation, Repriced
<1>3. TablesFit /\ ReadRows(lines) /\ Layered(layers, lastId)
  BY DEF Consistent, TablesFit, LayersFit
<1>4. cost \in Nat
  BY <1>0, <1>1 DEF LineRow
<1>5. delta \in Int
  BY <1>0, <1>1, <1>4, DeltaIs
<1>6. ReadRows(lines') /\ \A k \in Lines : Outdated(lines[k], lines'[k])
  BY <1>1, <1>2, <1>3, <1>4, <1>5, Recorded
<1> DEFINE f == [y \in layers |-> Repriced(y, priced, cost)]
<1>7. \A y \in layers : f[y] \in LayerRow /\ SameLayer(f[y], y) /\ (f[y].qty < 0 => y.kind = "backorder")
  <2> TAKE y \in layers
  <2>1. y \in LayerRow /\ (y.qty < 0 => y.kind = "backorder")
    BY <1>3 DEF Layered
  <2>2. f[y] = Repriced(y, priced, cost)
    OBVIOUS
  <2> HIDE DEF f
  <2>3. f[y] \in LayerRow /\ SameLayer(f[y], y) /\ f[y].qty = y.qty
    BY <1>4, <2>1, <2>2, RepricedIs
  <2> QED
    BY <2>1, <2>3
<1>8. layers' = {f[y] : y \in layers}
  BY <1>2
<1> HIDE DEF f
<1> QED
  BY <1>2, <1>3, <1>6, <1>7, <1>8, EditedTables

\* A row whose document is reversed.
ReversedRow(row) == [row EXCEPT !.status = "REVERSED"]
LEMMA LineReversed ==
    ASSUME ReadRows(lines), NEW l \in Lines, lines' = [lines EXCEPT ![l].status = "REVERSED"]
    PROVE  /\ ReadRows(lines') /\ \A k \in Lines : Outdated(lines[k], lines'[k])
           /\ lines'[l] = ReversedRow(lines[l]) /\ \A k \in Lines \ {l} : lines'[k] = lines[k]
PROOF
<1>0. SUFFICES ASSUME NEW old, old = lines[l], NEW row, row = ReversedRow(old)
               PROVE  /\ ReadRows(lines') /\ \A k \in Lines : Outdated(lines[k], lines'[k])
                      /\ lines'[l] = row /\ \A k \in Lines \ {l} : lines'[k] = lines[k]
  OBVIOUS
<1>1. old \in LineRow /\ RowFits(old) /\ lines \in Rows
  BY <1>0 DEF ReadRows, Rows
<1>2. row \in LineRow /\ RowFits(row) /\ Outdated(old, row)
  BY <1>0, <1>1 DEF LineRow, RowFits, Outdated, ReversedRow
<1>3. lines' = [lines EXCEPT ![l] = row]
  BY <1>0, <1>1 DEF Rows, ReversedRow
<1>4. lines'[l] = row /\ \A k \in Lines \ {l} : lines'[k] = lines[k]
  BY <1>1, <1>3 DEF Rows
<1> QED
  BY <1>0, <1>1, <1>2, <1>3, <1>4, RowChanged

\* The layer that a withdrawn receipt leaves.
Withdrawn(y, opened) == IF \E x \in opened : x.id = y.id THEN [y EXCEPT !.qty = 0] ELSE y

LEMMA WithdrawnIs ==
    ASSUME NEW opened, NEW y \in LayerRow
    PROVE  Withdrawn(y, opened) \in LayerRow /\ SameLayer(Withdrawn(y, opened), y)
           /\ (Withdrawn(y, opened).qty = 0 \/ Withdrawn(y, opened) = y) /\ Withdrawn(y, opened).cost = y.cost
PROOF
<1>1. 0 \in Int
  OBVIOUS
<1> QED
  BY <1>1 DEF Withdrawn, SameLayer, LayerRow

LEMMA WithdrawTables ==
    ASSUME Consistent, NEW p \in Procs, call[p].op = "reverse", WithdrawReceipt(p), NEW l, l = call[p].line,
           lines' = [lines EXCEPT ![l].status = "REVERSED"],
           method' = method, opening' = opening, told' = told
    PROVE  TablesFit' /\ Later
PROOF
<1>0. SUFFICES ASSUME NEW opened, opened = LayersOf(seen[p].layers, l), NEW at, at = lines[l].date,
                      NEW owed, owed = {x \in opened : AlreadyConsumed(x) > 0},
                      NEW rest, rest = {Withdrawn(y, opened) : y \in layers}
               PROVE  TablesFit' /\ Later
  OBVIOUS
<1>1. l \in Lines /\ lines[l] \in LineRow /\ Layered(seen[p].layers, lastId)
  BY CallIs DEF Documents
<1>2. /\ layers' = rest \cup {Backorder(lastId + 1, l, at, AlreadyConsumed(x), x.cost) : x \in owed}
      /\ lastId' = IF owed = {} THEN lastId ELSE lastId + 1
      /\ trail' = trail
  <2>1. rest = {IF \E x \in opened : x.id = y.id THEN [y EXCEPT !.qty = 0] ELSE y : y \in layers}
    BY <1>0 DEF Withdrawn
  <2> QED
    BY <1>0, <2>1 DEF WithdrawReceipt
<1>3. TablesFit /\ ReadRows(lines) /\ Layered(layers, lastId) /\ lastId \in Nat
  BY DEF Consistent, TablesFit, LayersFit
<1>4. ReadRows(lines') /\ \A k \in Lines : Outdated(lines[k], lines'[k])
  BY <1>1, <1>3, LineReversed
<1> DEFINE f == [y \in layers |-> Withdrawn(y, opened)]
<1>5. \A y \in layers : f[y] \in LayerRow /\ SameLayer(f[y], y) /\ (f[y].qty < 0 => y.kind = "backorder")
  <2> TAKE y \in layers
  <2>1. y \in LayerRow /\ (y.qty < 0 => y.kind = "backorder")
    BY <1>3 DEF Layered
  <2>2. f[y] = Withdrawn(y, opened)
    OBVIOUS
  <2> HIDE DEF f
  <2>3. f[y] \in LayerRow /\ SameLayer(f[y], y) /\ (f[y].qty = 0 \/ f[y] = y)
    BY <2>1, <2>2, WithdrawnIs
  <2>4. f[y].qty = 0 => ~(f[y].qty < 0)
    OBVIOUS
  <2> QED
    BY <2>1, <2>3, <2>4
<1>6. rest = {f[y] : y \in layers}
  BY <1>0
<1> HIDE DEF f
<1>7. Layered(rest, lastId)
  BY <1>3, <1>5, <1>6, EditedLayers
<1>8. \A x \in rest : x.kind = "receipt" => lines'[x.line].status # "DRAFT"
  <2> TAKE x \in rest
  <2>1. PICK y \in layers : x.kind = y.kind /\ x.line = y.line
    BY <1>5, <1>6 DEF SameLayer
  <2> QED
    BY <1>3, <1>4, <2>1, NotDraft
<1>9. CASE owed = {}
  <2>1. layers' = rest /\ lastId' = lastId
    BY <1>2, <1>9
  <2>2. trail' \subseteq TrailRow /\ IsFiniteSet(trail') /\ told' \in [Lines -> Nat]
    BY <1>2 DEF Consistent, TablesFit
  <2>3. lastId' \in Nat /\ lastId <= lastId' /\ Layered(layers', lastId')
    BY <1>3, <1>7, <2>1
  <2> QED
    BY <1>3, <1>4, <1>8, <2>1, <2>2, <2>3, TablesKept
<1>10. CASE owed # {}
  <2>1. PICK x \in owed : TRUE
    BY <1>10
  <2>2. x \in opened /\ x \in LayerRow /\ AlreadyConsumed(x) > 0
    BY <1>0, <1>1, <2>1 DEF LayersOf, Layered
  <2>3. \A y \in opened : y = x
    BY <1>0, <1>1, <2>2 DEF LayersOf, Layered
  <2>4. owed = {x}
    BY <1>0, <2>1, <2>3
  <2>5. AlreadyConsumed(x) \in Nat \ {0} /\ x.cost \in Nat
    <3>1. x.received \in Int /\ x.qty \in Int /\ x.cost \in Nat
      BY <2>2, RowIs
    <3>2. x.received - x.qty \in Int
      BY <3>1
    <3>3. AlreadyConsumed(x) \in Int
      BY <3>2 DEF AlreadyConsumed
    <3> QED
      BY <2>2, <3>1, <3>3
  <2>6. at \in Nat
    BY <1>0, <1>1 DEF LineRow
  <2> DEFINE due == AlreadyConsumed(x)
             cost == x.cost
             z == Backorder(lastId + 1, l, at, due, cost)
  <2>7. layers' = rest \cup {z} /\ lastId' = lastId + 1
    BY <1>2, <1>10, <2>4
  <2>8. due \in Nat \ {0} /\ cost \in Nat
    BY <2>5
  <2> HIDE DEF due, cost
  <2>9. z \in LayerRow /\ z.id = lastId + 1 /\ z.kind = "backorder"
    <3>1. lastId + 1 \in Nat /\ due \in Int /\ -due \in Int
      BY <1>3, <2>8
    <3> QED
      BY <1>1, <2>6, <2>8, <3>1 DEF Backorder, LayerRow
  <2> HIDE DEF z
  <2>10. lastId < z.id /\ z.id <= lastId + 1 /\ z.kind # "receipt" /\ lastId + 1 \in Nat
    BY <1>3, <2>9
  <2>11. Layered(rest \cup {z}, lastId + 1)
    BY <1>7, <2>9, <2>10, LayerOpened
  <2>12. trail' \subseteq TrailRow /\ IsFiniteSet(trail') /\ told' \in [Lines -> Nat]
    BY <1>2 DEF Consistent, TablesFit
  <2>13. lastId' \in Nat /\ lastId <= lastId' /\ Layered(layers', lastId')
    BY <1>3, <2>7, <2>10, <2>11
  <2>14. \A y \in layers' : y.kind = "receipt" => lines'[y.line].status # "DRAFT"
    BY <1>8, <2>7, <2>10
  <2> QED
    BY <1>3, <1>4, <2>12, <2>13, <2>14, TablesKept
<1> QED
  BY <1>9, <1>10

\* A layer that gets its quantity back.
Refilled(y, l) == [y EXCEPT !.qty = @ + TakenFrom(y, l)]

LEMMA TakenFromIs ==
    ASSUME trail \subseteq TrailRow, IsFiniteSet(trail), NEW x, NEW l
    PROVE  TakenFrom(x, l) \in Nat
PROOF
<1> DEFINE S == {t \in trail : t.line = l /\ t.layer = x.id}
<1>1. S \subseteq TrailRow /\ IsFiniteSet(S)
  <2>1. S \subseteq trail
    OBVIOUS
  <2> QED
    BY <2>1, FS_Subset
<1>2. S \subseteq Holding /\ \A t \in S : t.qty >= 0
  BY <1>1 DEF Holding, TrailRow
<1> HIDE DEF S
<1>3. Quantity(S) \in Nat
  BY <1>1, <1>2, QuantityNat
<1> QED
  BY <1>3 DEF TakenFrom, S

LEMMA RefilledIs ==
    ASSUME trail \subseteq TrailRow, IsFiniteSet(trail), NEW l, NEW y \in LayerRow
    PROVE  /\ Refilled(y, l) \in LayerRow /\ SameLayer(Refilled(y, l), y) /\ Refilled(y, l).cost = y.cost
           /\ Refilled(y, l).qty = y.qty + TakenFrom(y, l) /\ y.qty <= Refilled(y, l).qty
PROOF
<1>0. SUFFICES ASSUME NEW back \in Nat, back = TakenFrom(y, l), NEW q \in Int, q = y.qty
               PROVE  /\ Refilled(y, l) \in LayerRow /\ SameLayer(Refilled(y, l), y) /\ Refilled(y, l).cost = y.cost
                      /\ Refilled(y, l).qty = q + back /\ q <= Refilled(y, l).qty
  BY TakenFromIs, RowIs
<1>1. q + back \in Int /\ q <= q + back
  OBVIOUS
<1>2. Refilled(y, l) = [y EXCEPT !.qty = q + back]
  BY <1>0 DEF Refilled
<1> QED
  BY <1>1, <1>2 DEF SameLayer, LayerRow

LEMMA GiveBackTables ==
    ASSUME Consistent, NEW p \in Procs, call[p].op = "reverse", GiveBackIssue(p), NEW l, l = call[p].line,
           lines' = [lines EXCEPT ![l].status = "REVERSED"],
           method' = method, opening' = opening, told' = told
    PROVE  TablesFit' /\ Later
PROOF
<1>0. SUFFICES ASSUME NEW kept, kept = {x \in layers : ~(x.kind = "backorder" /\ x.line = l)}
               PROVE  TablesFit' /\ Later
  OBVIOUS
<1>1. l \in Lines
  BY CallIs DEF Documents
<1>2. /\ layers' = {Refilled(y, l) : y \in kept}
      /\ trail' = DropTrail(l) /\ lastId' = lastId
  BY <1>0 DEF GiveBackIssue, Refilled
<1>3. TablesFit /\ ReadRows(lines) /\ Layered(layers, lastId) /\ lastId \in Nat
      /\ trail \subseteq TrailRow /\ IsFiniteSet(trail)
  BY DEF Consistent, TablesFit, LayersFit
<1>4. ReadRows(lines') /\ \A k \in Lines : Outdated(lines[k], lines'[k])
  BY <1>1, <1>3, LineReversed
<1>5. Layered(kept, lastId) /\ kept \subseteq layers
  BY <1>0, <1>3, SubLayers
<1> DEFINE f == [y \in kept |-> Refilled(y, l)]
<1>6. \A y \in kept : f[y] \in LayerRow /\ SameLayer(f[y], y) /\ (f[y].qty < 0 => y.kind = "backorder")
  <2> TAKE y \in kept
  <2>1. y \in LayerRow /\ (y.qty < 0 => y.kind = "backorder")
    BY <1>5 DEF Layered
  <2>2. f[y] = Refilled(y, l)
    OBVIOUS
  <2> HIDE DEF f
  <2>3. f[y] \in LayerRow /\ SameLayer(f[y], y) /\ y.qty <= f[y].qty
    BY <1>3, <2>1, <2>2, RefilledIs
  <2>4. y.qty \in Int /\ f[y].qty \in Int
    BY <2>1, <2>3, RowIs
  <2> QED
    BY <2>1, <2>3, <2>4
<1>7. layers' = {f[y] : y \in kept}
  BY <1>2
<1> HIDE DEF f
<1>8. Layered(layers', lastId)
  BY <1>5, <1>6, <1>7, EditedLayers
<1>9. \A x \in layers' : x.kind = "receipt" => lines'[x.line].status # "DRAFT"
  <2> TAKE x \in layers'
  <2>1. PICK y \in kept : x.kind = y.kind /\ x.line = y.line
    BY <1>6, <1>7 DEF SameLayer
  <2> QED
    BY <1>3, <1>4, <1>5, <2>1, NotDraft
<1>10. trail' \subseteq TrailRow /\ IsFiniteSet(trail') /\ told' \in [Lines -> Nat]
  <2>1. trail' \subseteq trail
    BY <1>2 DEF DropTrail
  <2> QED
    BY <1>3, <2>1, FS_Subset DEF TablesFit
<1>11. lastId' \in Nat /\ lastId <= lastId' /\ Layered(layers', lastId')
  BY <1>2, <1>3, <1>8
<1> QED
  BY <1>3, <1>4, <1>9, <1>10, <1>11, TablesKept

LEMMA ReverseTables ==
    ASSUME Consistent, NEW p \in Procs, ReverseDocument(p)
    PROVE  TablesFit' /\ Later
PROOF
<1>0. SUFFICES ASSUME NEW l, l = call[p].line
               PROVE  TablesFit' /\ Later
  OBVIOUS
<1>1. /\ call[p].op = "reverse" /\ lines' = [lines EXCEPT ![l].status = "REVERSED"]
      /\ method' = method /\ opening' = opening /\ told' = told
  BY <1>0 DEF ReverseDocument, At
<1>2. CASE WithdrawReceipt(p)
  BY <1>0, <1>1, <1>2, WithdrawTables
<1>3. CASE GiveBackIssue(p)
  BY <1>0, <1>1, <1>3, GiveBackTables
<1>4. CASE UNCHANGED <<layers, trail, lastId>>
  <2>1. l \in Lines /\ ReadRows(lines)
    BY <1>0, <1>1, CallIs DEF Documents, Consistent, TablesFit
  <2>2. ReadRows(lines') /\ \A k \in Lines : Outdated(lines[k], lines'[k])
    BY <1>1, <2>1, LineReversed
  <2>3. \A x \in layers' : x.kind = "receipt" => lines'[x.line].status # "DRAFT"
    BY <1>4, <2>2, NotDraft DEF Consistent
  <2>4. TablesFit /\ lastId' = lastId /\ layers' = layers /\ trail' = trail
    BY <1>4 DEF Consistent
  <2>5. lastId' \in Nat /\ lastId <= lastId' /\ Layered(layers', lastId')
    BY <2>4 DEF TablesFit, LayersFit
  <2>6. trail' \subseteq TrailRow /\ IsFiniteSet(trail') /\ told' \in [Lines -> Nat]
    BY <1>1, <2>4 DEF TablesFit
  <2> QED
    BY <1>1, <2>2, <2>3, <2>4, <2>5, <2>6, TablesKept
<1> QED
  BY <1>2, <1>3, <1>4 DEF ReverseDocument

\* The rows after a replay.
LEMMA RevisedRows ==
    ASSUME ReadRows(lines), NEW rows, NEW r, r.rate \in [Lines -> Nat], r.amount \in [Lines -> Int],
           ReadRows(rows), \A l \in Lines : rows[l].type # "revaluation" => r.amount[l] >= 0,
           lines' = [l \in Lines |-> IF l \in Revised(rows, r) THEN Revise(lines[l], r.rate[l], r.amount[l]) ELSE lines[l]]
    PROVE  /\ ReadRows(lines') /\ \A k \in Lines : Outdated(lines[k], lines'[k])
           /\ \A l \in Revised(rows, r) : l \in Lines /\ r.amount[l] \in Nat
PROOF
<1>1. \A l \in Revised(rows, r) : l \in Lines /\ r.amount[l] \in Nat /\ r.rate[l] \in Nat
  BY DEF Revised, Movements
<1>2. \A l \in Lines : lines[l] \in LineRow /\ RowFits(lines[l])
  BY DEF ReadRows, Rows
<1>3. ASSUME NEW l \in Lines
      PROVE  lines'[l] \in LineRow /\ RowFits(lines'[l]) /\ Outdated(lines[l], lines'[l])
  <2>1. CASE l \notin Revised(rows, r)
    <3>1. lines'[l] = lines[l]
      BY <2>1
    <3> QED
      BY <1>2, <3>1 DEF Outdated
  <2>2. CASE l \in Revised(rows, r)
    <3>0. SUFFICES ASSUME NEW old, old = lines[l], NEW rate, rate = r.rate[l], NEW amount, amount = r.amount[l],
                          NEW new, new = lines'[l]
                   PROVE  new \in LineRow /\ RowFits(new) /\ Outdated(old, new)
      OBVIOUS
    <3>1. new = [old EXCEPT !.rate = rate, !.amount = amount]
      BY <2>2, <3>0 DEF Revise
    <3>2. rate \in Nat /\ amount \in Int /\ amount >= 0 /\ old \in LineRow /\ RowFits(old)
      BY <1>1, <1>2, <2>2, <3>0
    <3> QED
      BY <3>1, <3>2 DEF LineRow, RowFits, Outdated
  <2> QED
    BY <2>1, <2>2
<1>4. lines' \in Rows
  BY <1>3 DEF Rows
<1> QED
  BY <1>1, <1>3, <1>4 DEF ReadRows

LEMMA ReplayTables ==
    ASSUME Consistent, NEW p \in Procs, Replay(p)
    PROVE  TablesFit' /\ Later /\ unsent' \in [Procs -> SUBSET [line : Lines, amount : Nat]]
PROOF
<1>0. SUFFICES ASSUME NEW rows, rows = seen[p].lines, NEW b, b = lastId + 1, NEW r, r = Replayed(rows, lines, b),
                      NEW moved, moved = Movements(rows)
               PROVE  TablesFit' /\ Later /\ unsent' \in [Procs -> SUBSET [line : Lines, amount : Nat]]
  OBVIOUS
<1>1. TablesFit /\ ReadRows(lines) /\ lastId \in Nat /\ opening \in Openings
      /\ trail \subseteq TrailRow /\ IsFiniteSet(trail) /\ lines \in Rows
  BY DEF Consistent, TablesFit, ReadRows
<1>2. Snapshot(rows)
  BY <1>0 DEF Consistent, CallsFit, CallFits, Replay, At
<1>3. ReadRows(rows) /\ b \in Nat \ {0} /\ lastId < b
  BY <1>0, <1>1, <1>2 DEF Snapshot
<1>4. RunFits(rows, moved, r, b)
  BY <1>0, <1>1, <1>3, ReplayFits
<1>5. /\ layers' = r.layers /\ lastId' = r.id /\ trail' = trail \cup r.trail
      /\ lines' = [l \in Lines |-> IF l \in Revised(rows, r)
                                   THEN Revise(lines[l], r.rate[l], r.amount[l]) ELSE lines[l]]
      /\ unsent' = [unsent EXCEPT ![p] = Revisions(rows, r)]
      /\ method' = method /\ opening' = opening /\ told' = told
  BY <1>0 DEF Replay
<1>6. /\ r.rate \in [Lines -> Nat] /\ r.amount \in [Lines -> Int]
      /\ \A l \in Lines : rows[l].type # "revaluation" => r.amount[l] >= 0
      /\ r.trail \subseteq TrailRow /\ IsFiniteSet(r.trail)
      /\ r.id \in Nat /\ b < r.id /\ Layered(r.layers, r.id - 1)
      /\ \A x \in r.layers : x.kind = "receipt" => x.line \in moved
  BY <1>4 DEF RunFits
<1>7. /\ ReadRows(lines') /\ \A k \in Lines : Outdated(lines[k], lines'[k])
      /\ \A l \in Revised(rows, r) : l \in Lines /\ r.amount[l] \in Nat
  <2>1. /\ r.rate \in [Lines -> Nat] /\ r.amount \in [Lines -> Int]
        /\ \A l \in Lines : rows[l].type # "revaluation" => r.amount[l] >= 0
    BY <1>6
  <2>2. lines' = [l \in Lines |-> IF l \in Revised(rows, r)
                                  THEN Revise(lines[l], r.rate[l], r.amount[l]) ELSE lines[l]]
    BY <1>5
  <2> QED
    BY <1>1, <1>3, <2>1, <2>2, RevisedRows
<1>8. \A x \in layers' : x.kind = "receipt" => lines'[x.line].status # "DRAFT"
  <2> SUFFICES ASSUME NEW x \in layers', x.kind = "receipt" PROVE lines'[x.line].status # "DRAFT"
    OBVIOUS
  <2>1. x.line \in moved
    BY <1>5, <1>6
  <2>2. x.line \in Lines /\ rows[x.line].status = "POSTED"
    BY <1>0, <2>1 DEF Movements
  <2>3. Outdated(rows[x.line], lines[x.line])
    BY <1>2, <2>2 DEF Snapshot
  <2> QED
    BY <1>7, <2>2, <2>3 DEF Outdated
<1>9. trail' \subseteq TrailRow /\ IsFiniteSet(trail') /\ told' \in [Lines -> Nat]
  <2>1. IsFiniteSet(trail \cup r.trail) /\ trail \cup r.trail \subseteq TrailRow
    BY <1>1, <1>6, FS_Union
  <2> QED
    BY <1>1, <1>5, <2>1 DEF TablesFit
<1>10. lastId' \in Nat /\ lastId <= lastId' /\ Layered(layers', lastId')
  <2>1. r.id - 1 \in Nat /\ r.id - 1 <= r.id /\ lastId <= r.id
    BY <1>1, <1>3, <1>6
  <2>2. Layered(r.layers, r.id)
    BY <1>6, <2>1, LayersGrow
  <2> QED
    BY <1>5, <1>6, <2>1, <2>2
<1>11. unsent' \in [Procs -> SUBSET [line : Lines, amount : Nat]]
  <2>1. Revisions(rows, r) \subseteq [line : Lines, amount : Nat]
    BY <1>7 DEF Revisions
  <2> DEFINE v == Revisions(rows, r)
  <2>2. v \in SUBSET [line : Lines, amount : Nat] /\ unsent' = [unsent EXCEPT ![p] = v]
    BY <1>5, <2>1
  <2> HIDE DEF v
  <2> QED
    BY <2>2 DEF Consistent, CallsFit
<1> QED
  BY <1>1, <1>5, <1>7, <1>8, <1>9, <1>10, <1>11, TablesKept

-----------------------------------------------------------------------------
(* Every step keeps what is true of every state.                           *)

Unmoved == UNCHANGED tables

LEMMA TablesUnmoved ==
    ASSUME Consistent, Unmoved
    PROVE  TablesFit' /\ Later
PROOF
<1>1. /\ method' = method /\ opening' = opening /\ lines' = lines /\ layers' = layers /\ trail' = trail
      /\ lastId' = lastId /\ told' = told
  BY DEF Unmoved, tables
<1>2. TablesFit'
  BY <1>1 DEF Consistent, TablesFit, LayersFit, ReadRows
<1>3. Later
  BY <1>1 DEF Consistent, TablesFit, Later, Outdated
<1> QED
  BY <1>2, <1>3

\* What a process does next, with what it has read: the others are not touched.
LEMMA CallTaken ==
    ASSUME Consistent, Later, lastId' \in Nat, NEW p \in Procs, NEW c \in Call, call' = [call EXCEPT ![p] = c],
           NEW s \in [lines : Rows \cup {<< >>}, layers : SUBSET LayerRow], seen' = [seen EXCEPT ![p] = s],
           unsent' \in [Procs -> SUBSET [line : Lines, amount : Nat]], CallFits(p)'
    PROVE  CallsFit' /\ call'[p] = c /\ seen'[p] = s
PROOF
<1>1. call \in [Procs -> Call] /\ seen \in [Procs -> [lines : Rows \cup {<< >>}, layers : SUBSET LayerRow]]
  BY DEF Consistent, CallsFit
<1>2. /\ call' \in [Procs -> Call] /\ seen' \in [Procs -> [lines : Rows \cup {<< >>}, layers : SUBSET LayerRow]]
      /\ call'[p] = c /\ seen'[p] = s
      /\ \A q \in Procs \ {p} : call'[q] = call[q] /\ seen'[q] = seen[q]
  BY <1>1
<1>3. ASSUME NEW q \in Procs
      PROVE  CallFits(q)'
  <2>1. CASE q = p
    BY <2>1
  <2>2. CASE q # p
    BY <1>2, <2>2, CallKept
  <2> QED
    BY <2>1, <2>2
<1> QED
  BY <1>2, <1>3 DEF CallsFit

\* A step that starts or ends no job.
LEMMA WorkersKept ==
    ASSUME Consistent, NEW p \in Procs, call' = [call EXCEPT ![p] = call'[p]],
           call[p].op \in {"claimed", "replay", "publish"} <=> call'[p].op \in {"claimed", "replay", "publish"},
           running' = running, queued' \in BOOLEAN,
           landed' \in 0..MaxLanded, replays' \in 0..MaxReplays, crashes' = crashes
    PROVE  CountersFit'
PROOF
<1>1. call \in [Procs -> Call]
  BY DEF Consistent, CallsFit
<1>2. \A q \in Procs \ {p} : call'[q] = call[q]
  BY <1>1
<1>3. Working' = Working
  BY <1>2 DEF Working
<1>4. IsFiniteSet(Working') /\ Cardinality(Working') + crashes' <= running' /\ running' \in Nat
        /\ crashes' \in 0..MaxCrashes
  BY <1>3 DEF Consistent, CountersFit
<1> QED
  BY <1>4 DEF CountersFit

LEMMA CountersAre ==
    ASSUME Consistent
    PROVE  /\ queued \in BOOLEAN /\ running \in Nat
           /\ landed \in 0..MaxLanded /\ replays \in 0..MaxReplays /\ crashes \in 0..MaxCrashes
           /\ call \in [Procs -> Call] /\ seen \in [Procs -> [lines : Rows \cup {<< >>}, layers : SUBSET LayerRow]]
           /\ unsent \in [Procs -> SUBSET [line : Lines, amount : Nat]]
           /\ lastId \in Nat
  BY DEF Consistent, CountersFit, CallsFit, TablesFit

LEMMA BeginKept ==
    ASSUME Consistent, NEW p \in Procs, NEW o \in Documents, NEW l \in Lines, NEW charge \in Charges \cup {0},
           o = "landed" => charge \in Charges, Begin(p, o, l, charge)
    PROVE  Consistent'
PROOF
<1>1. TablesFit' /\ Later /\ lastId' \in Nat
  BY TablesUnmoved, CountersAre DEF Begin, Unmoved, tables
<1>2. /\ call[p].op = "idle" /\ Accepts(o, lines[l]) /\ unsent' = unsent
      /\ call' = [call EXCEPT ![p] = [op |-> o, line |-> l, charge |-> charge]]
      /\ seen' = [seen EXCEPT ![p] = [lines |-> lines, layers |-> layers]]
      /\ lines' = lines /\ layers' = layers /\ lastId' = lastId
      /\ UNCHANGED <<queued, running, landed, replays, crashes>>
  BY DEF Begin, At, tables, counters
<1>3. ReadRows(lines) /\ Layered(layers, lastId) /\ lines \in Rows
  BY DEF Consistent, TablesFit, LayersFit, ReadRows
<1> DEFINE c == [op |-> o, line |-> l, charge |-> charge]
           s == [lines |-> lines, layers |-> layers]
<1>4. c \in Call /\ s \in [lines : Rows \cup {<< >>}, layers : SUBSET LayerRow]
  BY <1>3 DEF Call, Operation, Documents, Layered
<1>5. call'[p] = c /\ seen'[p] = s
  BY <1>2, CountersAre
<1>6. Snapshot(lines)'
  BY <1>2, <1>3 DEF Snapshot, Outdated, ReadRows
<1>7. /\ o \in {"receipt", "issue", "revaluation"} => lines[l].type = o
      /\ o = "landed" => lines[l].type = "receipt"
  <2>1. Accepts(o, lines[l])
    BY <1>2
  <2>2. lines[l].type \in {"receipt", "issue", "revaluation"}
    BY <1>3 DEF Rows, LineRow
  <2> QED
    BY <2>1, <2>2 DEF Accepts
<1>8. CallFits(p)'
  <2>1. call'[p].op = o /\ call'[p].line = l /\ call'[p].charge = charge
        /\ seen'[p].lines = lines /\ seen'[p].layers = layers
    BY <1>5
  <2>2. Snapshot(seen[p].lines)'
    BY <1>2, <1>6, <2>1
  <2>3. Layered(seen[p].layers, lastId)'
    BY <1>2, <1>3, <2>1
  <2>4. o # "replay"
    BY DEF Documents
  <2> QED
    BY <1>2, <1>7, <2>1, <2>2, <2>3, <2>4 DEF CallFits
<1>9. CallsFit'
  <2> HIDE DEF c, s
  <2> QED
    BY <1>1, <1>2, <1>4, <1>5, <1>8, CountersAre, CallTaken
<1>10. CountersFit'
  <2>1. call'[p].op = o
    BY <1>5
  <2>3. call' = [call EXCEPT ![p] = call'[p]]
    <3>1. call' = [call EXCEPT ![p] = c] /\ call'[p] = c
      BY <1>2, <1>5
    <3> HIDE DEF c
    <3> QED
      BY <3>1
  <2>2. call[p].op \notin {"claimed", "replay", "publish"} /\ call'[p].op \notin {"claimed", "replay", "publish"}
    BY <1>2, <2>1 DEF Documents
  <2> QED
    BY <1>2, <2>2, <2>3, CountersAre, WorkersKept
<1> QED
  BY <1>1, <1>9, <1>10 DEF Consistent

\* A request commits, or rolls back.
LEMMA RequestEnds ==
    ASSUME Consistent, NEW p \in Procs, call[p].op \in Documents, TablesFit', Later, Done(p), unsent' = unsent,
           running' = running, queued' \in BOOLEAN,
           landed' \in 0..MaxLanded, replays' = replays, crashes' = crashes
    PROVE  Consistent'
PROOF
<1>1. lastId' \in Nat
  BY DEF TablesFit
<1>2. CallsFit'
  BY <1>1, CallsKept, CountersAre
<1>3. call' = [call EXCEPT ![p] = call'[p]] /\ call'[p].op = "idle"
  BY CountersAre DEF Done, Idle
<1>4. call[p].op \notin {"claimed", "replay", "publish"} /\ call'[p].op \notin {"claimed", "replay", "publish"}
  BY <1>3 DEF Documents
<1>5. CountersFit'
  BY <1>3, <1>4, CountersAre, WorkersKept
<1> QED
  BY <1>2, <1>5 DEF Consistent

LEMMA SessionKept ==
    ASSUME Consistent, NEW p \in Procs, Session(p)
    PROVE  Consistent'
PROOF
<1>0. CountersFit /\ queued \in BOOLEAN /\ landed \in 0..MaxLanded
  BY CountersAre DEF Consistent
<1>1. ASSUME NEW l \in Lines, NEW o \in {"receipt", "issue", "revaluation", "reverse"}, Begin(p, o, l, 0)
      PROVE  Consistent'
  <2>1. o \in Documents /\ 0 \in Charges \cup {0} /\ o # "landed"
    BY <1>1 DEF Documents
  <2> QED
    BY <1>1, <2>1, BeginKept
<1>2. ASSUME NEW l \in Lines, NEW c \in Charges, Begin(p, "landed", l, c)
      PROVE  Consistent'
  <2>1. "landed" \in Documents /\ c \in Charges \cup {0}
    BY DEF Documents
  <2> QED
    BY <1>2, <2>1, BeginKept
<1>3. CASE PostReceipt(p)
  <2>1. TablesFit' /\ Later
    BY <1>3, ReceiptTables
  <2> QED
    BY <1>0, <1>3, <2>1, RequestEnds DEF PostReceipt, At, Documents, counters
<1>4. CASE PostIssue(p)
  <2>1. TablesFit' /\ Later
    BY <1>4, IssueTables
  <2> QED
    BY <1>0, <1>4, <2>1, RequestEnds DEF PostIssue, At, Documents, counters
<1>5. CASE PostLandedCost(p)
  <2>1. TablesFit' /\ Later
    BY <1>5, LandedTables
  <2>2. landed' \in 0..MaxLanded
    <3>1. landed < MaxLanded /\ landed' = landed + 1
      BY <1>5 DEF PostLandedCost
    <3> QED
      BY <1>0, <3>1, DataAssumption
  <2> QED
    BY <1>0, <1>5, <2>1, <2>2, RequestEnds DEF PostLandedCost, At, Documents
<1>6. CASE PostRevaluation(p)
  <2>1. TablesFit' /\ Later
    BY <1>6, RevaluationTables
  <2> QED
    BY <1>0, <1>6, <2>1, RequestEnds DEF PostRevaluation, At, Documents, counters
<1>7. CASE ReverseDocument(p)
  <2>1. TablesFit' /\ Later
    BY <1>7, ReverseTables
  <2> QED
    BY <1>0, <1>7, <2>1, RequestEnds DEF ReverseDocument, At, Documents, counters
<1>8. CASE Rollback(p)
  <2>1. TablesFit' /\ Later
    BY <1>8, TablesUnmoved DEF Rollback, Unmoved
  <2> QED
    BY <1>0, <1>8, <2>1, RequestEnds DEF Rollback, Documents, counters
<1> QED
  BY <1>1, <1>2, <1>3, <1>4, <1>5, <1>6, <1>7, <1>8 DEF Session

LEMMA ClaimKept ==
    ASSUME Consistent, NEW p \in Procs, ClaimJob(p)
    PROVE  Consistent'
PROOF
<1>1. TablesFit' /\ Later /\ lastId' \in Nat
  BY TablesUnmoved, CountersAre DEF ClaimJob, Unmoved, tables
<1>2. /\ call[p].op = "idle" /\ call' = [call EXCEPT ![p] = Doing("claimed")] /\ seen' = seen /\ unsent' = unsent
      /\ running' = running + 1 /\ replays' = replays + 1 /\ replays < MaxReplays
      /\ landed' = landed /\ crashes' = crashes /\ (queued' = FALSE \/ queued' = queued)
  BY DEF ClaimJob, At
<1>3. Doing("claimed") \in Call /\ Doing("claimed").op = "claimed"
  BY DEF Doing, Call, Operation, NoLine
<1>4. call'[p] = Doing("claimed") /\ \A q \in Procs \ {p} : call'[q] = call[q]
  BY <1>2, CountersAre
<1>5. CallFits(p)'
  BY <1>3, <1>4 DEF CallFits, Documents
<1>6. CallsFit'
  <2> DEFINE c == Doing("claimed")
             s == seen[p]
  <2>1. c \in Call /\ s \in [lines : Rows \cup {<< >>}, layers : SUBSET LayerRow] /\ seen' = [seen EXCEPT ![p] = s]
    BY <1>2, <1>3, CountersAre
  <2>2. call' = [call EXCEPT ![p] = c] /\ unsent' \in [Procs -> SUBSET [line : Lines, amount : Nat]]
    BY <1>2, CountersAre
  <2> HIDE DEF c, s
  <2> QED
    BY <1>1, <1>5, <2>1, <2>2, CallTaken
<1>7. CountersFit'
  <2>1. Working' = Working \cup {p} /\ p \notin Working
    BY <1>2, <1>3, <1>4 DEF Working
  <2>2. IsFiniteSet(Working) /\ Cardinality(Working) + crashes <= running /\ running \in Nat /\ crashes \in Nat
    BY DataAssumption DEF Consistent, CountersFit
  <2>3. IsFiniteSet(Working') /\ Cardinality(Working') = Cardinality(Working) + 1 /\ Cardinality(Working) \in Nat
    BY <2>1, <2>2, FS_AddElement, FS_CardinalityType
  <2>4. Cardinality(Working') + crashes' <= running' /\ running' \in Nat
    BY <1>2, <2>2, <2>3
  <2>5. replays' \in 0..MaxReplays
    BY <1>2, CountersAre, DataAssumption
  <2>6. queued' \in BOOLEAN
    BY <1>2, CountersAre
  <2> QED
    BY <1>2, <2>3, <2>4, <2>5, <2>6, CountersAre DEF CountersFit
<1> QED
  BY <1>1, <1>6, <1>7 DEF Consistent

LEMMA ReadKept ==
    ASSUME Consistent, NEW p \in Procs, ReadMovements(p)
    PROVE  Consistent'
PROOF
<1>1. TablesFit' /\ Later /\ lastId' \in Nat
  BY TablesUnmoved, CountersAre DEF ReadMovements, Unmoved, tables
<1>2. /\ call[p].op = "claimed" /\ call' = [call EXCEPT ![p] = Doing("replay")] /\ unsent' = unsent
      /\ seen' = [seen EXCEPT ![p] = [lines |-> lines, layers |-> {}]] /\ lines' = lines
      /\ UNCHANGED <<queued, running, landed, replays, crashes>>
  BY DEF ReadMovements, At, tables, counters
<1>3. ReadRows(lines) /\ lines \in Rows
  BY DEF Consistent, TablesFit, ReadRows
<1> DEFINE c == Doing("replay")
           s == [lines |-> lines, layers |-> {}]
<1>4. c \in Call /\ c.op = "replay" /\ s \in [lines : Rows \cup {<< >>}, layers : SUBSET LayerRow] /\ s.lines = lines
  BY <1>3 DEF Doing, Call, Operation, NoLine
<1>5. call' = [call EXCEPT ![p] = c] /\ seen' = [seen EXCEPT ![p] = s]
  BY <1>2
<1> HIDE DEF c, s
<1>6. call'[p] = c /\ seen'[p] = s
  BY <1>5, CountersAre
<1>7. CallFits(p)'
  <2>1. Snapshot(lines)'
    BY <1>2, <1>3 DEF Snapshot, Outdated, ReadRows
  <2>2. seen'[p].lines = lines' /\ call'[p].op = "replay"
    BY <1>2, <1>4, <1>6
  <2>3. Snapshot(seen[p].lines)'
    BY <2>1, <2>2
  <2> QED
    BY <2>2, <2>3 DEF CallFits, Documents
<1>8. CallsFit'
  BY <1>1, <1>2, <1>4, <1>5, <1>7, CountersAre, CallTaken
<1>9. CountersFit'
  <2>1. call'[p].op = "replay" /\ call' = [call EXCEPT ![p] = call'[p]]
    BY <1>4, <1>5, <1>6
  <2> QED
    BY <1>2, <2>1, CountersAre, WorkersKept
<1> QED
  BY <1>1, <1>8, <1>9 DEF Consistent

LEMMA ReplayKept ==
    ASSUME Consistent, NEW p \in Procs, Replay(p)
    PROVE  Consistent'
PROOF
<1>1. TablesFit' /\ Later /\ unsent' \in [Procs -> SUBSET [line : Lines, amount : Nat]]
  BY ReplayTables
<1>2. lastId' \in Nat
  BY <1>1 DEF TablesFit
<1>3. /\ call[p].op = "replay" /\ call' = [call EXCEPT ![p] = Doing("publish")]
      /\ seen' = [seen EXCEPT ![p] = Nothing]
      /\ UNCHANGED <<queued, running, landed, replays, crashes>>
  BY DEF Replay, At, counters
<1> DEFINE c == Doing("publish")
<1>4. c \in Call /\ c.op = "publish" /\ Nothing \in [lines : Rows \cup {<< >>}, layers : SUBSET LayerRow]
  BY DEF Doing, Call, Operation, NoLine, Nothing
<1>5. call' = [call EXCEPT ![p] = c]
  BY <1>3
<1> HIDE DEF c
<1>6. call'[p] = c
  BY <1>5, CountersAre
<1>7. CallFits(p)'
  BY <1>4, <1>6 DEF CallFits, Documents
<1>8. CallsFit'
  BY <1>1, <1>2, <1>3, <1>4, <1>5, <1>7, CallTaken
<1>9. CountersFit'
  <2>1. call'[p].op = "publish" /\ call' = [call EXCEPT ![p] = call'[p]]
    BY <1>4, <1>5, <1>6
  <2> QED
    BY <1>3, <2>1, CountersAre, WorkersKept
<1> QED
  BY <1>1, <1>8, <1>9 DEF Consistent

LEMMA PublishKept ==
    ASSUME Consistent, NEW p \in Procs, PublishRevision(p)
    PROVE  Consistent'
PROOF
<1>1. PICK v \in unsent[p] :
        /\ told' = IF lines[v.line].type = "issue" THEN [told EXCEPT ![v.line] = v.amount] ELSE told
        /\ unsent' = [unsent EXCEPT ![p] = @ \ {v}]
  BY DEF PublishRevision
<1>2. /\ method' = method /\ opening' = opening /\ lines' = lines /\ layers' = layers /\ trail' = trail
      /\ lastId' = lastId /\ call' = call /\ seen' = seen /\ UNCHANGED <<queued, running, landed, replays, crashes>>
  BY DEF PublishRevision, counters
<1>3. v.line \in Lines /\ v.amount \in Nat
  BY <1>1, CountersAre
<1>4. told' \in [Lines -> Nat]
  BY <1>1, <1>3 DEF Consistent, TablesFit
<1>5. TablesFit'
  BY <1>2, <1>4 DEF Consistent, TablesFit, LayersFit, ReadRows
<1>6. Later /\ lastId' \in Nat
  BY <1>2 DEF Consistent, TablesFit, Later, Outdated
<1>7. unsent' \in [Procs -> SUBSET [line : Lines, amount : Nat]]
  <2> DEFINE rest == unsent[p] \ {v}
  <2>1. rest \in SUBSET [line : Lines, amount : Nat] /\ unsent' = [unsent EXCEPT ![p] = rest]
    BY <1>1, CountersAre
  <2> HIDE DEF rest
  <2> QED
    BY <2>1, CountersAre
<1>8. \A q \in Procs : CallFits(q)'
  BY <1>2, <1>6, CallKept
<1>9. CallsFit'
  BY <1>2, <1>7, <1>8, CountersAre DEF CallsFit
<1>10. CountersFit'
  BY <1>2, CountersAre, WorkersKept
<1> QED
  BY <1>5, <1>9, <1>10 DEF Consistent

LEMMA JobEnds ==
    ASSUME Consistent, NEW p \in Procs, Unmoved, Done(p), call[p].op \in {"claimed", "replay", "publish"},
           unsent' \in [Procs -> SUBSET [line : Lines, amount : Nat]], queued' = queued,
           \/ running' = running - 1 /\ crashes' = crashes
           \/ running' = running /\ crashes' = crashes + 1,
           landed' = landed, replays' = replays, crashes' \in 0..MaxCrashes
    PROVE  Consistent'
PROOF
<1>1. TablesFit' /\ Later /\ lastId' \in Nat
  BY TablesUnmoved, CountersAre DEF Unmoved, tables
<1>2. CallsFit'
  BY <1>1, CallsKept
<1>3. call'[p].op = "idle" /\ \A q \in Procs \ {p} : call'[q] = call[q]
  BY CountersAre DEF Done, Idle
<1>4. Working' = Working \ {p} /\ p \in Working
  BY <1>3 DEF Working
<1>5. IsFiniteSet(Working) /\ Cardinality(Working) + crashes <= running /\ running \in Nat /\ crashes \in Nat
  BY DataAssumption DEF Consistent, CountersFit
<1>6. IsFiniteSet(Working') /\ Cardinality(Working') = Cardinality(Working) - 1 /\ Cardinality(Working) \in Nat
      /\ Cardinality(Working') \in Nat
  BY <1>4, <1>5, FS_RemoveElement, FS_CardinalityType
<1>7. Cardinality(Working') + crashes' <= running' /\ running' \in Nat
  BY <1>5, <1>6
<1>8. queued' \in BOOLEAN
  BY CountersAre
<1>9. CountersFit'
  BY <1>6, <1>7, <1>8, CountersAre DEF CountersFit
<1> QED
  BY <1>1, <1>2, <1>9 DEF Consistent

LEMMA WorkerKept ==
    ASSUME Consistent, NEW p \in Procs, Worker(p)
    PROVE  Consistent'
PROOF
<1>1. CASE CompleteJob(p)
  <2>1. Unmoved /\ Done(p) /\ call[p].op = "publish" /\ running' = running - 1 /\ unsent' = unsent
        /\ UNCHANGED <<queued, landed, replays, crashes>>
    BY <1>1 DEF CompleteJob, At, counters, Unmoved
  <2> QED
    BY <2>1, JobEnds, CountersAre
<1>2. CASE Crash(p)
  <2>1. /\ Unmoved /\ Done(p) /\ call[p].op \in {"claimed", "replay", "publish"} /\ running' = running
        /\ unsent' = [unsent EXCEPT ![p] = {}]
        /\ UNCHANGED <<queued, landed, replays>> /\ crashes < MaxCrashes /\ crashes' = crashes + 1
    BY <1>2 DEF Crash, Unmoved
  <2>2. unsent' \in [Procs -> SUBSET [line : Lines, amount : Nat]]
    BY <2>1, CountersAre
  <2>3. crashes' \in 0..MaxCrashes
    BY <2>1, CountersAre, DataAssumption
  <2> QED
    BY <2>1, <2>2, <2>3, JobEnds
<1> QED
  BY <1>1, <1>2, ClaimKept, ReadKept, ReplayKept, PublishKept DEF Worker

LEMMA ConsistentStep ==
    ASSUME Consistent, [Next]_vars
    PROVE  Consistent'
PROOF
<1>1. CASE UNCHANGED vars
  <2>1. /\ method' = method /\ opening' = opening /\ lines' = lines /\ layers' = layers /\ trail' = trail
        /\ lastId' = lastId /\ told' = told /\ queued' = queued /\ running' = running /\ call' = call
        /\ seen' = seen /\ unsent' = unsent /\ landed' = landed /\ replays' = replays /\ crashes' = crashes
    BY <1>1 DEF vars
  <2>2. TablesFit'
    BY <2>1 DEF Consistent, TablesFit, LayersFit, ReadRows
  <2>3. CallsFit'
    BY <2>1 DEF Consistent, CallsFit, CallFits, Snapshot
  <2>4. CountersFit'
    BY <2>1 DEF Consistent, CountersFit, Working
  <2> QED
    BY <2>2, <2>3, <2>4 DEF Consistent
<1> QED
  BY <1>1, SessionKept, WorkerKept DEF Next

(***************************************************************************)
(* However many requests and workers interleave, rows keep their columns'  *)
(* types: no layer id is used twice, only a shortfall is held as a negative *)
(* quantity, no cost is negative and no finished worker leaves the count   *)
(* of running jobs below zero.                                             *)
(***************************************************************************)
THEOREM AlwaysConsistent == Spec => []Consistent
PROOF
<1>1. Init => Consistent
  BY ConsistentInit
<1>2. Consistent /\ [Next]_vars => Consistent'
  BY ConsistentStep
<1> QED
  BY <1>1, <1>2, PTL DEF Spec

THEOREM TypeCorrect == Spec => []TypeOK
  BY AlwaysConsistent, ConsistentTyped, PTL

-----------------------------------------------------------------------------
(* A replay prices an issue from what is dated up to it.                   *)

LEMMA KnownIs ==
    ASSUME NEW rows \in Rows, NEW d \in Nat, NEW known, known = Known(rows, d)
    PROVE  /\ known \in Rows
           /\ \A l \in Lines : /\ known[l].type = rows[l].type /\ known[l].date = rows[l].date /\ known[l].rate = rows[l].rate
                               /\ known[l].amount = rows[l].amount
                               /\ rows[l].date <= d => known[l] = rows[l]
                               /\ ~(rows[l].date <= d) => known[l].status = "DRAFT"
PROOF
<1>1. ASSUME NEW l \in Lines
      PROVE  /\ known[l] \in LineRow
             /\ known[l].type = rows[l].type /\ known[l].date = rows[l].date /\ known[l].rate = rows[l].rate
             /\ known[l].amount = rows[l].amount
             /\ rows[l].date <= d => known[l] = rows[l]
             /\ ~(rows[l].date <= d) => known[l].status = "DRAFT"
  <2>0. SUFFICES ASSUME NEW old \in LineRow, old = rows[l], NEW new, new = known[l]
                 PROVE  /\ new \in LineRow
                        /\ new.type = old.type /\ new.date = old.date /\ new.rate = old.rate /\ new.amount = old.amount
                        /\ old.date <= d => new = old
                        /\ ~(old.date <= d) => new.status = "DRAFT"
    BY DEF Rows
  <2>1. new = IF old.date <= d THEN old ELSE [old EXCEPT !.status = "DRAFT"]
    BY <2>0 DEF Known
  <2> QED
    BY <2>1 DEF LineRow
<1>2. known = [l \in Lines |-> known[l]]
  BY DEF Known
<1> QED
  BY <1>1, <1>2 DEF Rows

LEMMA LastKnown ==
    ASSUME NEW rows \in Rows, NEW known \in Rows, \A l \in Lines : known[l].date = rows[l].date,
           NEW ls, ls \subseteq Lines, ls # {}
    PROVE  LastOf(known, ls) = LastOf(rows, ls)
PROOF
<1>0. SUFFICES ASSUME NEW x, x = LastOf(known, ls), NEW y, y = LastOf(rows, ls), x # y
               PROVE  FALSE
  OBVIOUS
<1>1. x \in ls /\ (y \in ls \ {x} => known[y].date < known[x].date \/ (known[y].date = known[x].date /\ y < x))
  BY <1>0, LastIsLast
<1>2. y \in ls /\ (x \in ls \ {y} => rows[x].date < rows[y].date \/ (rows[x].date = rows[y].date /\ x < y))
  BY <1>0, LastIsLast
<1>3. x \in Int /\ y \in Int /\ rows[x].date \in Int /\ rows[y].date \in Int /\ known[x].date = rows[x].date /\ known[y].date = rows[y].date
  BY <1>1, <1>2, LinesAssumption DEF Rows, LineRow
<1> QED
  BY <1>0, <1>1, <1>2, <1>3

LEMMA KnownStep ==
    ASSUME NEW rows \in Rows, NEW d \in Nat, NEW known, known = Known(rows, d), NEW l \in Lines, rows[l].date <= d, NEW r
    PROVE  Repost(known, known, r, l) = Repost(rows, rows, r, l)
PROOF
<1>0. SUFFICES ASSUME NEW up, up = UpTo(rows, rows[l].date)
               PROVE  Repost(known, known, r, l) = Repost(rows, rows, r, l)
  OBVIOUS
<1>1. known \in Rows /\ known[l] = rows[l]
      /\ \A k \in Lines : /\ known[k].type = rows[k].type /\ known[k].date = rows[k].date /\ known[k].rate = rows[k].rate
                          /\ rows[k].date <= d => known[k] = rows[k]
  BY KnownIs
<1>2. UpTo(known, rows[l].date) = up
  <2>1. \A k \in Lines : rows[k].date \in Nat
    BY DEF Rows, LineRow
  <2>2. \A k \in Lines : rows[k].date <= rows[l].date => known[k] = rows[k]
    BY <1>1, <2>1
  <2> QED
    BY <1>0, <1>1, <2>2 DEF UpTo, Inward
<1>3. up \subseteq Lines
  BY <1>0 DEF UpTo, Inward
<1>4. up # {} => known[LastOf(known, up)].rate = rows[LastOf(rows, up)].rate
  <2> SUFFICES ASSUME up # {} PROVE known[LastOf(known, up)].rate = rows[LastOf(rows, up)].rate
    OBVIOUS
  <2>1. LastOf(known, up) = LastOf(rows, up)
    BY <1>1, <1>3, LastKnown
  <2>2. LastOf(rows, up) \in Lines
    BY <1>3, LastIs
  <2> QED
    BY <1>1, <2>1, <2>2
<1>5. HistoricCost(known, up) = HistoricCost(rows, up)
  <2> DEFINE a == IF up = {} THEN 0 ELSE known[LastOf(known, up)].rate
             b == IF up = {} THEN 0 ELSE rows[LastOf(rows, up)].rate
  <2>1. a = b
    BY <1>4
  <2>2. HistoricCost(known, up) = IF a > 0 THEN a ELSE IF opening > 0 THEN OpeningCost ELSE 0
    BY DEF HistoricCost
  <2>3. HistoricCost(rows, up) = IF b > 0 THEN b ELSE IF opening > 0 THEN OpeningCost ELSE 0
    BY DEF HistoricCost
  <2> HIDE DEF a, b
  <2> QED
    BY <2>1, <2>2, <2>3
<1>6. HistoricCost(known, UpTo(known, known[l].date)) = HistoricCost(rows, UpTo(rows, rows[l].date))
  BY <1>0, <1>1, <1>2, <1>5
<1> QED
  BY <1>1, <1>6 DEF Repost

LEMMA KnownMoves ==
    ASSUME NEW rows \in Rows, NEW d \in Nat, NEW known, known = Known(rows, d)
    PROVE  /\ Movements(known) = {l \in Movements(rows) : rows[l].date <= d}
           /\ Movements(known) \subseteq Lines /\ Movements(rows) \subseteq Lines
PROOF
<1>1. \A l \in Lines : /\ known[l].type = rows[l].type
                       /\ rows[l].date <= d => known[l] = rows[l]
                       /\ ~(rows[l].date <= d) => known[l].status = "DRAFT"
  BY KnownIs
<1> QED
  BY <1>1 DEF Movements

\* Up to date d the two replays are the same.
LEMMA KnownReplay ==
    ASSUME NEW rows \in Rows, NEW d \in Nat, NEW known, known = Known(rows, d), NEW id
    PROVE  \A ls \in SUBSET Movements(known) : ReplayOf(known, known, id)[ls] = ReplayOf(rows, rows, id)[ls]
PROOF
<1> DEFINE f(ls) == ReplayOf(known, known, id)[ls]
           g(ls) == ReplayOf(rows, rows, id)[ls]
           M == Movements(known)
           T == {ls \in SUBSET M : f(ls) # g(ls)}
<1>1. SUFFICES ASSUME T # {} PROVE FALSE
  OBVIOUS
<1>2. /\ M \subseteq Lines /\ M \subseteq Movements(rows) /\ \A l \in M : rows[l].date <= d
      /\ known \in Rows /\ \A l \in Lines : known[l].date = rows[l].date /\ known[l].rate = rows[l].rate /\ known[l].amount = rows[l].amount
  BY KnownMoves, KnownIs
<1>3. PICK V \in T : \A W \in T : W \subseteq V => W = V
  <2>1. T \subseteq SUBSET M /\ IsFiniteSet(M)
    BY <1>2, LinesAssumption, FS_Subset
  <2> HIDE DEF T, M
  <2> QED
    BY <1>1, <2>1, SmallestMember
<1>4. V \subseteq M /\ f(V) # g(V)
  BY <1>3
<1>5. f(V) = IF V = {} THEN Emptied(known, id) ELSE Step(known, known, f(Rest(known, V)), V)
  BY <1>2, <1>4, ReplayUnfolds
<1>6. g(V) = IF V = {} THEN Emptied(rows, id) ELSE Step(rows, rows, g(Rest(rows, V)), V)
  BY <1>2, <1>4, ReplayUnfolds
<1>7. Emptied(known, id) = Emptied(rows, id)
  BY <1>2 DEF Emptied
<1>8. V # {}
  BY <1>4, <1>5, <1>6, <1>7
<1>9. LastOf(known, V) = LastOf(rows, V) /\ LastOf(rows, V) \in V
  BY <1>2, <1>4, <1>8, LastKnown, LastIs
<1>10. Rest(known, V) = Rest(rows, V) /\ Rest(rows, V) \subseteq V /\ Rest(rows, V) # V
  BY <1>9 DEF Rest
<1>11. f(Rest(rows, V)) = g(Rest(rows, V))
  BY <1>3, <1>4, <1>10
<1> HIDE DEF f, g, T
<1>12. Step(known, known, f(Rest(known, V)), V) = Step(rows, rows, g(Rest(rows, V)), V)
  <2>0. SUFFICES ASSUME NEW r, r = g(Rest(rows, V)), NEW l, l = LastOf(rows, V)
                 PROVE  Step(known, known, f(Rest(known, V)), V) = Step(rows, rows, r, V)
    OBVIOUS
  <2>1. l \in Lines /\ rows[l].date <= d
    BY <1>2, <1>4, <1>9, <2>0
  <2>2. Repost(known, known, r, l) = Repost(rows, rows, r, l)
    BY <2>1, KnownStep
  <2>3. f(Rest(known, V)) = r
    BY <1>10, <1>11, <2>0
  <2> QED
    BY <1>9, <2>0, <2>2, <2>3 DEF Step
<1> QED
  BY <1>4, <1>5, <1>6, <1>8, <1>12

\* What comes later sets no amount but its own.
LEMMA LaterReplay ==
    ASSUME NEW rows \in Rows, NEW d \in Nat, NEW id, NEW done, done = {k \in Movements(rows) : rows[k].date <= d},
           NEW l \in done
    PROVE  ReplayOf(rows, rows, id)[Movements(rows)].amount[l] = ReplayOf(rows, rows, id)[done].amount[l]
PROOF
<1> DEFINE g(ls) == ReplayOf(rows, rows, id)[ls]
           M == Movements(rows)
           Same(ls) == DOMAIN g(ls).amount = Lines /\ (done \subseteq ls => g(ls).amount[l] = g(done).amount[l])
           T == {ls \in SUBSET M : ~Same(ls)}
<1>1. SUFFICES ASSUME T # {} PROVE FALSE
  <2>1. M \in SUBSET M /\ done \subseteq M
    OBVIOUS
  <2> QED
    BY <1>1, <2>1
<1>2. M \subseteq Lines /\ done \subseteq M
  BY DEF Movements
<1>3. PICK V \in T : \A W \in T : W \subseteq V => W = V
  <2>1. T \subseteq SUBSET M /\ IsFiniteSet(M)
    BY <1>2, LinesAssumption, FS_Subset
  <2> HIDE DEF T, M
  <2> QED
    BY <1>1, <2>1, SmallestMember
<1>4. V \subseteq M /\ ~Same(V)
  BY <1>3
<1>5. g(V) = IF V = {} THEN Emptied(rows, id) ELSE Step(rows, rows, g(Rest(rows, V)), V)
  BY <1>2, <1>4, ReplayUnfolds
<1>6. DOMAIN Emptied(rows, id).amount = Lines
  BY DEF Emptied
<1>7. V # {}
  <2> SUFFICES ASSUME V = {} PROVE FALSE
    OBVIOUS
  <2>1. ~(done \subseteq V)
    OBVIOUS
  <2> QED
    BY <1>4, <1>5, <1>6, <2>1
<1> DEFINE U == Rest(rows, V)
           k == LastOf(rows, V)
<1>8. k \in V /\ U \subseteq V /\ U # V /\ V = U \cup {k} /\ k \notin U
      /\ \A e \in V \ {k} : rows[e].date < rows[k].date \/ rows[e].date = rows[k].date
  BY <1>2, <1>4, <1>7, LastIsLast DEF Rest
<1>9. Same(U)
  <2>1. U \in SUBSET M /\ U \subseteq V /\ U # V
    BY <1>4, <1>8
  <2> HIDE DEF Same, U
  <2> QED
    BY <1>3, <2>1
<1>10. g(V) = Repost(rows, rows, g(U), k)
  BY <1>5, <1>7 DEF Step
<1> HIDE DEF U, k, g
<1>11. PICK a : g(V).amount = [g(U).amount EXCEPT ![k] = a]
  <2> DEFINE m == rows[k]
             h == HistoricCost(rows, UpTo(rows, m.date))
             x == IssueAmount(g(U).layers, m.qty, h)
  <2>1. CASE m.type = "receipt"
    <3>1. g(V).amount = [g(U).amount EXCEPT ![k] = m.qty * m.rate]
      BY <1>10, <2>1 DEF Repost
    <3> QED
      BY <3>1
  <2>2. CASE m.type # "receipt"
    <3>1. g(V).amount = [g(U).amount EXCEPT ![k] = x]
      BY <1>10, <2>2 DEF Repost
    <3> QED
      BY <3>1
  <2> QED
    BY <2>1, <2>2
<1>12. DOMAIN g(V).amount = Lines
  BY <1>9, <1>11
<1>13. done \subseteq V /\ g(V).amount[l] # g(done).amount[l]
  BY <1>4, <1>12
<1>14. k \notin done
  <2> SUFFICES ASSUME k \in done PROVE FALSE
    OBVIOUS
  <2>1. V # done
    BY <1>13
  <2>2. PICK e \in V : e \notin done
    BY <1>13, <2>1
  <2>3. e \in M /\ k \in M /\ e \in V \ {k} /\ rows[k].date <= d /\ ~(rows[e].date <= d)
    BY <1>4, <2>2
  <2>4. rows[e].date \in Nat /\ rows[k].date \in Nat
    BY <1>2, <2>3 DEF Rows, LineRow
  <2>5. rows[e].date < rows[k].date \/ rows[e].date = rows[k].date
    BY <1>8, <2>3
  <2> QED
    BY <2>3, <2>4, <2>5
<1>15. done \subseteq U /\ l \in Lines
  BY <1>2, <1>8, <1>13, <1>14
<1>16. g(U).amount[l] = g(done).amount[l] /\ DOMAIN g(U).amount = Lines
  BY <1>9, <1>15
<1>17. g(V).amount[l] = g(U).amount[l]
  BY <1>11, <1>14, <1>15, <1>16
<1> QED
  BY <1>13, <1>16, <1>17

(***************************************************************************)
(* A replay gives an issue the cost it would have if no document dated     *)
(* after it had been posted: not from the layers, which it builds in the   *)
(* order of the dates, and not from the history it falls back on.          *)
(***************************************************************************)
THEOREM PricedFromThePast == Spec => NoPriceFromTheFuture
PROOF
<1> DEFINE Past == \A p \in Procs : Replay(p) =>
              \A l \in Lines : l \in Movements(lines) /\ lines[l].type = "issue" =>
                  LET known == Known(lines, lines[l].date) IN
                  Replayed(lines, lines, lastId).amount[l] = Replayed(known, known, lastId).amount[l]
<1>1. Consistent => Past
  <2> SUFFICES ASSUME Consistent, NEW l \in Lines, l \in Movements(lines), NEW known, known = Known(lines, lines[l].date)
               PROVE  Replayed(lines, lines, lastId).amount[l] = Replayed(known, known, lastId).amount[l]
    OBVIOUS
  <2>1. lines \in Rows /\ lines[l].date \in Nat
    BY DEF Consistent, TablesFit, ReadRows, Rows, LineRow
  <2>2. Movements(known) = {k \in Movements(lines) : lines[k].date <= lines[l].date}
    BY <2>1, KnownMoves
  <2>3. l \in Movements(known)
    BY <2>1, <2>2
  <2>4. ReplayOf(lines, lines, lastId)[Movements(lines)].amount[l] = ReplayOf(lines, lines, lastId)[Movements(known)].amount[l]
    BY <2>1, <2>2, <2>3, LaterReplay
  <2>5. ReplayOf(known, known, lastId)[Movements(known)] = ReplayOf(lines, lines, lastId)[Movements(known)]
    BY <2>1, KnownReplay
  <2> QED
    BY <2>4, <2>5 DEF Replayed
<1>2. Consistent /\ [Next]_vars => [Past]_vars
  BY <1>1
<1> HIDE DEF Past
<1>3. Spec => [][Past]_vars
  BY <1>2, AlwaysConsistent, PTL DEF Spec
<1> QED
  BY <1>3 DEF NoPriceFromTheFuture, Past
=============================================================================
