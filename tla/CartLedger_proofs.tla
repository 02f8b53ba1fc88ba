--------------------------- MODULE CartLedger_proofs ---------------------------
(***************************************************************************)
(* The ledger of reservations: what the rows of the carts hold of a        *)
(* variant against its counter.  What they hold is a sum over rows, and    *)
(* the proofs are about how a step changes it: by one row of the variant,  *)
(* or by two when a merge adds one and deletes one.  At the end, the limit *)
(* of a guest cart, which counts rows and additions in flight.             *)
(***************************************************************************)
EXTENDS CartReservation_proofs, FiniteSetTheorems

USE DEF Idle

(* A sum over a finite set is a natural number; no summand exceeds it; and *)
(* it changes as one summand does.                                         *)
LEMMA CopiesOfOne ==
    ASSUME NEW i, NEW n \in Nat
    PROVE  IsFiniteSet({i} \X (1..n)) /\ Cardinality({i} \X (1..n)) = n
<1>1. IsFiniteSet({i}) /\ Cardinality({i}) = 1
  BY FS_Singleton
<1>2. IsFiniteSet(1..n) /\ Cardinality(1..n) = n
  <2>1. 1 \in Int /\ n \in Int
    OBVIOUS
  <2>2. IsFiniteSet(1..n) /\ Cardinality(1..n) = IF 1 > n THEN 0 ELSE n - 1 + 1
    BY <2>1, FS_Interval
  <2> QED
    BY <2>2
<1>3. /\ IsFiniteSet({i} \X (1..n))
      /\ Cardinality({i} \X (1..n)) = Cardinality({i}) * Cardinality(1..n)
  BY <1>1, <1>2, FS_Product
<1> QED
  BY <1>1, <1>2, <1>3

(* A total of finitely many counts is a number.                            *)
LEMMA TotalIsNat ==
    ASSUME NEW D, IsFiniteSet(D), NEW w \in [D -> Nat]
    PROVE  IsFiniteSet(Copies(w)) /\ Total(w) \in Nat
<1> DEFINE f == [i \in D |-> {i} \X (1..w[i])]
           all == {{i} \X (1..w[i]) : i \in D}
<1>1. f \in Surjection(D, all)
  BY DEF Surjection
<1>2. IsFiniteSet(all)
  BY <1>1, FS_Surjection
<1>3. \A i \in D : IsFiniteSet({i} \X (1..w[i]))
  BY CopiesOfOne
<1>4. \A T \in all : IsFiniteSet(T)
  BY <1>3
<1>5. IsFiniteSet(UNION all)
  BY <1>2, <1>4, FS_UNION
<1>6. Copies(w) = UNION all
  BY DEF Copies
<1> QED
  BY <1>5, <1>6, FS_CardinalityType DEF Total

(* None of the counts is more than their total.                            *)
LEMMA TotalAtLeast ==
    ASSUME NEW D, IsFiniteSet(D), NEW w \in [D -> Nat], NEW i \in D
    PROVE  w[i] <= Total(w)
<1>1. {i} \X (1..w[i]) \in SUBSET Copies(w)
  BY DEF Copies
<1>2. IsFiniteSet(Copies(w))
  BY TotalIsNat
<1>3. Cardinality({i} \X (1..w[i])) = w[i]
  BY CopiesOfOne
<1> QED
  BY <1>1, <1>2, <1>3, FS_Subset DEF Total

(* One count can be taken out of the total.                                *)
LEMMA TotalWithout ==
    ASSUME NEW D, IsFiniteSet(D), NEW w \in [D -> Nat], NEW i \in D
    PROVE  Total(w) = Total([w EXCEPT ![i] = 0]) + w[i]
<1> DEFINE x == [w EXCEPT ![i] = 0]
           one == {i} \X (1..w[i])
<1>1. x \in [D -> Nat]
  OBVIOUS
<1>2. x[i] = 0 /\ \A j \in D \ {i} : x[j] = w[j]
  OBVIOUS
<1>3. IsFiniteSet(Copies(x)) /\ IsFiniteSet(one) /\ Cardinality(one) = w[i]
  BY <1>1, TotalIsNat, CopiesOfOne
<1>4. Copies(w) = Copies(x) \cup one
  <2>1. \A j \in D \ {i} : {j} \X (1..x[j]) = {j} \X (1..w[j])
    BY <1>2
  <2>2. {i} \X (1..x[i]) = {}
    BY <1>2
  <2>3. DOMAIN x = D /\ DOMAIN w = D
    OBVIOUS
  <2> HIDE DEF x
  <2> QED
    BY <2>1, <2>2, <2>3 DEF Copies
<1>5. Copies(x) \cap one = {}
  <2> SUFFICES ASSUME NEW c \in Copies(x), c \in one PROVE FALSE
    OBVIOUS
  <2>1. PICK j \in D : c \in {j} \X (1..x[j])
    BY DEF Copies
  <2>2. j = i /\ 1..x[i] = {}
    BY <1>2, <2>1
  <2> QED
    BY <2>1, <2>2
<1> HIDE DEF x, one
<1>6. Cardinality(Copies(x) \cap one) = 0
  BY <1>5, FS_EmptySet
<1>7. Cardinality(Copies(x)) \in Nat
  BY <1>3, FS_CardinalityType
<1>8. Cardinality(Copies(x) \cup one)
        = Cardinality(Copies(x)) + Cardinality(one) - Cardinality(Copies(x) \cap one)
  BY <1>3, FS_Union
<1>9. Cardinality(Copies(w)) = Cardinality(Copies(x)) + w[i]
  BY <1>3, <1>4, <1>6, <1>7, <1>8
<1> QED
  BY <1>9 DEF Total, x

(* If one count changes, the total changes by as much.                     *)
LEMMA TotalChanges ==
    ASSUME NEW D, IsFiniteSet(D), NEW w \in [D -> Nat], NEW x \in [D -> Nat], NEW i \in D,
           \A j \in D \ {i} : x[j] = w[j]
    PROVE  Total(x) - x[i] = Total(w) - w[i]
<1>1. [x EXCEPT ![i] = 0] = [w EXCEPT ![i] = 0]
  OBVIOUS
<1>2. [w EXCEPT ![i] = 0] \in [D -> Nat]
  OBVIOUS
<1>3. Total([w EXCEPT ![i] = 0]) \in Nat
  BY <1>2, TotalIsNat
<1>4. Total(w) = Total([w EXCEPT ![i] = 0]) + w[i]
  BY TotalWithout
<1>5. Total(x) = Total([x EXCEPT ![i] = 0]) + x[i]
  BY TotalWithout
<1>6. w[i] \in Nat /\ x[i] \in Nat
  OBVIOUS
<1> QED
  BY <1>1, <1>3, <1>4, <1>5, <1>6

(* Summands of zero may be left out.                                       *)
LEMMA TotalOfPart ==
    ASSUME NEW D, NEW E \in SUBSET D, NEW w, w = [i \in E |-> w[i]], NEW x, x = [i \in D |-> x[i]],
           \A i \in E : x[i] = w[i], \A i \in D \ E : x[i] = 0
    PROVE  Total(w) = Total(x)
<1>1. \A i \in E : {i} \X (1..x[i]) = {i} \X (1..w[i])
  OBVIOUS
<1>2. \A i \in D \ E : {i} \X (1..x[i]) = {}
  OBVIOUS
<1>3. DOMAIN w = E /\ DOMAIN x = D
  OBVIOUS
<1>4. Copies(w) = Copies(x)
  BY <1>1, <1>2, <1>3 DEF Copies
<1> QED
  BY <1>4 DEF Total

-----------------------------------------------------------------------------
(* What each row holds of a variant; none, if it is of another variant, of *)
(* a digital one, or not reserved.                                         *)
Weight(rows, v) == [i \in ItemIds |-> IF i \in Holding(rows, v) THEN rows[i].qty ELSE 0]
HeldIn(rows, v) == Total(Weight(rows, v))

(* What the rows hold of a variant is counted row by row.                  *)
LEMMA WeightType ==
    ASSUME NEW rows \in Rows, NEW v
    PROVE  Weight(rows, v) \in [ItemIds -> Nat] /\ HeldIn(rows, v) \in Nat
<1>1. \A i \in Holding(rows, v) : i \in ItemIds /\ rows[i].qty \in Nat
  BY DEF Holding, Live, Rows, Row
<1>2. Weight(rows, v) \in [ItemIds -> Nat]
  BY <1>1 DEF Weight
<1> QED
  BY <1>2, TotalIsNat, BoundAssumption DEF HeldIn

(* Rows that hold nothing of the variant do not count.                     *)
LEMMA HeldIsSum ==
    ASSUME NEW rows, NEW v
    PROVE  Total([i \in Holding(rows, v) |-> rows[i].qty]) = HeldIn(rows, v)
<1> DEFINE w == [i \in Holding(rows, v) |-> rows[i].qty] x == Weight(rows, v)
<1>1. Holding(rows, v) \in SUBSET ItemIds
  BY DEF Holding, Live
<1>2. w = [i \in Holding(rows, v) |-> w[i]] /\ x = [i \in ItemIds |-> x[i]]
  BY DEF Weight
<1>3. /\ \A i \in Holding(rows, v) : x[i] = w[i]
      /\ \A i \in ItemIds \ Holding(rows, v) : x[i] = 0
  BY <1>1 DEF Weight
<1> HIDE DEF w, x
<1>4. Total(w) = Total(x)
  BY <1>1, <1>2, <1>3, TotalOfPart
<1> QED
  BY <1>4 DEF w, x, HeldIn

(* HeldBy of the model is the total of the weights of the rows.            *)
LEMMA HeldByIsSum == \A v : HeldBy(v) = HeldIn(items, v) /\ HeldBy(v)' = HeldIn(items', v)
  BY HeldIsSum DEF HeldBy

(* A handler that changes one row changes what is held by that row's       *)
(* change.                                                                 *)
LEMMA HeldChanges ==
    ASSUME NEW before \in Rows, NEW after \in Rows, NEW v, NEW i \in ItemIds,
           \A j \in ItemIds \ {i} : Weight(after, v)[j] = Weight(before, v)[j]
    PROVE  HeldIn(after, v) - Weight(after, v)[i] = HeldIn(before, v) - Weight(before, v)[i]
  BY WeightType, TotalChanges, BoundAssumption DEF HeldIn

(* A handler that changes no weight changes nothing of what is held.       *)
LEMMA HeldStays ==
    ASSUME NEW before, NEW after, NEW v,
           \A j \in ItemIds : Weight(after, v)[j] = Weight(before, v)[j]
    PROVE  HeldIn(after, v) = HeldIn(before, v)
<1>1. Weight(after, v) = Weight(before, v)
  BY DEF Weight
<1> QED
  BY <1>1 DEF HeldIn

(* A row that stays as it is weighs the same.                              *)
LEMMA SameRowSameWeight ==
    ASSUME NEW before, NEW after, NEW v, NEW j \in ItemIds, after[j] = before[j]
    PROVE  Weight(after, v)[j] = Weight(before, v)[j]
  BY DEF Weight, Holding, Live

(* The weight of a single row.                                             *)
LEMMA RowWeight ==
    ASSUME NEW rows, NEW v, NEW i \in ItemIds
    PROVE  /\ rows[i] = NoItem => Weight(rows, v)[i] = 0
           /\ rows[i] # NoItem =>
                Weight(rows, v)[i] = IF v \in Physical /\ rows[i].variant = v /\ rows[i].isStockReserved
                                     THEN rows[i].qty ELSE 0
  BY DEF Weight, Holding, Live

-----------------------------------------------------------------------------
(* A cart has one row of a variant, by the unique key; a list of rows that *)
(* a query returned is current when every row still is as it was read.     *)
OneRowPerVariant(rows) ==
    \A i, j \in Live(rows) : rows[i].variant = rows[j].variant => i = j
UniqueRows ==
    \A i, j \in Live(items) :
        items[i].cart = items[j].cart /\ items[i].variant = items[j].variant => i = j
Current(rows) == OneRowPerVariant(rows) /\ \A i \in Live(rows) : rows[i] = items[i]

(* A query that is made now finds the rows as they are.                    *)
LEMMA QueriesAreCurrent ==
    ASSUME UniqueRows
    PROVE  /\ \A c : Current(RowsOf(c))
           /\ \A i : Current(OnlyRow(i))
  BY DEF UniqueRows, Current, OneRowPerVariant, RowsOf, OnlyRow, Live

(* A cart has at most one row of a variant, so what it holds of it is the  *)
(* quantity of that row.                                                   *)
LEMMA HeldQtyIsWeight ==
    ASSUME NEW rows \in Rows, OneRowPerVariant(rows), NEW v
    PROVE  /\ Holding(rows, v) = {} => HeldQty(rows, v) = 0
           /\ \A i \in Holding(rows, v) : /\ Holding(rows, v) = {i}
                                          /\ HeldQty(rows, v) = rows[i].qty
<1>1. \A i, j \in Holding(rows, v) : i = j
  BY DEF OneRowPerVariant, Holding
<1>2. \A i \in Holding(rows, v) : Holding(rows, v) = {i} /\ (CHOOSE j \in Holding(rows, v) : TRUE) = i
  BY <1>1
<1> QED
  BY <1>2 DEF HeldQty

(* When current rows are deleted, or no longer hold what they held, the    *)
(* sum falls by what they held.                                            *)
LEMMA HeldFalls ==
    ASSUME NEW before \in Rows, NEW after \in Rows, NEW rows \in Rows, OneRowPerVariant(rows),
           \A i \in Live(rows) : rows[i] = before[i],
           NEW v,
           \A i \in ItemIds \ Live(rows) : after[i] = before[i],
           \A i \in Live(rows) : i \notin Holding(after, v)
    PROVE  /\ HeldIn(after, v) = HeldIn(before, v) - HeldQty(rows, v)
           /\ HeldQty(rows, v) <= HeldIn(before, v)
<1>1. /\ HeldIn(before, v) \in Nat /\ HeldIn(after, v) \in Nat
      /\ Weight(before, v) \in [ItemIds -> Nat]
  BY WeightType
<1>2. \A i \in Live(rows) : i \in Holding(rows, v) <=> i \in Holding(before, v)
  BY DEF Holding, Live
<1>3. \A j \in ItemIds : j \notin Live(rows) => Weight(after, v)[j] = Weight(before, v)[j]
  BY SameRowSameWeight
<1>4. \A j \in Live(rows) : j \in ItemIds /\ Weight(after, v)[j] = 0
  BY DEF Weight, Live
<1>5. CASE Holding(rows, v) = {}
  <2>1. \A j \in Live(rows) : Weight(before, v)[j] = 0
    BY <1>2, <1>5 DEF Weight, Live
  <2>2. HeldIn(after, v) = HeldIn(before, v)
    BY <1>3, <1>4, <2>1, HeldStays
  <2>3. HeldQty(rows, v) = 0
    BY <1>5, HeldQtyIsWeight
  <2> QED
    BY <1>1, <2>2, <2>3
<1>6. ASSUME NEW i \in Holding(rows, v)
      PROVE  /\ HeldIn(after, v) = HeldIn(before, v) - HeldQty(rows, v)
             /\ HeldQty(rows, v) <= HeldIn(before, v)
  <2>1. i \in Live(rows) /\ i \in ItemIds /\ Holding(rows, v) = {i} /\ HeldQty(rows, v) = rows[i].qty
    BY <1>6, HeldQtyIsWeight DEF Holding, Live
  <2>2. \A j \in Live(rows) \ {i} : Weight(before, v)[j] = 0
    BY <1>2, <2>1 DEF Weight, Live
  <2>3. \A j \in ItemIds \ {i} : Weight(after, v)[j] = Weight(before, v)[j]
    BY <1>3, <1>4, <2>2
  <2>4. Weight(after, v)[i] = 0 /\ Weight(before, v)[i] = HeldQty(rows, v)
    <3>1. i \in Holding(before, v) /\ rows[i] = before[i]
      BY <1>2, <2>1
    <3> QED
      BY <1>4, <2>1, <3>1 DEF Weight
  <2>5. HeldIn(after, v) - Weight(after, v)[i] = HeldIn(before, v) - Weight(before, v)[i]
    BY <2>1, <2>3, HeldChanges
  <2>6. Weight(before, v)[i] <= HeldIn(before, v)
    BY <1>1, <2>1, TotalAtLeast, BoundAssumption DEF HeldIn
  <2> QED
    BY <1>1, <2>4, <2>5, <2>6
<1> QED
  BY <1>5, <1>6

-----------------------------------------------------------------------------
(* What a step does to the ledger of each variant.  The counter never      *)
(* sinks further than the sum; and it moves with the sum when every        *)
(* physical row is reserved and the counter covers what is held.           *)
CoverStep ==
    \A v \in Variants : reserved'[v] - reserved[v] >= HeldIn(items', v) - HeldIn(items, v)
Settled ==
    /\ CoverStep
    /\ \A v \in Variants :
         AllReserved /\ HeldIn(items, v) <= reserved[v]
             => reserved'[v] - reserved[v] = HeldIn(items', v) - HeldIn(items, v)

(* The type invariant makes what is held, and the counters, numbers.       *)
LEMMA SumsAreNat ==
    ASSUME TypeOK, TypeOK', NEW v \in Variants
    PROVE  /\ HeldIn(items, v) \in Nat /\ HeldIn(items', v) \in Nat
           /\ reserved[v] \in Int /\ reserved'[v] \in Int
<1>1. items \in Rows /\ items' \in Rows
  BY DEF TypeOK
<1>2. HeldIn(items, v) \in Nat /\ HeldIn(items', v) \in Nat
  BY <1>1, WeightType
<1> QED
  BY <1>2 DEF TypeOK

(* Nothing is written.                                                     *)
LEMMA NothingSettles ==
    ASSUME TypeOK, TypeOK', UNCHANGED <<reserved, items>>
    PROVE  Settled
  BY SumsAreNat DEF Settled, CoverStep

(* The row i is written, and only it: what is held changes by its weight.  *)
LEMMA OneRowChanges ==
    ASSUME TypeOK, TypeOK', NEW i \in ItemIds, \A j \in ItemIds \ {i} : items'[j] = items[j],
           NEW v \in Variants
    PROVE  /\ HeldIn(items', v) - HeldIn(items, v) = Weight(items', v)[i] - Weight(items, v)[i]
           /\ Weight(items', v)[i] \in Nat /\ Weight(items, v)[i] \in Nat
<1>1. items \in Rows /\ items' \in Rows
  BY DEF TypeOK
<1>2. \A j \in ItemIds \ {i} : Weight(items', v)[j] = Weight(items, v)[j]
  BY SameRowSameWeight
<1>3. HeldIn(items', v) - Weight(items', v)[i] = HeldIn(items, v) - Weight(items, v)[i]
  BY <1>1, <1>2, HeldChanges
<1>4. /\ Weight(items', v)[i] \in Nat /\ Weight(items, v)[i] \in Nat
      /\ HeldIn(items', v) \in Nat /\ HeldIn(items, v) \in Nat
  BY <1>1, WeightType
<1> QED
  BY <1>3, <1>4

(* When its weight and the counter move together, the step settles.        *)
LEMMA OneRowSettles ==
    ASSUME TypeOK, TypeOK', NEW i \in ItemIds, \A j \in ItemIds \ {i} : items'[j] = items[j],
           \A v \in Variants :
               /\ reserved'[v] - reserved[v] >= Weight(items', v)[i] - Weight(items, v)[i]
               /\ AllReserved
                    => reserved'[v] - reserved[v] = Weight(items', v)[i] - Weight(items, v)[i]
    PROVE  Settled
  BY OneRowChanges DEF Settled, CoverStep

(* addToCart and addToGuestCart, into a row or as a new one.               *)
LEMMA AddSettles ==
    ASSUME EInv, NEW p \in Procs, req[p] \in AddRequest, ReserveIntoCart(p)
    PROVE  Settled
<1> DEFINE r == req[p]  v == req[p].variant
<1>1. TypeOK /\ TypeOK'
  BY ReserveIntoCartKeeps DEF EInv, Kept
<1>2. v \in Variants /\ r.qty \in Nat
  BY DEF AddRequest
<1>3. /\ \A w \in Variants \ {v} : reserved'[w] = reserved[w]
      /\ v \in Physical => reserved'[v] = reserved[v] + r.qty
      /\ v \notin Physical => reserved'[v] = reserved[v]
      /\ \A w \in Variants : reserved[w] \in Int
  BY <1>1, <1>2 DEF ReserveIntoCart, TypeOK
<1>4. PICK c \in TargetCart(r.owner, r.cart) :
        \/ \E i \in ItemAt(c, v) : items' = [items EXCEPT ![i].qty = @ + r.qty]
        \/ \E i \in ItemIds \ issued : items' = [items EXCEPT ![i] = NewRow(c, v, r.qty, TRUE)]
  BY DEF ReserveIntoCart
<1>5. ASSUME NEW i \in ItemAt(c, v), items' = [items EXCEPT ![i].qty = @ + r.qty]
      PROVE  Settled
  <2>1. i \in ItemIds /\ items[i] \in Row /\ items[i] # NoItem /\ items[i].variant = v
    BY <1>1 DEF ItemAt, Live, TypeOK, Rows
  <2>2. /\ \A j \in ItemIds \ {i} : items'[j] = items[j]
        /\ items'[i] = [items[i] EXCEPT !.qty = @ + r.qty]
    BY <1>1, <1>5, <2>1 DEF TypeOK, Rows
  <2>3. /\ items'[i] \in Row /\ items'[i].qty = items[i].qty + r.qty
        /\ items'[i].variant = v /\ items'[i].isStockReserved = items[i].isStockReserved
        /\ items[i].qty \in Nat
    BY <1>2, <2>1, <2>2 DEF Row
  <2>4. items'[i] # NoItem
    BY <2>3, NullAssumption
  <2>5. AllReserved /\ v \in Physical => items[i].isStockReserved
    BY <2>1 DEF AllReserved, Live
  <2>6. ASSUME NEW w \in Variants
        PROVE  /\ reserved'[w] - reserved[w] >= Weight(items', w)[i] - Weight(items, w)[i]
               /\ AllReserved
                    => reserved'[w] - reserved[w] = Weight(items', w)[i] - Weight(items, w)[i]
    <3>1. /\ Weight(items, w)[i] = IF w \in Physical /\ v = w /\ items[i].isStockReserved
                                   THEN items[i].qty ELSE 0
          /\ Weight(items', w)[i] = IF w \in Physical /\ v = w /\ items[i].isStockReserved
                                    THEN items[i].qty + r.qty ELSE 0
      BY <2>1, <2>3, <2>4, RowWeight
    <3>2. r.qty \in Nat /\ reserved[w] \in Int /\ items[i].qty \in Nat
      BY <1>2, <1>3, <2>3
    <3> HIDE DEF r, v
    <3>3. CASE w \in Physical /\ v = w
      <4>1. reserved'[w] = reserved[w] + r.qty
        BY <1>3, <3>3
      <4>2. CASE items[i].isStockReserved
        BY <3>1, <3>2, <3>3, <4>1, <4>2
      <4>3. CASE ~items[i].isStockReserved
        BY <2>5, <3>1, <3>2, <3>3, <4>1, <4>3
      <4> QED
        BY <4>2, <4>3
    <3>4. CASE ~(w \in Physical /\ v = w)
      BY <1>3, <3>1, <3>2, <3>4
    <3> QED
      BY <3>3, <3>4
  <2> QED
    BY <1>1, <2>1, <2>2, <2>6, OneRowSettles
<1>6. ASSUME NEW i \in ItemIds \ issued, items' = [items EXCEPT ![i] = NewRow(c, v, r.qty, TRUE)]
      PROVE  Settled
  <2>1. items[i] = NoItem
    BY DEF EInv, OneKeyPerRow
  <2>2. /\ \A j \in ItemIds \ {i} : items'[j] = items[j]
        /\ items'[i] = NewRow(c, v, r.qty, TRUE)
    BY <1>1, <1>6 DEF TypeOK, Rows
  <2>3. items'[i] \in Row
    <3>1. c \in CartIds
      BY <1>1, CartsAreCarts DEF AddRequest
    <3> QED
      BY <1>2, <2>2, <3>1 DEF AddRequest, NewRow, Row
  <2>4. items'[i] # NoItem
    BY <2>3, NullAssumption
  <2>5. ASSUME NEW w \in Variants
        PROVE  reserved'[w] - reserved[w] = Weight(items', w)[i] - Weight(items, w)[i]
    <3>1. /\ Weight(items, w)[i] = 0
          /\ Weight(items', w)[i] = IF w \in Physical /\ v = w THEN r.qty ELSE 0
      BY <2>1, <2>2, <2>4, RowWeight DEF NewRow
    <3> QED
      BY <1>2, <1>3, <3>1
  <2>6. \A w \in Variants : /\ Weight(items', w)[i] \in Nat /\ Weight(items, w)[i] \in Nat
                            /\ reserved'[w] \in Int /\ reserved[w] \in Int
    <3>1. items \in Rows /\ items' \in Rows
      BY <1>1 DEF TypeOK
    <3> QED
      BY <1>1, <3>1, WeightType DEF TypeOK
  <2>7. \A w \in Variants :
          /\ reserved'[w] - reserved[w] >= Weight(items', w)[i] - Weight(items, w)[i]
          /\ AllReserved => reserved'[w] - reserved[w] = Weight(items', w)[i] - Weight(items, w)[i]
    BY <2>5, <2>6
  <2> QED
    BY <1>1, <2>2, <2>7, OneRowSettles
<1> QED
  BY <1>4, <1>5, <1>6

(* updateCartItem, from the row as it still is.                            *)
LEMMA UpdateSettles ==
    ASSUME EInv, NEW p \in Procs, req[p] \in UpdateRequest, items[req[p].item] = req[p].row,
           UpdateCartItem(p)
    PROVE  Settled
<1> DEFINE r == req[p]  v == req[p].row.variant  i == req[p].item
           need == IF r.row.isStockReserved THEN r.qty - r.row.qty ELSE r.qty
           held == r.row.isStockReserved \/ v \in Physical
<1>1. TypeOK /\ TypeOK'
  BY UpdateCartItemKeeps DEF EInv, Kept
<1>2. /\ i \in ItemIds /\ r.row \in Row /\ r.qty \in Nat /\ r.row # NoItem
      /\ v \in Variants /\ r.row.qty \in Nat /\ r.row.isStockReserved \in BOOLEAN
  BY NullAssumption DEF UpdateRequest, Row
<1>3. need \in Int
  BY <1>2
<1>4. reserved' = [reserved EXCEPT ![v] = IF v \in Physical THEN @ + need ELSE @]
  BY DEF UpdateCartItem
<1>5. /\ \A w \in Variants \ {v} : reserved'[w] = reserved[w]
      /\ v \in Physical => reserved'[v] = reserved[v] + need
      /\ v \notin Physical => reserved'[v] = reserved[v]
      /\ \A w \in Variants : reserved[w] \in Int
  <2> HIDE DEF need
  <2> QED
    BY <1>1, <1>2, <1>3, <1>4 DEF TypeOK
<1>6. /\ \A j \in ItemIds \ {i} : items'[j] = items[j]
      /\ items'[i] = NewRow(r.row.cart, v, r.qty, held)
  BY <1>1, <1>2 DEF UpdateCartItem, TypeOK, Rows
<1>7. items'[i] \in Row
  BY <1>2, <1>6 DEF NewRow, Row, UpdateRequest
<1>8. items'[i] # NoItem
  BY <1>7, NullAssumption
<1>9. ASSUME NEW w \in Variants
      PROVE  reserved'[w] - reserved[w] = Weight(items', w)[i] - Weight(items, w)[i]
  <2>1. Weight(items, w)[i] = IF w \in Physical /\ v = w /\ r.row.isStockReserved
                              THEN r.row.qty ELSE 0
    BY <1>2, RowWeight
  <2>2. Weight(items', w)[i] = IF w \in Physical /\ v = w THEN r.qty ELSE 0
    <3>1. /\ items'[i].variant = v /\ items'[i].qty = r.qty
          /\ items'[i].isStockReserved = held
      BY <1>6 DEF NewRow
    <3>2. w \in Physical /\ v = w => held
      OBVIOUS
    <3> HIDE DEF r, v, held
    <3> QED
      BY <1>2, <1>8, <3>1, <3>2, RowWeight
  <2>3. /\ r.qty \in Nat /\ reserved[w] \in Int /\ r.row.qty \in Nat
        /\ need = IF r.row.isStockReserved THEN r.qty - r.row.qty ELSE r.qty
    BY <1>2, <1>5
  <2> HIDE DEF r, v, need
  <2>4. CASE w \in Physical /\ v = w /\ r.row.isStockReserved
    BY <1>5, <2>1, <2>2, <2>3, <2>4
  <2>5. CASE w \in Physical /\ v = w /\ ~r.row.isStockReserved
    BY <1>5, <2>1, <2>2, <2>3, <2>5
  <2>6. CASE ~(w \in Physical /\ v = w)
    BY <1>5, <2>1, <2>2, <2>3, <2>6
  <2> QED
    BY <2>4, <2>5, <2>6
<1>10. \A w \in Variants : /\ Weight(items', w)[i] \in Nat /\ Weight(items, w)[i] \in Nat
                           /\ reserved'[w] \in Int /\ reserved[w] \in Int
  <2>1. items \in Rows /\ items' \in Rows
    BY <1>1 DEF TypeOK
  <2> QED
    BY <1>1, <1>2, <2>1, WeightType DEF TypeOK
<1>11. \A w \in Variants :
          /\ reserved'[w] - reserved[w] >= Weight(items', w)[i] - Weight(items, w)[i]
          /\ AllReserved => reserved'[w] - reserved[w] = Weight(items', w)[i] - Weight(items, w)[i]
  BY <1>9, <1>10
<1> QED
  BY <1>1, <1>2, <1>6, <1>11, OneRowSettles

(* The row found without its lock holds nothing once it is saved, and what *)
(* is reserved for it is not held; it settles when it is digital.          *)
LEMMA SaveSettles ==
    ASSUME EInv, NEW p \in Procs, req[p] \in UpdateRequest, SaveUnheldRow(p)
    PROVE  /\ CoverStep
           /\ items[req[p].item] = req[p].row => Settled
<1> DEFINE r == req[p]  v == req[p].row.variant  i == req[p].item
           row == NewRow(r.row.cart, v, r.row.qty + r.qty, r.row.isStockReserved)
<1>1. TypeOK /\ TypeOK'
  BY SaveUnheldRowKeeps DEF EInv, Kept
<1>2. /\ i \in ItemIds /\ r.row \in Row /\ r.qty \in Nat /\ r.row # NoItem /\ r.op = "saving"
      /\ v \in Variants
  BY NullAssumption DEF UpdateRequest, Row, SaveUnheldRow
<1>3. v \in Physical => ~r.row.isStockReserved
  BY <1>2 DEF EInv, RequestsOwn, OwnRows
<1>4. reserved' = [reserved EXCEPT ![v] = IF v \in Physical THEN @ + r.qty ELSE @]
  BY DEF SaveUnheldRow
<1>5. /\ \A w \in Variants : reserved'[w] >= reserved[w] /\ reserved[w] \in Int
      /\ v \notin Physical => \A w \in Variants : reserved'[w] = reserved[w]
  BY <1>1, <1>2, <1>4 DEF TypeOK
<1>6. /\ \A j \in ItemIds \ {i} : items'[j] = items[j]
      /\ items'[i] = row
  BY <1>1, <1>2 DEF SaveUnheldRow, TypeOK, Rows
<1>7. ASSUME NEW w \in Variants PROVE Weight(items', w)[i] = 0
  <2>1. items'[i].variant = v /\ items'[i].isStockReserved = r.row.isStockReserved
    BY <1>6 DEF NewRow
  <2> HIDE DEF r, v, i
  <2> QED
    BY <1>2, <1>3, <2>1, RowWeight
<1>8. ASSUME NEW w \in Variants
      PROVE  reserved'[w] - reserved[w] >= Weight(items', w)[i] - Weight(items, w)[i]
  <2>1. Weight(items, w)[i] \in Nat /\ reserved[w] \in Int /\ reserved'[w] \in Int
    <3>1. items \in Rows
      BY <1>1 DEF TypeOK
    <3> QED
      BY <1>1, <1>2, <3>1, WeightType DEF TypeOK
  <2> QED
    BY <1>5, <1>7, <2>1
<1>9. CoverStep
  BY <1>1, <1>2, <1>6, <1>8, OneRowChanges DEF CoverStep
<1>10. ASSUME items[i] = r.row, AllReserved, NEW w \in Variants
       PROVE  reserved'[w] - reserved[w] = Weight(items', w)[i] - Weight(items, w)[i]
  <2>1. v \notin Physical
    BY <1>2, <1>3, <1>10 DEF AllReserved, Live
  <2>2. Weight(items, w)[i] = 0
    BY <1>2, <1>10, <2>1, RowWeight
  <2> QED
    BY <1>5, <1>7, <2>1, <2>2
<1> HIDE DEF r, v, i, row
<1>11. items[i] = r.row => Settled
  BY <1>1, <1>2, <1>6, <1>8, <1>10, OneRowSettles
<1> QED
  BY <1>9, <1>11 DEF i, r

(* Both ways to release, GREATEST(0, ...) and plain, of rows as they are.  *)
LEMMA ReleasedBy ==
    ASSUME NEW rows \in Rows, NEW base \in [Variants -> Int], NEW v \in Variants
    PROVE  /\ HeldQty(rows, v) \in Nat
           /\ ReleasedToZero(base, rows)[v] \in Int
           /\ ReleasedToZero(base, rows)[v] >= base[v] - HeldQty(rows, v)
           /\ HeldQty(rows, v) <= base[v]
                => ReleasedToZero(base, rows)[v] = base[v] - HeldQty(rows, v)
<1>1. HeldQty(rows, v) \in Nat
  BY HeldQtyNat
<1>2. Holding(rows, v) = {} => HeldQty(rows, v) = 0
  BY DEF HeldQty
<1>3. ReleasedToZero(base, rows)[v] = IF Holding(rows, v) = {} THEN base[v]
                                      ELSE AtLeastZero(base[v] - HeldQty(rows, v))
  BY DEF ReleasedToZero
<1> QED
  BY <1>1, <1>2, <1>3 DEF AtLeastZero

(* Rows as they are are deleted or marked as not reserved, and released.   *)
LEMMA ReleaseSettles ==
    ASSUME TypeOK, TypeOK', NEW rows \in Rows, Current(rows),
           reserved' = Released(rows) \/ reserved' = ReleasedToZero(reserved, rows),
           \A i \in ItemIds \ Live(rows) : items'[i] = items[i],
           \A i \in Live(rows) : items'[i] = NoItem \/ ~items'[i].isStockReserved
    PROVE  Settled
<1> SUFFICES ASSUME NEW v \in Variants
             PROVE  /\ reserved'[v] - reserved[v] >= HeldIn(items', v) - HeldIn(items, v)
                    /\ HeldIn(items, v) <= reserved[v]
                         => reserved'[v] - reserved[v] = HeldIn(items', v) - HeldIn(items, v)
  BY DEF Settled, CoverStep
<1>1. items \in Rows /\ items' \in Rows /\ reserved \in [Variants -> Int]
  BY DEF TypeOK
<1>2. \A i \in Live(rows) : rows[i] = items[i] /\ i \notin Holding(items', v)
  BY DEF Current, Holding, Live
<1>3. OneRowPerVariant(rows)
  BY DEF Current
<1>4. /\ HeldIn(items', v) = HeldIn(items, v) - HeldQty(rows, v)
      /\ HeldQty(rows, v) <= HeldIn(items, v)
  BY <1>1, <1>2, <1>3, HeldFalls
<1>5. /\ HeldIn(items, v) \in Nat /\ HeldIn(items', v) \in Nat
      /\ reserved[v] \in Int /\ reserved'[v] \in Int
  BY SumsAreNat
<1>6. /\ HeldQty(rows, v) \in Nat
      /\ ReleasedToZero(reserved, rows)[v] >= reserved[v] - HeldQty(rows, v)
      /\ HeldQty(rows, v) <= reserved[v]
           => ReleasedToZero(reserved, rows)[v] = reserved[v] - HeldQty(rows, v)
  BY <1>1, ReleasedBy
<1>7. Released(rows)[v] = reserved[v] - HeldQty(rows, v)
  BY DEF Released
<1> QED
  BY <1>4, <1>5, <1>6, <1>7

(* removeFromCart and clearCart.                                           *)
LEMMA DropSettles ==
    ASSUME TypeOK, NEW p \in Procs, req[p] \in DropRequest, Current(req[p].rows), DropRows(p)
    PROVE  Settled
<1>1. TypeOK'
  BY DropRowsKeeps DEF Kept
<1>2. req[p].rows \in Rows
  BY DEF DropRequest
<1>3. /\ reserved' = Released(req[p].rows)
      /\ \A i \in ItemIds \ Live(req[p].rows) : items'[i] = items[i]
      /\ \A i \in Live(req[p].rows) : items'[i] = NoItem
  BY DEF DropRows, Live
<1> QED
  BY <1>1, <1>2, <1>3, ReleaseSettles

(* Both release jobs.                                                      *)
LEMMA JobSettles ==
    ASSUME TypeOK, NEW p \in Procs, req[p] \in DropRequest, Current(req[p].rows), Release(p)
    PROVE  Settled
<1>1. TypeOK'
  BY ReleaseKeeps DEF Kept
<1>2. req[p].rows \in Rows
  BY DEF DropRequest
<1>3. /\ reserved' = Released(req[p].rows) \/ reserved' = ReleasedToZero(reserved, req[p].rows)
      /\ items' = Unreserved(req[p].rows)
  BY DEF Release, ReleaseExpiredReservations, ReleaseExpiredGuestReservations
<1>4. \A i \in ItemIds \ Live(req[p].rows) : items'[i] = items[i]
  BY <1>3 DEF Unreserved
<1>5. ASSUME NEW i \in Live(req[p].rows) PROVE items'[i] = NoItem \/ ~items'[i].isStockReserved
  <2>1. i \in ItemIds /\ items[i] \in Row
    BY <1>2 DEF Current, Live, Rows
  <2>2. items[i] # NoItem
    BY <2>1, NullAssumption
  <2>3. items'[i] = [items[i] EXCEPT !.isStockReserved = FALSE]
    BY <1>3, <2>1, <2>2 DEF Unreserved
  <2> QED
    BY <2>1, <2>3 DEF Row
<1> QED
  BY <1>1, <1>2, <1>3, <1>4, <1>5, ReleaseSettles

(* The purge, of the rows the guest cart still has.                        *)
LEMMA PurgeSettles ==
    ASSUME TypeOK, UniqueRows, NEW p \in Procs, req[p] \in CartRequest,
           req[p].rows = RowsOf(req[p].cart), CleanupAbandonedGuestCart(p)
    PROVE  Settled
<1> DEFINE rows == req[p].rows
<1>1. TypeOK'
  BY CleanupKeeps DEF Kept
<1>2. rows \in Rows /\ Current(rows)
  BY QueriesAreCurrent DEF CartRequest
<1>3. Live(rows) = {i \in ItemIds : items[i] # NoItem /\ items[i].cart = req[p].cart}
  BY DEF Live, RowsOf
<1>4. /\ reserved' = ReleasedToZero(reserved, rows)
      /\ \A i \in ItemIds \ Live(rows) : items'[i] = items[i]
      /\ \A i \in Live(rows) : items'[i] = NoItem
  BY <1>3 DEF CleanupAbandonedGuestCart
<1> HIDE DEF rows
<1> QED
  BY <1>1, <1>2, <1>4, ReleaseSettles

(* Checkout reserves, just in time, what a row held before it expired.     *)
LEMMA CheckoutSettles ==
    ASSUME TypeOK, NEW p \in Procs, req[p] \in CartRequest, Checkout(p)
    PROVE  /\ CoverStep
           /\ (AllReserved => JustInTime(req[p].rows) = {}) => Settled
<1> DEFINE rows == req[p].rows
           jit(v) == {i \in JustInTime(rows) : rows[i].variant = v}
<1>1. TypeOK'
  BY CheckoutKeeps DEF Kept
<1>2. rows \in Rows
  BY DEF CartRequest
<1>3. items' = items
  BY DEF Checkout
<1> SUFFICES ASSUME NEW v \in Variants
             PROVE  /\ reserved'[v] - reserved[v] >= 0
                    /\ JustInTime(rows) = {} => reserved'[v] - reserved[v] = 0
  <2>1. \A v \in Variants : HeldIn(items', v) = HeldIn(items, v) /\ HeldIn(items, v) \in Nat
    BY <1>1, <1>3, SumsAreNat
  <2> QED
    BY <2>1 DEF Settled, CoverStep
<1>4. reserved[v] \in Int
  BY DEF TypeOK
<1>5. reserved'[v] = IF jit(v) = {} THEN reserved[v]
                     ELSE reserved[v] + rows[CHOOSE i \in jit(v) : TRUE].qty
  BY DEF Checkout
<1>6. jit(v) # {} => rows[CHOOSE i \in jit(v) : TRUE].qty \in Nat
  <2>1. \A i \in jit(v) : rows[i].qty \in Nat
    BY <1>2 DEF JustInTime, Live, Rows, Row
  <2>2. jit(v) # {} => (CHOOSE i \in jit(v) : TRUE) \in jit(v)
    OBVIOUS
  <2> HIDE DEF jit
  <2> QED
    BY <2>1, <2>2
<1>7. JustInTime(rows) = {} => jit(v) = {}
  OBVIOUS
<1> HIDE DEF jit, rows
<1> QED
  BY <1>4, <1>5, <1>6, <1>7

-----------------------------------------------------------------------------
(* A merge, row by row: the guest rows go, a row of a merged variant grows, *)
(* and a variant that the cart lacked gets the row with the id it is given. *)
NewLines(r, c) == {v \in Mergeable(r) : ItemAt(c, v) = {}}
MergedRows(r, c, gone, id) ==
    /\ \A i \in gone : items'[i] = NoItem
    /\ \A i \in Live(items) \ gone :
         items'[i] = IF items[i].cart = c /\ items[i].variant \in Mergeable(r)
                     THEN [items[i] EXCEPT !.qty = @ + r.lines[items[i].variant]]
                     ELSE items[i]
    /\ \A i \in ItemIds \ Live(items) :
         \/ items'[i] = NoItem /\ \A v \in NewLines(r, c) : id[v] # i
         \/ \E v \in NewLines(r, c) : /\ id[v] = i
                                      /\ items'[i] = NewRow(c, v, r.lines[v], v \in Physical)

(* The rows that a merge adds have ids of their own.                       *)
LEMMA MergeRowByRow ==
    ASSUME EInv, NEW r \in MergeLocked, NEW c \in CartIds, NEW gone \in SUBSET issued,
           ProcessItemMerge(r, c, gone)
    PROVE  \E id \in [NewLines(r, c) -> ItemIds \ issued] :
             /\ \A v, w \in NewLines(r, c) : id[v] = id[w] => v = w
             /\ MergedRows(r, c, gone, id)
<1> DEFINE added == Mergeable(r)
           new == {v \in added : ItemAt(c, v) = {}}
           MergedItem(id, i) ==
             IF i \in gone THEN NoItem
             ELSE IF items[i] # NoItem
             THEN IF items[i].cart = c /\ items[i].variant \in added
                  THEN [items[i] EXCEPT !.qty = @ + r.lines[items[i].variant]]
                  ELSE items[i]
             ELSE IF \E v \in new : id[v] = i
             THEN LET v == CHOOSE w \in new : id[w] = i
                  IN NewRow(c, v, r.lines[v], v \in Physical)
             ELSE NoItem
<1>1. PICK id \in [new -> ItemIds \ issued] :
        /\ \A v, w \in new : id[v] = id[w] => v = w
        /\ items' = [i \in ItemIds |-> MergedItem(id, i)]
  BY DEF ProcessItemMerge
<1>2. new = NewLines(r, c)
  BY DEF NewLines
<1>3. \A i \in ItemIds : items'[i] = MergedItem(id, i)
  BY <1>1
<1>4. \A i \in Live(items) : i \in ItemIds /\ items[i] # NoItem
  BY DEF Live
<1>5. \A i \in gone : items'[i] = NoItem
  BY <1>3 DEF EInv, TypeOK
<1>6. \A i \in Live(items) \ gone :
         items'[i] = IF items[i].cart = c /\ items[i].variant \in added
                     THEN [items[i] EXCEPT !.qty = @ + r.lines[items[i].variant]]
                     ELSE items[i]
  BY <1>3, <1>4
<1>7. ASSUME NEW i \in ItemIds \ Live(items)
      PROVE  \/ items'[i] = NoItem /\ \A v \in new : id[v] # i
             \/ \E v \in new : /\ id[v] = i
                               /\ items'[i] = NewRow(c, v, r.lines[v], v \in Physical)
  <2>1. items[i] = NoItem
    BY DEF Live
  <2>2. CASE ~\E v \in new : id[v] = i
    BY <1>3, <2>1, <2>2
  <2>3. CASE \E v \in new : id[v] = i
    <3> DEFINE v == CHOOSE w \in new : id[w] = i
    <3>1. v \in new /\ id[v] = i
      BY <2>3
    <3>2. i \notin gone
      BY <1>1, <3>1
    <3>3. items'[i] = NewRow(c, v, r.lines[v], v \in Physical)
      BY <1>3, <2>1, <2>3, <3>2
    <3> HIDE DEF v
    <3> QED
      BY <3>1, <3>3
  <2> QED
    BY <2>2, <2>3
<1> HIDE DEF new, MergedItem
<1> QED
  BY <1>1, <1>2, <1>5, <1>6, <1>7 DEF MergedRows

(* A user's cart is the target of a merge, and its guest cart is not.      *)
LEMMA MergeTarget ==
    ASSUME EInv, NEW p \in Procs, req[p] \in MergeLocked,
           NEW c \in TargetCart(req[p].owner, req[p].cart)
    PROVE  c \in CartIds /\ c[1] \in Users /\ c # req[p].guest
<1> DEFINE r == req[p]
<1>1. /\ r.op = "merging" /\ r.owner \in Users /\ r.session \in Sessions
      /\ r.cart \in CartIds \cup {NoCart}
  BY DEF MergeLocked
<1>2. OwnCarts(r)
  BY DEF EInv, RequestsOwn
<1>3. c \in CartIds
  BY <1>1, CartsAreCarts DEF EInv, Owners
<1>4. c[1] = r.owner
  BY <1>1, <1>2 DEF TargetCart, NextCart, OwnCarts, Seeing
<1>5. r.guest = NoCart \/ r.guest[1] = r.session
  BY <1>1, <1>2 DEF OwnCarts
<1>6. r.owner # r.session
  BY <1>1, OwnersAssumption
<1> QED
  BY <1>1, <1>3, <1>4, <1>5, <1>6, NullAssumption

(* What a merge adds to the weight of its cart's rows.                     *)
LEMMA MergeAdds ==
    ASSUME EInv, TypeOK', UniqueRows, NEW r \in MergeLocked, NEW c \in CartIds,
           NEW gone \in SUBSET Live(items), \A i \in gone : items[i].cart # c,
           ProcessItemMerge(r, c, gone), NEW v \in Variants,
           NEW kept, kept = [i \in ItemIds |-> IF i \in gone THEN items[i] ELSE items'[i]],
           NEW more, more = IF v \in Physical /\ v \in Mergeable(r) THEN r.lines[v] ELSE 0
    PROVE  /\ kept \in Rows
           /\ HeldIn(kept, v) <= HeldIn(items, v) + more
           /\ AllReserved => HeldIn(kept, v) = HeldIn(items, v) + more
<1>1. items \in Rows /\ items' \in Rows
  BY DEF EInv, TypeOK
<1>2. kept \in Rows
  BY <1>1 DEF Rows
<1>3. more \in Nat /\ \A w \in Variants : r.lines[w] \in Nat
  BY BoundAssumption DEF MergeLocked
<1>4. PICK id \in [NewLines(r, c) -> ItemIds \ issued] :
        /\ \A x, y \in NewLines(r, c) : id[x] = id[y] => x = y
        /\ MergedRows(r, c, gone, id)
  <2>1. gone \in SUBSET issued
    BY DEF EInv, OneKeyPerRow, Live
  <2> QED
    BY <2>1, MergeRowByRow
<1>5. \A i \in ItemIds \ issued : i \notin Live(items) /\ items[i] = NoItem
  BY DEF EInv, OneKeyPerRow, Live
<1>6. \A i \in Live(items) : i \in ItemIds /\ items[i] \in Row /\ items[i] # NoItem
  BY <1>1 DEF Live, Rows
<1>7. \A i \in ItemIds : kept[i] = IF i \in gone THEN items[i] ELSE items'[i]
  OBVIOUS
<1>8. HeldIn(kept, v) \in Nat /\ HeldIn(items, v) \in Nat
  BY <1>1, <1>2, WeightType
<1>9. ASSUME NEW i \in ItemIds,
             i \in Live(items) => \/ i \in gone \/ items[i].cart # c \/ items[i].variant # v
                                  \/ v \notin Physical \/ v \notin Mergeable(r),
             i \notin Live(items) => \/ v \notin Physical \/ v \notin NewLines(r, c)
                                     \/ id[v] # i
      PROVE  Weight(kept, v)[i] = Weight(items, v)[i]
  <2>1. CASE i \in gone
    BY <1>7, <2>1, SameRowSameWeight
  <2>2. CASE i \in Live(items) \ gone /\ ~(items[i].cart = c /\ items[i].variant \in Mergeable(r))
    <3>1. items'[i] = items[i]
      BY <1>4, <2>2 DEF MergedRows
    <3>2. kept[i] = items[i]
      BY <1>7, <3>1
    <3> QED
      BY <3>2, SameRowSameWeight
  <2>3. CASE i \in Live(items) \ gone /\ items[i].cart = c /\ items[i].variant \in Mergeable(r)
    <3>1. kept[i] = [items[i] EXCEPT !.qty = @ + r.lines[items[i].variant]]
      BY <1>4, <1>7, <2>3 DEF MergedRows
    <3>2. items[i] \in Row /\ items[i] # NoItem
      BY <1>6, <2>3
    <3>3. kept[i].variant = items[i].variant
      BY <3>1, <3>2 DEF Row
    <3>4. kept[i] # NoItem
      BY <1>4, <1>3, <3>1, <3>2, NullAssumption DEF Row, Mergeable, MergeLocked
    <3>5. ~(v \in Physical /\ items[i].variant = v)
      BY <1>9, <2>3
    <3> QED
      BY <3>2, <3>3, <3>4, <3>5, RowWeight
  <2>4. CASE i \in ItemIds \ Live(items)
    <3>1. items[i] = NoItem /\ i \notin gone
      BY <2>4 DEF Live
    <3>2. Weight(items, v)[i] = 0
      BY <3>1, RowWeight
    <3>3. CASE items'[i] = NoItem
      BY <1>7, <3>1, <3>2, <3>3, RowWeight
    <3>4. CASE items'[i] # NoItem
      <4>1. PICK w \in NewLines(r, c) : /\ id[w] = i
                                        /\ items'[i] = NewRow(c, w, r.lines[w], w \in Physical)
        BY <1>4, <2>4, <3>4 DEF MergedRows
      <4>2. items'[i].variant = w /\ kept[i] = items'[i]
        BY <1>7, <3>1, <4>1 DEF NewRow
      <4>3. ~(v \in Physical /\ w = v)
        BY <1>9, <2>4, <4>1
      <4> QED
        BY <3>2, <3>4, <4>2, <4>3, RowWeight
    <3> QED
      BY <3>3, <3>4
  <2> QED
    BY <2>1, <2>2, <2>3, <2>4
<1>10. CASE ~(v \in Physical /\ v \in Mergeable(r))
  <2>1. \A i \in ItemIds : Weight(kept, v)[i] = Weight(items, v)[i]
    BY <1>9, <1>10 DEF NewLines
  <2>2. HeldIn(kept, v) = HeldIn(items, v)
    BY <2>1, HeldStays
  <2>3. more = 0
    BY <1>10
  <2> QED
    BY <1>2, <1>8, <2>2, <2>3
<1>11. ASSUME v \in Physical, v \in Mergeable(r), NEW i \in ItemIds, 
              \A j \in ItemIds \ {i} : Weight(kept, v)[j] = Weight(items, v)[j],
              /\ Weight(kept, v)[i] <= Weight(items, v)[i] + more
              /\ AllReserved => Weight(kept, v)[i] = Weight(items, v)[i] + more
       PROVE  /\ HeldIn(kept, v) <= HeldIn(items, v) + more
              /\ AllReserved => HeldIn(kept, v) = HeldIn(items, v) + more
  <2>1. HeldIn(kept, v) - Weight(kept, v)[i] = HeldIn(items, v) - Weight(items, v)[i]
    BY <1>1, <1>2, <1>11, HeldChanges
  <2>2. Weight(kept, v)[i] \in Nat /\ Weight(items, v)[i] \in Nat
    BY <1>1, <1>2, WeightType
  <2> QED
    BY <1>3, <1>8, <1>11, <2>1, <2>2
<1>12. ASSUME v \in Physical, v \in Mergeable(r), NEW i \in ItemAt(c, v)
       PROVE  /\ HeldIn(kept, v) <= HeldIn(items, v) + more
              /\ AllReserved => HeldIn(kept, v) = HeldIn(items, v) + more
  <2>1. /\ i \in Live(items) /\ items[i].cart = c /\ items[i].variant = v
        /\ i \in ItemIds /\ items[i] \in Row /\ items[i] # NoItem /\ i \notin gone
    BY <1>6, <1>12 DEF ItemAt
  <2>2. \A j \in ItemIds \ {i} : Weight(kept, v)[j] = Weight(items, v)[j]
    <3>1. v \notin NewLines(r, c)
      BY <1>12 DEF NewLines
    <3>2. \A j \in Live(items) \ {i} : items[j].cart # c \/ items[j].variant # v
      BY <2>1 DEF UniqueRows
    <3> QED
      BY <1>9, <3>1, <3>2
  <2>3. kept[i] = [items[i] EXCEPT !.qty = @ + r.lines[v]]
    BY <1>4, <1>7, <1>12, <2>1 DEF MergedRows
  <2>4. /\ kept[i] \in Row /\ kept[i].qty = items[i].qty + r.lines[v] /\ items[i].qty \in Nat
        /\ kept[i].variant = v /\ kept[i].isStockReserved = items[i].isStockReserved
    BY <1>3, <2>1, <2>3 DEF Row
  <2>5. kept[i] # NoItem
    BY <2>4, NullAssumption
  <2>6. /\ Weight(items, v)[i] = IF items[i].isStockReserved THEN items[i].qty ELSE 0
        /\ Weight(kept, v)[i] = IF items[i].isStockReserved THEN items[i].qty + r.lines[v] ELSE 0
    BY <1>12, <2>1, <2>4, <2>5, RowWeight
  <2>7. more = r.lines[v] /\ more \in Nat
    BY <1>3, <1>12
  <2>8. AllReserved => items[i].isStockReserved
    BY <1>12, <2>1 DEF AllReserved
  <2>9. /\ Weight(kept, v)[i] <= Weight(items, v)[i] + more
        /\ AllReserved => Weight(kept, v)[i] = Weight(items, v)[i] + more
    BY <2>4, <2>6, <2>7, <2>8
  <2> QED
    BY <1>11, <1>12, <2>1, <2>2, <2>9
<1>13. ASSUME v \in Physical, v \in NewLines(r, c)
       PROVE  /\ HeldIn(kept, v) <= HeldIn(items, v) + more
              /\ AllReserved => HeldIn(kept, v) = HeldIn(items, v) + more
  <2> DEFINE i == id[v]
  <2>1. i \in ItemIds /\ i \notin Live(items) /\ items[i] = NoItem /\ i \notin gone
    BY <1>4, <1>5, <1>13
  <2>2. \A j \in ItemIds \ {i} : Weight(kept, v)[j] = Weight(items, v)[j]
    <3>1. \A j \in Live(items) : items[j].cart # c \/ items[j].variant # v
      BY <1>13 DEF NewLines, ItemAt
    <3> QED
      BY <1>9, <3>1
  <2>3. kept[i] = NewRow(c, v, r.lines[v], v \in Physical)
    BY <1>4, <1>7, <1>13, <2>1 DEF MergedRows
  <2>4. v \in Mergeable(r) /\ r.lines[v] \in Nat \ {0}
    BY <1>3, <1>13 DEF NewLines, Mergeable
  <2>5. /\ kept[i] \in Row /\ kept[i].qty = r.lines[v]
        /\ kept[i].variant = v /\ kept[i].isStockReserved
    <3>1. (v \in Physical) = TRUE
      BY <1>13
    <3>2. kept[i] = NewRow(c, v, r.lines[v], TRUE)
      BY <2>3, <3>1
    <3> DEFINE row == NewRow(c, v, r.lines[v], TRUE)
    <3>3. row \in Row /\ row.qty = r.lines[v] /\ row.variant = v /\ row.isStockReserved
      BY <2>4 DEF NewRow, Row
    <3> HIDE DEF i, row
    <3> QED
      BY <3>2, <3>3 DEF row
  <2>6. kept[i] # NoItem
    BY <2>5, NullAssumption
  <2> HIDE DEF i
  <2>7. Weight(items, v)[i] = 0 /\ Weight(kept, v)[i] = r.lines[v]
    BY <1>13, <2>1, <2>5, <2>6, RowWeight
  <2>8. more = r.lines[v] /\ more \in Nat
    BY <1>3, <1>13, <2>4
  <2> QED
    BY <1>11, <1>13, <2>1, <2>2, <2>4, <2>7, <2>8
<1>14. CASE v \in Physical /\ v \in Mergeable(r)
  <2>1. v \in NewLines(r, c) \/ \E i : i \in ItemAt(c, v)
    BY <1>14 DEF NewLines
  <2>2. /\ HeldIn(kept, v) <= HeldIn(items, v) + more
        /\ AllReserved => HeldIn(kept, v) = HeldIn(items, v) + more
    BY <1>12, <1>13, <1>14, <2>1
  <2> QED
    BY <1>2, <2>2
<1> QED
  BY <1>10, <1>14

(* What a merge reserves is what it adds, and the guest rows that it       *)
(* deletes are the ones it releases.                                       *)
LEMMA MergeSettles ==
    ASSUME EInv, UniqueRows, NEW p \in Procs, req[p] \in MergeLocked,
           req[p].rows = RowsOf(req[p].guest), MergeCart(p)
    PROVE  Settled
<1> DEFINE r == req[p]  rows == req[p].rows
           taken == [v \in Variants |-> IF v \in Physical /\ v \in Mergeable(r)
                                        THEN reserved[v] + r.lines[v] ELSE reserved[v]]
           gone == {i \in Live(items) : items[i].cart = r.guest} \cup Live(r.rows)
           kept == [i \in ItemIds |-> IF i \in gone THEN items[i] ELSE items'[i]]
           more(v) == IF v \in Physical /\ v \in Mergeable(r) THEN r.lines[v] ELSE 0
<1>1. TypeOK /\ TypeOK'
  BY MergeCartKeeps DEF EInv, Kept
<1>2. PICK c \in TargetCart(r.owner, r.cart) : ProcessItemMerge(r, c, gone)
  BY DEF MergeCart
<1>3. c \in CartIds /\ c # r.guest
  BY MergeTarget
<1>4. rows \in Rows /\ \A v \in Variants : r.lines[v] \in Nat
  BY BoundAssumption DEF MergeLocked
<1>5. /\ gone = Live(rows) /\ gone \subseteq Live(items)
      /\ \A i \in gone : rows[i] = items[i] /\ items[i].cart = r.guest
  BY DEF Live, RowsOf
<1>6. Current(rows)
  BY QueriesAreCurrent
<1>7. reserved' = ReleasedToZero(taken, rows)
  BY DEF MergeCart
<1>8. \A i \in gone : items'[i] = NoItem
  <2> HIDE DEF gone
  <2>1. \E id : MergedRows(r, c, gone, id)
    <3>1. gone \in SUBSET issued
      BY <1>5 DEF EInv, OneKeyPerRow, Live
    <3> QED
      BY <1>2, <1>3, <3>1, MergeRowByRow
  <2> QED
    BY <2>1 DEF MergedRows
<1>9. /\ taken \in [Variants -> Int]
      /\ \A v \in Variants : taken[v] = reserved[v] + more(v) /\ more(v) \in Nat
  BY <1>1, <1>4 DEF TypeOK
<1>10. ASSUME NEW v \in Variants
       PROVE  /\ kept \in Rows
              /\ HeldIn(kept, v) <= HeldIn(items, v) + more(v)
              /\ AllReserved => HeldIn(kept, v) = HeldIn(items, v) + more(v)
  <2>1. \A i \in gone : items[i].cart # c
    BY <1>3, <1>5
  <2> HIDE DEF gone
  <2> QED
    BY <1>1, <1>2, <1>3, <1>5, <2>1, MergeAdds
<1>11. \A i \in ItemIds : kept[i] = IF i \in gone THEN items[i] ELSE items'[i]
  OBVIOUS
<1> HIDE DEF taken, gone, kept, rows, more
<1>12. ASSUME NEW v \in Variants
       PROVE  /\ reserved'[v] - reserved[v] >= HeldIn(items', v) - HeldIn(items, v)
              /\ AllReserved /\ HeldIn(items, v) <= reserved[v]
                   => reserved'[v] - reserved[v] = HeldIn(items', v) - HeldIn(items, v)
  <2>1. kept \in Rows /\ items' \in Rows
    BY <1>1, <1>10 DEF TypeOK
  <2>2. \A i \in Live(rows) : rows[i] = kept[i] /\ i \notin Holding(items', v)
    BY <1>5, <1>8, <1>11 DEF Live, Holding
  <2>3. \A i \in ItemIds \ Live(rows) : items'[i] = kept[i]
    BY <1>5, <1>11
  <2>4. OneRowPerVariant(rows)
    BY <1>6 DEF Current
  <2>5. /\ HeldIn(items', v) = HeldIn(kept, v) - HeldQty(rows, v)
        /\ HeldQty(rows, v) <= HeldIn(kept, v)
    BY <1>4, <2>1, <2>2, <2>3, <2>4, HeldFalls
  <2>6. /\ HeldQty(rows, v) \in Nat
        /\ ReleasedToZero(taken, rows)[v] \in Int
        /\ ReleasedToZero(taken, rows)[v] >= taken[v] - HeldQty(rows, v)
        /\ HeldQty(rows, v) <= taken[v]
             => ReleasedToZero(taken, rows)[v] = taken[v] - HeldQty(rows, v)
    BY <1>4, <1>9, ReleasedBy
  <2>7. HeldIn(kept, v) \in Nat
    BY <2>1, WeightType
  <2>8. /\ HeldIn(items, v) \in Nat /\ HeldIn(items', v) \in Nat
        /\ reserved[v] \in Int /\ reserved'[v] \in Int
    BY <1>1, SumsAreNat
  <2>9. taken[v] = reserved[v] + more(v) /\ more(v) \in Nat
    BY <1>9
  <2>10. reserved'[v] >= taken[v] - HeldQty(rows, v)
    BY <1>7, <2>6
  <2>11. reserved'[v] - reserved[v] >= HeldIn(items', v) - HeldIn(items, v)
    BY <1>10, <2>5, <2>6, <2>7, <2>8, <2>9, <2>10
  <2>12. ASSUME AllReserved, HeldIn(items, v) <= reserved[v]
         PROVE  reserved'[v] - reserved[v] = HeldIn(items', v) - HeldIn(items, v)
    <3>1. HeldIn(kept, v) = HeldIn(items, v) + more(v)
      BY <1>10, <2>12
    <3>2. HeldQty(rows, v) <= taken[v]
      BY <2>5, <2>6, <2>7, <2>8, <2>9, <2>12, <3>1
    <3>3. reserved'[v] = taken[v] - HeldQty(rows, v)
      BY <1>7, <2>6, <3>2
    <3> QED
      BY <2>5, <2>6, <2>7, <2>8, <2>9, <3>1, <3>3
  <2> QED
    BY <2>11, <2>12
<1> QED
  BY <1>12 DEF Settled, CoverStep

-----------------------------------------------------------------------------
(* The rows that a request drops are of one cart, which has one row of a   *)
(* variant; they are current when none has changed since they were read.   *)
LEMMA ReadsAreCurrent ==
    ASSUME EInv, UniqueRows, NEW p \in Procs,
           req[p].op \in {"remove", "clear", "release", "releaseGuest"}, ~Overtaken(req[p])
    PROVE  Current(req[p].rows)
<1>1. \A i \in Live(req[p].rows) : items[i] = req[p].rows[i] /\ i \in Live(items)
  BY DEF Overtaken, Live
<1>2. \A i, j \in Live(req[p].rows) : req[p].rows[i].cart = req[p].rows[j].cart
  BY DEF EInv, RequestsOwn, OwnRows, Live
<1> QED
  BY <1>1, <1>2 DEF UniqueRows, Current, OneRowPerVariant

(* A handler that was not overtaken settles; one that only reserves never  *)
(* leaves a row uncovered.                                                 *)
LEMMA WriteSettles ==
    ASSUME EInv, UniqueRows, NEW p \in Procs, Write(p)
    PROVE  /\ ~Overtaken(req[p]) => Settled
           /\ req[p].op \notin Releasing => CoverStep
<1>1. TypeOK /\ req[p] \in Request
  BY DEF EInv, TypeOK
<1>2. CASE AddToCart(p) \/ AddToGuestCart(p)
  BY <1>1, <1>2, RequestKind, AddSettles DEF AddToCart, AddToGuestCart, Settled
<1>3. CASE SaveUnheldRow(p)
  BY <1>1, <1>3, RequestKind, SaveSettles DEF SaveUnheldRow, Overtaken
<1>4. CASE UpdateCartItem(p)
  BY <1>1, <1>4, RequestKind, UpdateSettles DEF UpdateCartItem, Overtaken, Releasing
<1>5. CASE RemoveFromCart(p) \/ ClearCart(p)
  BY <1>1, <1>5, RequestKind, ReadsAreCurrent, DropSettles DEF RemoveFromCart, ClearCart, Releasing
<1>6. CASE MergeCart(p)
  BY <1>1, <1>6, RequestKind, MergeSettles DEF MergeCart, Overtaken, Releasing
<1>7. CASE Checkout(p)
  <2>1. req[p].op = "checkout" /\ req[p] \in CartRequest
    BY <1>1, <1>7, RequestKind DEF Checkout
  <2>2. ASSUME ~Overtaken(req[p]), AllReserved PROVE JustInTime(req[p].rows) = {}
    BY <2>1, <2>2 DEF Overtaken, AllReserved, JustInTime, Live
  <2> QED
    BY <1>1, <1>7, <2>1, <2>2, CheckoutSettles
<1>8. CASE ReleaseExpiredReservations(p) \/ ReleaseExpiredGuestReservations(p)
  BY <1>1, <1>8, RequestKind, ReadsAreCurrent, JobSettles
     DEF Release, ReleaseExpiredReservations, ReleaseExpiredGuestReservations, Releasing
<1>9. CASE CleanupAbandonedGuestCart(p)
  BY <1>1, <1>9, RequestKind, PurgeSettles DEF CleanupAbandonedGuestCart, Overtaken, Releasing
<1> QED
  BY <1>2, <1>3, <1>4, <1>5, <1>6, <1>7, <1>8, <1>9 DEF Write

(* Only the last step of a handler writes rows.                            *)
LEMMA OnlyWritesWrite ==
    ASSUME [Next]_vars
    PROVE  (\E p \in Procs : Write(p)) \/ UNCHANGED <<reserved, items, issued>>
<1>1. ASSUME NEW p \in Procs, Begin(p) PROVE UNCHANGED <<reserved, items, issued>>
  BY <1>1 DEF Begin, AddToCartBegin, AddToGuestCartBegin, UpdateCartItemBegin,
              RemoveFromCartBegin, ClearCartBegin, MergeCartBegin, CheckoutBegin,
              ReleaseBegin, ReleaseExpiredBegin, CleanupGuestCartBegin, ReadOnly
<1>2. ASSUME NEW p \in Procs, Lock(p) PROVE UNCHANGED <<reserved, items, issued>>
  BY <1>2 DEF Lock, FindUnheldRow, MergeCartLock, ReadOnly
<1> QED
  BY <1>1, <1>2 DEF Next, Finish, vars, GetCart, Rollback, Expire, ReadOnly

-----------------------------------------------------------------------------
(* The unique key on (cart, variant).  Rows that stay keep their cart and  *)
(* variant.                                                                *)
LEMMA SameKeys ==
    ASSUME UniqueRows,
           \A i \in ItemIds : items'[i] = NoItem \/ (items[i] # NoItem /\ SameKey(items'[i], items[i]))
    PROVE  UniqueRows'
  BY DEF UniqueRows, Live, SameKey

(* One row is written, with the key it has or with one the table lacks.    *)
LEMMA OneKeyMore ==
    ASSUME TypeOK, UniqueRows, NEW i \in ItemIds, NEW row, items' = [items EXCEPT ![i] = row],
           \/ items[i] # NoItem /\ SameKey(row, items[i])
           \/ items[i] = NoItem /\ ItemAt(row.cart, row.variant) = {}
    PROVE  UniqueRows'
<1>1. items'[i] = row /\ \A j \in ItemIds \ {i} : items'[j] = items[j]
  BY DEF TypeOK, Rows
<1>2. CASE items[i] # NoItem /\ SameKey(row, items[i])
  BY <1>1, <1>2, SameKeys DEF SameKey
<1>3. CASE items[i] = NoItem /\ ItemAt(row.cart, row.variant) = {}
  <2>1. \A j \in Live(items) : ~(items[j].cart = row.cart /\ items[j].variant = row.variant)
    BY <1>3 DEF ItemAt
  <2> QED
    BY <1>1, <2>1 DEF UniqueRows, Live
<1> QED
  BY <1>2, <1>3

(* An addition to a cart adds to one line.                                 *)
LEMMA AddKeepsUnique ==
    ASSUME EInv, UniqueRows, NEW p \in Procs, req[p] \in AddRequest, ReserveIntoCart(p)
    PROVE  UniqueRows'
<1> DEFINE r == req[p]  v == req[p].variant
<1>1. TypeOK /\ items \in Rows
  BY DEF EInv, TypeOK
<1>2. PICK c \in TargetCart(r.owner, r.cart) :
        \/ \E i \in ItemAt(c, v) : items' = [items EXCEPT ![i].qty = @ + r.qty]
        \/ /\ ItemAt(c, v) = {}
           /\ \E i \in ItemIds \ issued : items' = [items EXCEPT ![i] = NewRow(c, v, r.qty, TRUE)]
  BY DEF ReserveIntoCart
<1>3. ASSUME NEW i \in ItemAt(c, v), items' = [items EXCEPT ![i].qty = @ + r.qty]
      PROVE  UniqueRows'
  <2>1. i \in ItemIds /\ items[i] \in Row /\ items[i] # NoItem
    BY <1>1 DEF ItemAt, Live, Rows
  <2>2. /\ \A j \in ItemIds \ {i} : items'[j] = items[j]
        /\ items'[i] = [items[i] EXCEPT !.qty = @ + r.qty]
    BY <1>1, <1>3, <2>1 DEF Rows
  <2>3. SameKey(items'[i], items[i])
    BY <2>1, <2>2 DEF Row, SameKey
  <2> QED
    BY <2>1, <2>2, <2>3, SameKeys DEF SameKey
<1>4. ASSUME ItemAt(c, v) = {}, NEW i \in ItemIds \ issued,
             items' = [items EXCEPT ![i] = NewRow(c, v, r.qty, TRUE)]
      PROVE  UniqueRows'
  <2> DEFINE row == NewRow(c, v, r.qty, TRUE)
  <2>1. row.cart = c /\ row.variant = v
    BY DEF NewRow
  <2>2. items[i] = NoItem
    BY DEF EInv, OneKeyPerRow
  <2> HIDE DEF row
  <2> QED
    BY <1>1, <1>4, <2>1, <2>2, OneKeyMore DEF row
<1> QED
  BY <1>2, <1>3, <1>4

(* A row that is saved keeps its key, or is put back where there is none.  *)
LEMMA SaveKeepsUnique ==
    ASSUME EInv, UniqueRows, NEW p \in Procs, req[p] \in UpdateRequest,
           UpdateCartItem(p) \/ SaveUnheldRow(p)
    PROVE  UniqueRows'
<1> DEFINE r == req[p]
<1>1. TypeOK /\ r.item \in ItemIds /\ r.row # NoItem
  BY NullAssumption DEF EInv, UpdateRequest
<1>2. PICK q, held : items' = [items EXCEPT ![r.item] = NewRow(r.row.cart, r.row.variant, q, held)]
  BY DEF UpdateCartItem, SaveUnheldRow
<1> DEFINE row == NewRow(r.row.cart, r.row.variant, q, held)
<1>3. row.cart = r.row.cart /\ row.variant = r.row.variant
  BY DEF NewRow
<1>4. items[r.item] # NoItem => SameKey(items[r.item], r.row)
  <2>1. ReadIn(r, r.item) = r.row
    BY DEF ReadIn, UpdateRequest
  <2> QED
    BY <1>1, <2>1 DEF EInv, OneKeyPerRow
<1>5. items[r.item] = NoItem => ItemAt(r.row.cart, r.row.variant) = {}
  BY DEF UpdateCartItem, SaveUnheldRow
<1> HIDE DEF row, r
<1> QED
  BY <1>1, <1>2, <1>3, <1>4, <1>5, OneKeyMore DEF row, SameKey

(* The rows that a merge deletes are those the guest cart has and those it *)
(* had, and their ids are not given out again.                             *)
LEMMA GoneWereIssued ==
    ASSUME EInv, NEW p \in Procs, req[p] \in MergeLocked
    PROVE  {i \in Live(items) : items[i].cart = req[p].guest} \cup Live(req[p].rows) \in SUBSET issued
<1>1. \A i \in Live(items) : i \in issued
  BY DEF EInv, OneKeyPerRow, Live
<1>2. \A i \in Live(req[p].rows) : i \in issued
  BY DEF EInv, OneKeyPerRow, Live, ReadIn, SnapshotOps, MergeLocked
<1> QED
  BY <1>1, <1>2

(* A merge adds to lines of one cart, and new lines have ids of their own. *)
LEMMA MergeKeepsUnique ==
    ASSUME EInv, UniqueRows, NEW p \in Procs, req[p] \in MergeLocked, MergeCart(p)
    PROVE  UniqueRows'
<1> DEFINE r == req[p]
           gone == {i \in Live(items) : items[i].cart = r.guest} \cup Live(r.rows)
<1>1. PICK c \in TargetCart(r.owner, r.cart) : ProcessItemMerge(r, c, gone)
  BY DEF MergeCart
<1>2. c \in CartIds /\ items \in Rows
  BY MergeTarget DEF EInv, TypeOK
<1>3. gone \in SUBSET issued
  BY GoneWereIssued
<1> HIDE DEF gone
<1>4. PICK id \in [NewLines(r, c) -> ItemIds \ issued] :
        /\ \A x, y \in NewLines(r, c) : id[x] = id[y] => x = y
        /\ MergedRows(r, c, gone, id)
  BY <1>1, <1>2, <1>3, MergeRowByRow
(* Every row that is there afterwards was there, or is a new line of c.    *)
<1> DEFINE Old(i) == /\ i \in Live(items) /\ items'[i].cart = items[i].cart
                     /\ items'[i].variant = items[i].variant
           New(i, v) == /\ v \in NewLines(r, c) /\ id[v] = i
                        /\ items'[i].cart = c /\ items'[i].variant = v
<1>5. ASSUME NEW i \in Live(items') PROVE Old(i) \/ \E v : New(i, v)
  <2>1. i \in ItemIds /\ items'[i] # NoItem
    BY DEF Live
  <2>2. CASE i \in Live(items)
    <3>1. i \notin gone
      BY <1>4, <2>1 DEF MergedRows
    <3>2. items[i] \in Row
      BY <1>2, <2>2 DEF Live, Rows
    <3>3. items'[i] = IF items[i].cart = c /\ items[i].variant \in Mergeable(r)
                     THEN [items[i] EXCEPT !.qty = @ + r.lines[items[i].variant]]
                     ELSE items[i]
      BY <1>4, <2>2, <3>1 DEF MergedRows
    <3> QED
      BY <2>2, <3>2, <3>3 DEF Row
  <2>3. CASE i \notin Live(items)
    <3>1. PICK v \in NewLines(r, c) : id[v] = i /\ items'[i] = NewRow(c, v, r.lines[v], v \in Physical)
      BY <1>4, <2>1, <2>3 DEF MergedRows
    <3> QED
      BY <3>1 DEF NewRow
  <2> QED
    BY <2>2, <2>3
<1>6. \A v \in NewLines(r, c) : \A j \in Live(items) : ~(items[j].cart = c /\ items[j].variant = v)
  BY DEF NewLines, ItemAt
<1> SUFFICES ASSUME NEW i \in Live(items'), NEW j \in Live(items'),
                    items'[i].cart = items'[j].cart, items'[i].variant = items'[j].variant
             PROVE  i = j
  BY DEF UniqueRows
<1>7. CASE Old(i) /\ Old(j)
  BY <1>7 DEF UniqueRows
<1>8. ASSUME NEW v, New(i, v) PROVE i = j
  <2>1. CASE Old(j)
    BY <1>6, <1>8, <2>1
  <2>2. ASSUME NEW w, New(j, w) PROVE i = j
    BY <1>8, <2>2
  <2> QED
    BY <1>5, <2>1, <2>2
<1>9. ASSUME Old(i), NEW w, New(j, w) PROVE i = j
  BY <1>6, <1>9
<1> QED
  BY <1>5, <1>7, <1>8, <1>9

(* No step makes a second row of a variant in a cart, whatever overlaps.   *)
LEMMA NextKeepsUnique ==
    ASSUME EInv, UniqueRows, [Next]_vars
    PROVE  UniqueRows'
<1>1. CASE UNCHANGED items
  BY <1>1 DEF UniqueRows, Live
<1>2. ASSUME NEW p \in Procs, Write(p) PROVE UniqueRows'
  <2>1. TypeOK /\ req[p] \in Request
    BY DEF EInv, TypeOK
  <2>2. CASE AddToCart(p) \/ AddToGuestCart(p)
    BY <2>1, <2>2, RequestKind, AddKeepsUnique DEF AddToCart, AddToGuestCart
  <2>3. CASE UpdateCartItem(p) \/ SaveUnheldRow(p)
    BY <2>1, <2>3, RequestKind, SaveKeepsUnique DEF UpdateCartItem, SaveUnheldRow
  <2>4. CASE RemoveFromCart(p) \/ ClearCart(p)
    BY <2>4, SameKeys DEF RemoveFromCart, ClearCart, DropRows, SameKey
  <2>5. CASE MergeCart(p)
    BY <2>1, <2>5, RequestKind, MergeKeepsUnique DEF MergeCart
  <2>6. CASE ReleaseExpiredReservations(p) \/ ReleaseExpiredGuestReservations(p)
    <3>1. items' = Unreserved(req[p].rows)
      BY <2>6 DEF ReleaseExpiredReservations, ReleaseExpiredGuestReservations
    <3>2. \A i \in ItemIds : items'[i] = NoItem \/ (items[i] # NoItem /\ SameKey(items'[i], items[i]))
      BY <2>1, <3>1, UnreservedRows DEF SameKey
    <3> QED
      BY <3>2, SameKeys
  <2>7. CASE CleanupAbandonedGuestCart(p)
    BY <2>7, SameKeys DEF CleanupAbandonedGuestCart, SameKey
  <2>8. CASE Checkout(p)
    BY <1>1, <2>8 DEF Checkout
  <2> QED
    BY <1>2, <2>2, <2>3, <2>4, <2>5, <2>6, <2>7, <2>8 DEF Write
<1> QED
  BY <1>1, <1>2, OnlyWritesWrite

(* The key (cart, variant) is unique in every state of every run.          *)
LEMMA RowsAreUnique == Spec => [](EInv /\ UniqueRows)
<1>1. Init => UniqueRows
  BY DEF Init, UniqueRows, Live
<1>2. EInv /\ UniqueRows /\ [Next]_vars => UniqueRows'
  BY NextKeepsUnique
<1> QED
  BY <1>1, <1>2, RowsKeepTheirKey, PTL DEF Spec

-----------------------------------------------------------------------------
(* A counter that moves at least as the rows do stays at what they hold or *)
(* above.                                                                  *)
LEMMA CoverStepCovers ==
    ASSUME TypeOK, TypeOK', CoverStep, Covered
    PROVE  Covered'
<1> SUFFICES ASSUME NEW v \in Variants PROVE reserved'[v] >= HeldIn(items', v)
  BY HeldByIsSum DEF Covered
<1>1. reserved[v] >= HeldIn(items, v)
  BY HeldByIsSum DEF Covered
<1> QED
  BY <1>1, SumsAreNat DEF CoverStep

(* A step that settles leaves a balanced ledger balanced, when every row   *)
(* is reserved.                                                            *)
LEMMA SettledKeepsBalance ==
    ASSUME TypeOK, TypeOK', Settled, Ledger, AllReserved
    PROVE  Ledger'
<1> SUFFICES ASSUME NEW v \in Variants PROVE reserved'[v] = HeldIn(items', v)
  BY HeldByIsSum DEF Ledger
<1>1. reserved[v] = HeldIn(items, v)
  BY HeldByIsSum DEF Ledger
<1> QED
  BY <1>1, SumsAreNat DEF Settled

(* Every step settles, or is that of a request that was overtaken.         *)
LEMMA NextSettles ==
    ASSUME EInv, EInv', UniqueRows, [Next]_vars
    PROVE  /\ CoverStep \/ OvertakenWrite(Releasing)
           /\ Settled \/ OvertakenWrite(Releasing \cup {"saving", "checkout"})
<1>1. TypeOK /\ TypeOK'
  BY DEF EInv
<1>2. CASE UNCHANGED <<reserved, items>>
  BY <1>1, <1>2, NothingSettles DEF Settled
<1>3. ASSUME NEW p \in Procs, Write(p)
      PROVE  /\ CoverStep \/ OvertakenWrite(Releasing)
             /\ Settled \/ OvertakenWrite(Releasing \cup {"saving", "checkout"})
  <2>1. (~Overtaken(req[p]) => Settled) /\ (req[p].op \notin Releasing => CoverStep)
    BY <1>3, WriteSettles
  <2>2. Overtaken(req[p]) => req[p].op \in Releasing \cup {"saving", "checkout"}
    BY DEF Overtaken, Releasing
  <2> QED
    BY <1>3, <2>1, <2>2 DEF OvertakenWrite, Settled
<1> QED
  BY <1>2, <1>3, OnlyWritesWrite

(* CoveredKept: whatever overlaps with what, the counter of a variant      *)
(* falls below what the rows of all carts hold only when a request         *)
(* releases by rows that another has changed since it read them.           *)
THEOREM OnlyOvertakenReleasesUncover == Spec => CoveredKept
<1>1. EInv /\ EInv' /\ UniqueRows /\ [Next]_vars
        => [Covered => Covered' \/ OvertakenWrite(Releasing)]_vars
  <2> SUFFICES ASSUME EInv, EInv', UniqueRows, [Next]_vars, Covered, ~OvertakenWrite(Releasing)
               PROVE  Covered'
    OBVIOUS
  <2>1. CoverStep
    BY NextSettles
  <2>2. TypeOK /\ TypeOK'
    BY DEF EInv
  <2> QED
    BY <2>1, <2>2, CoverStepCovers
<1>2. Spec => [][Covered => Covered' \/ OvertakenWrite(Releasing)]_vars
  BY <1>1, RowsAreUnique, PTL DEF Spec
<1> QED
  BY <1>2 DEF CoveredKept

(* BalanceKept: from a ledger in balance and with every physical row       *)
(* reserved, no step puts the ledger out of balance but that of a request  *)
(* that goes by rows another has changed since it read them.               *)
THEOREM OnlyOvertakenWritesUnbalance == Spec => BalanceKept
<1>1. EInv /\ EInv' /\ UniqueRows /\ [Next]_vars
        => [Ledger /\ AllReserved
              => Ledger' \/ OvertakenWrite(Releasing \cup {"saving", "checkout"})]_vars
  <2> SUFFICES ASSUME EInv, EInv', UniqueRows, [Next]_vars, Ledger, AllReserved,
                      ~OvertakenWrite(Releasing \cup {"saving", "checkout"})
               PROVE  Ledger'
    OBVIOUS
  <2>1. Settled /\ TypeOK /\ TypeOK'
    BY NextSettles DEF EInv
  <2> QED
    BY <2>1, SettledKeepsBalance
<1>2. Spec => [][Ledger /\ AllReserved
                   => Ledger' \/ OvertakenWrite(Releasing \cup {"saving", "checkout"})]_vars
  BY <1>1, RowsAreUnique, PTL DEF Spec
<1> QED
  BY <1>2 DEF BalanceKept

-----------------------------------------------------------------------------
(* The limit on guest carts.  An addition has passed the test while its    *)
(* variant has no row in the cart it saw.  The rows of a guest cart, with  *)
(* the additions that have passed, are at most MAX_GUEST_CART_ITEMS - 1    *)
(* and one for each process: a request passes only below the limit, and    *)
(* trades its place for the row that it inserts.                           *)
RowsIn(c) == Live(RowsOf(c))
Passed(c) == {p \in Procs : /\ req[p].op = "guestAdd" /\ req[p].cart = c
                            /\ ItemAt(c, req[p].variant) = {}}
GuestCarts == {c \in CartIds : c[1] \in Sessions}
GuestLoad(c) == Cardinality(RowsIn(c)) + Cardinality(Passed(c))

(* A guest cart with rows is in the table; a row that is to be saved and   *)
(* is gone went with its cart.                                             *)
GuestRowsInTable == \A c \in GuestCarts : RowsIn(c) # {} => status[c] \notin {"none", "deleted"}
SavedRowsInTable ==
    \A p \in Procs :
        req[p].op = "saving" /\ req[p].row.cart \in GuestCarts /\ items[req[p].item] = NoItem
            => status[req[p].row.cart] = "deleted"
GuestInv ==
    /\ EInv /\ CInv
    /\ GuestRowsInTable /\ SavedRowsInTable
    /\ \A c \in GuestCarts : GuestLoad(c) <= MaxGuestItems + Cardinality(Procs) - 1

(* The rows of a cart, before and after a step.                            *)
LEMMA RowsInIs ==
    /\ \A c : RowsIn(c) = {i \in ItemIds : items[i] # NoItem /\ items[i].cart = c}
    /\ \A c : RowsIn(c)' = {i \in ItemIds : items'[i] # NoItem /\ items'[i].cart = c}
    /\ \A c, v : ItemAt(c, v) = {i \in ItemIds : items[i] # NoItem /\ items[i].cart = c
                                                   /\ items[i].variant = v}
    /\ \A c, v : ItemAt(c, v)' = {i \in ItemIds : items'[i] # NoItem /\ items'[i].cart = c
                                                    /\ items'[i].variant = v}
  BY DEF RowsIn, Live, RowsOf, ItemAt

(* Rows and requests can be counted.                                       *)
LEMMA LoadsAreNat ==
    /\ Cardinality(Procs) \in Nat /\ MaxGuestItems \in Nat \ {0}
    /\ \A c : IsFiniteSet(RowsIn(c)) /\ Cardinality(RowsIn(c)) \in Nat
    /\ \A c : Cardinality(RowsIn(c)') \in Nat
    /\ \A c : IsFiniteSet(Passed(c)) /\ Cardinality(Passed(c)) \in Nat
    /\ \A c : Cardinality(Passed(c)') \in Nat /\ Cardinality(Passed(c)') <= Cardinality(Procs)
<1>1. IsFiniteSet(Procs) /\ IsFiniteSet(ItemIds) /\ MaxGuestItems \in Nat \ {0}
  BY BoundAssumption
<1>2. \A c : RowsIn(c) \in SUBSET ItemIds /\ RowsIn(c)' \in SUBSET ItemIds
  BY RowsInIs
<1>3. \A c : Passed(c) \in SUBSET Procs /\ Passed(c)' \in SUBSET Procs
  BY DEF Passed
<1>4. \A S \in SUBSET ItemIds : IsFiniteSet(S) /\ Cardinality(S) \in Nat
  BY <1>1, FS_Subset, FS_CardinalityType
<1>5. \A S \in SUBSET Procs :
         IsFiniteSet(S) /\ Cardinality(S) \in Nat /\ Cardinality(S) <= Cardinality(Procs)
  BY <1>1, FS_Subset, FS_CardinalityType
<1>6. Cardinality(Procs) \in Nat
  BY <1>1, FS_CardinalityType
<1>7. \A c : Cardinality(RowsIn(c)') \in Nat
  BY <1>2, <1>4
<1>8. \A c : Cardinality(Passed(c)') \in Nat /\ Cardinality(Passed(c)') <= Cardinality(Procs)
  BY <1>3, <1>5
<1> QED
  BY <1>1, <1>2, <1>3, <1>4, <1>5, <1>6, <1>7, <1>8

(* What a step does to a guest cart: it keeps its rows, or deletes it with *)
(* all of them, or inserts the row of an addition that has passed.         *)
KeepsRow(c, i) ==
    \/ items'[i] = items[i]
    \/ items[i] # NoItem /\ items'[i] # NoItem /\ SameKey(items'[i], items[i])
    \/ /\ items[i] # NoItem => items[i].cart # c
       /\ items'[i] # NoItem => items'[i].cart # c
KeepsRows(c) == /\ \A i \in ItemIds : KeepsRow(c, i)
                /\ status'[c] = "deleted" => status[c] = "deleted"
Deletes(c) == RowsIn(c)' = {} /\ status'[c] = "deleted"
Inserts(p, c) ==
    /\ req[p].op = "guestAdd" /\ c \in TargetCart(req[p].owner, req[p].cart)
    /\ ItemAt(c, req[p].variant) = {} /\ Insertable(c) /\ Opened(c) /\ Done(p)
    /\ \E i \in ItemIds : /\ items'[i] = NewRow(c, req[p].variant, req[p].qty, TRUE)
                          /\ \A j \in ItemIds \ {i} : items'[j] = items[j]
                          /\ items[i] = NoItem

(* Opening a cart deletes none.                                            *)
LEMMA OpenedDeletesNone ==
    ASSUME TypeOK, NEW c \in CartIds, Opened(c), NEW d \in CartIds
    PROVE  (status'[d] = "deleted" => status[d] = "deleted")
  BY DEF Opened, TypeOK

(* addToCart and addToGuestCart.                                           *)
LEMMA AddToGuest ==
    ASSUME EInv, NEW c \in GuestCarts, NEW p \in Procs, req[p] \in AddRequest, ReserveIntoCart(p)
    PROVE  KeepsRows(c) \/ Inserts(p, c)
<1> DEFINE r == req[p]  v == req[p].variant
<1>1. TypeOK /\ items \in Rows /\ r.owner \in Owners /\ OwnCarts(r)
  BY DEF EInv, TypeOK, AddRequest, RequestsOwn
<1>2. PICK d \in TargetCart(r.owner, r.cart) :
        /\ Opened(d)
        /\ \/ \E i \in ItemAt(d, v) : items' = [items EXCEPT ![i].qty = @ + r.qty]
           \/ /\ ItemAt(d, v) = {} /\ Insertable(d)
              /\ \E i \in ItemIds \ issued : items' = [items EXCEPT ![i] = NewRow(d, v, r.qty, TRUE)]
  BY DEF ReserveIntoCart
<1>3. d \in CartIds /\ d[1] = r.owner /\ c \in CartIds
  BY <1>1, <1>2, CartsAreCarts
     DEF TargetCart, NextCart, OwnCarts, Seeing, AddRequest, GuestCarts
<1>4. status'[c] = "deleted" => status[c] = "deleted"
  BY <1>1, <1>2, <1>3, OpenedDeletesNone
<1>5. ASSUME NEW i \in ItemAt(d, v), items' = [items EXCEPT ![i].qty = @ + r.qty]
      PROVE  KeepsRows(c)
  <2>1. i \in ItemIds /\ items[i] \in Row /\ items[i] # NoItem
    BY <1>1 DEF ItemAt, Live, Rows
  <2>2. /\ \A j \in ItemIds \ {i} : items'[j] = items[j]
        /\ items'[i] = [items[i] EXCEPT !.qty = @ + r.qty]
    BY <1>1, <1>5, <2>1 DEF Rows
  <2>3. SameKey(items'[i], items[i])
    BY <2>1, <2>2 DEF Row, SameKey
  <2>4. items'[i] # NoItem
    <3>1. r.qty \in Nat \ {0} /\ items[i].qty \in Nat \ {0}
      BY <2>1 DEF AddRequest, Row
    <3>2. items[i].qty + r.qty \in Nat \ {0}
      BY <3>1
    <3>3. items'[i] \in Row
      BY <2>1, <2>2, <3>2 DEF Row
    <3> QED
      BY <3>3, NullAssumption
  <2> QED
    BY <1>4, <2>1, <2>2, <2>3, <2>4 DEF KeepsRows, KeepsRow
<1>6. ASSUME ItemAt(d, v) = {}, Insertable(d), NEW i \in ItemIds \ issued,
             items' = [items EXCEPT ![i] = NewRow(d, v, r.qty, TRUE)]
      PROVE  KeepsRows(c) \/ Inserts(p, c)
  <2>1. /\ \A j \in ItemIds \ {i} : items'[j] = items[j]
        /\ items'[i] = NewRow(d, v, r.qty, TRUE)
        /\ items[i] = NoItem
    BY <1>1, <1>6 DEF Rows, EInv, OneKeyPerRow
  <2>2. CASE d # c
    <3>1. items'[i].cart # c
      BY <2>1, <2>2 DEF NewRow
    <3> QED
      BY <1>4, <2>1, <3>1 DEF KeepsRows, KeepsRow
  <2>3. CASE d = c
    <3>1. r.op = "guestAdd"
      BY <1>1, <1>3, <2>3, OwnersAssumption DEF AddRequest, OwnCarts, GuestCarts
    <3>2. Done(p)
      BY DEF ReserveIntoCart
    <3> QED
      BY <1>2, <1>6, <2>1, <2>3, <3>1, <3>2 DEF Inserts
  <2> QED
    BY <2>2, <2>3
<1> QED
  BY <1>2, <1>5, <1>6

(* updateCartItem, and the save of a row found without its lock: a guest   *)
(* row that is gone is not put back, its cart is gone too.                 *)
LEMMA SaveToGuest ==
    ASSUME EInv, SavedRowsInTable, NEW c \in GuestCarts, NEW p \in Procs,
           req[p] \in UpdateRequest, UpdateCartItem(p) \/ SaveUnheldRow(p)
    PROVE  KeepsRows(c)
<1> DEFINE r == req[p]
<1>1. TypeOK /\ r.item \in ItemIds /\ r.row \in Row /\ r.row # NoItem /\ r.row.cart \in CartIds
  BY NullAssumption DEF EInv, UpdateRequest, Row
<1>2. PICK q \in Nat \ {0}, held \in BOOLEAN :
        items' = [items EXCEPT ![r.item] = NewRow(r.row.cart, r.row.variant, q, held)]
  <2>1. r.qty \in Nat \ {0} /\ r.row.qty + r.qty \in Nat \ {0} /\ r.row.isStockReserved \in BOOLEAN
    BY <1>1 DEF UpdateRequest, Row
  <2>2. CASE UpdateCartItem(p)
    BY <2>1, <2>2 DEF UpdateCartItem
  <2>3. CASE SaveUnheldRow(p)
    BY <2>1, <2>3 DEF SaveUnheldRow
  <2> QED
    BY <2>2, <2>3
<1> DEFINE row == NewRow(r.row.cart, r.row.variant, q, held)
<1>3. SameKey(row, r.row) /\ row \in Row
  BY <1>1 DEF NewRow, SameKey, Row
<1>4. row # NoItem
  BY <1>3, NullAssumption
<1>5. items'[r.item] = row /\ \A j \in ItemIds \ {r.item} : items'[j] = items[j]
  BY <1>1, <1>2 DEF TypeOK, Rows
<1>6. items[r.item] # NoItem => SameKey(items[r.item], r.row)
  <2>1. ReadIn(r, r.item) = r.row
    BY DEF ReadIn, UpdateRequest
  <2> QED
    BY <1>1, <2>1 DEF EInv, OneKeyPerRow
<1>7. items[r.item] = NoItem => r.row.cart # c
  <2>1. CASE UpdateCartItem(p)
    BY <2>1, OwnersAssumption DEF UpdateCartItem, EInv, RequestsOwn, OwnRows, GuestCarts
  <2>2. CASE SaveUnheldRow(p)
    BY <2>2 DEF SaveUnheldRow, SavedRowsInTable, Insertable
  <2> QED
    BY <2>1, <2>2
<1>8. UNCHANGED status
  BY DEF UpdateCartItem, SaveUnheldRow
<1> HIDE DEF row, r
<1> QED
  BY <1>1, <1>3, <1>4, <1>5, <1>6, <1>7, <1>8 DEF KeepsRows, KeepsRow, SameKey

(* A merge deletes the guest cart it has read, and adds to a user's cart.  *)
LEMMA MergeOfGuest ==
    ASSUME EInv, NEW c \in GuestCarts, NEW p \in Procs, req[p] \in MergeLocked, MergeCart(p)
    PROVE  KeepsRows(c) \/ Deletes(c)
<1> DEFINE r == req[p]
           gone == {i \in Live(items) : items[i].cart = r.guest} \cup Live(r.rows)
<1>1. TypeOK /\ r.op = "merging" /\ c \in CartIds
  BY DEF EInv, MergeCart, GuestCarts
<1>2. PICK d \in TargetCart(r.owner, r.cart) :
        /\ ProcessItemMerge(r, d, gone)
        /\ status' = [e \in CartIds |-> IF e = r.guest THEN "deleted"
                                        ELSE IF e = d /\ status[d] = "none" THEN "ACTIVE"
                                        ELSE status[e]]
  BY DEF MergeCart
<1>3. d \in CartIds /\ d[1] \in Users /\ d # r.guest /\ d # c
  BY <1>1, MergeTarget, OwnersAssumption DEF GuestCarts
<1>4. gone \in SUBSET issued
  BY GoneWereIssued
<1>5. ASSUME NEW i \in gone PROVE items'[i] = NoItem /\ (items[i] # NoItem => items[i].cart = r.guest)
  <2>1. PICK id : MergedRows(r, d, gone, id)
    <3> HIDE DEF gone
    <3> QED
      BY <1>2, <1>3, <1>4, MergeRowByRow
  <2>2. items'[i] = NoItem
    BY <2>1 DEF MergedRows
  <2>3. CASE i \in Live(r.rows)
    <3>1. ReadIn(r, i) = r.rows[i] /\ r.rows[i] # NoItem /\ i \in ItemIds
      BY <1>1, <2>3 DEF ReadIn, SnapshotOps, Live
    <3>2. r.rows[i].cart = r.guest
      BY <1>1, <3>1 DEF EInv, RequestsOwn, OwnCarts
    <3>3. items[i] # NoItem => SameKey(items[i], r.rows[i])
      BY <3>1 DEF EInv, OneKeyPerRow
    <3> QED
      BY <2>2, <3>2, <3>3 DEF SameKey
  <2> QED
    BY <2>2, <2>3
<1>6. \A i \in ItemIds :
         \/ i \in gone /\ items'[i] = NoItem
         \/ items'[i] = items[i]
         \/ items[i] # NoItem /\ items[i].cart = d /\ SameKey(items'[i], items[i])
         \/ i \notin issued /\ i \in issued' /\ items'[i].cart = d
  BY <1>1, <1>2, <1>3, ProcessItemMergeRows
<1>7. \A i \in ItemIds : i \notin issued => items[i] = NoItem
  BY DEF EInv, OneKeyPerRow
<1>8. CASE r.guest # c
  <2>1. \A i \in ItemIds : KeepsRow(c, i)
    BY <1>3, <1>5, <1>6, <1>7, <1>8 DEF KeepsRow, SameKey
  <2> QED
    BY <1>1, <1>2, <1>3, <1>8, <2>1 DEF KeepsRows
<1>9. CASE r.guest = c
  <2>1. \A i \in ItemIds : items'[i] # NoItem => items'[i].cart # c
    <3>1. \A i \in ItemIds : items[i] # NoItem /\ items[i].cart = c => i \in gone
      BY <1>9 DEF Live
    <3> QED
      BY <1>3, <1>5, <1>6, <3>1 DEF SameKey
  <2>2. RowsIn(c)' = {}
    BY <2>1, RowsInIs
  <2> QED
    BY <1>1, <1>2, <1>9, <2>2 DEF Deletes
<1> QED
  BY <1>8, <1>9

(* Every step.                                                             *)
LEMMA NextOfGuest ==
    ASSUME EInv, SavedRowsInTable, NEW c \in GuestCarts, [Next]_vars
    PROVE  KeepsRows(c) \/ Deletes(c) \/ \E p \in Procs : Inserts(p, c)
<1>1. TypeOK /\ c \in CartIds /\ c[1] \notin Users
  BY OwnersAssumption DEF EInv, GuestCarts
<1>2. CASE UNCHANGED <<items, status>>
  BY <1>2 DEF KeepsRows, KeepsRow
<1>3. ASSUME NEW u \in Users, GetCart(u) PROVE KeepsRows(c)
  <2>1. PICK d \in NextCart(u) : Opened(d)
    BY <1>3 DEF GetCart
  <2>2. d \in CartIds
    BY <2>1 DEF NextCart
  <2> QED
    BY <1>1, <1>3, <2>1, <2>2, OpenedDeletesNone DEF GetCart, KeepsRows, KeepsRow
<1>4. ASSUME NEW p \in Procs, Write(p)
      PROVE  KeepsRows(c) \/ Deletes(c) \/ Inserts(p, c)
  <2>1. req[p] \in Request
    BY <1>1 DEF TypeOK
  <2>2. CASE AddToCart(p) \/ AddToGuestCart(p)
    BY <2>1, <2>2, RequestKind, AddToGuest DEF AddToCart, AddToGuestCart
  <2>3. CASE UpdateCartItem(p) \/ SaveUnheldRow(p)
    BY <2>1, <2>3, RequestKind, SaveToGuest DEF UpdateCartItem, SaveUnheldRow
  <2>4. CASE RemoveFromCart(p) \/ ClearCart(p)
    <3>1. req[p].op \in {"remove", "clear"} /\ DropRows(p)
      BY <2>4 DEF RemoveFromCart, ClearCart
    <3>2. ASSUME NEW i \in Live(req[p].rows) PROVE items[i] # NoItem => items[i].cart # c
      <4>1. i \in ItemIds /\ ReadIn(req[p], i) = req[p].rows[i] /\ req[p].rows[i] # NoItem
        BY <3>1, <3>2 DEF ReadIn, SnapshotOps, Live
      <4>2. req[p].rows[i].cart[1] \in Users
        BY <3>1, <4>1 DEF EInv, RequestsOwn, OwnRows
      <4>3. items[i] # NoItem => SameKey(items[i], req[p].rows[i])
        BY <4>1 DEF EInv, OneKeyPerRow
      <4> QED
        BY <1>1, <4>2, <4>3 DEF SameKey
    <3> QED
      BY <3>1, <3>2 DEF DropRows, KeepsRows, KeepsRow
  <2>5. CASE MergeCart(p)
    BY <2>1, <2>5, RequestKind, MergeOfGuest DEF MergeCart
  <2>6. CASE Checkout(p)
    <3>1. req[p] \in CartRequest /\ req[p].op = "checkout"
      BY <2>1, <2>6, RequestKind DEF Checkout
    <3>2. req[p].cart[1] \in Users
      BY <3>1 DEF EInv, RequestsOwn, OwnCarts
    <3>3. req[p].cart # c
      BY <1>1, <3>2
    <3>4. status'[c] = status[c]
      BY <1>1, <2>6, <3>3 DEF Checkout, TypeOK
    <3> QED
      BY <2>6, <3>4 DEF Checkout, KeepsRows, KeepsRow
  <2>7. CASE ReleaseExpiredReservations(p) \/ ReleaseExpiredGuestReservations(p)
    <3>1. items' = Unreserved(req[p].rows) /\ UNCHANGED status
      BY <2>7 DEF ReleaseExpiredReservations, ReleaseExpiredGuestReservations
    <3> QED
      BY <1>1, <3>1, UnreservedRows DEF KeepsRows, KeepsRow
  <2>8. CASE CleanupAbandonedGuestCart(p)
    <3>1. /\ items' = [i \in ItemIds |-> IF items[i] # NoItem /\ items[i].cart = req[p].cart
                                         THEN NoItem ELSE items[i]]
          /\ status' = [status EXCEPT ![req[p].cart] = "deleted"]
      BY <2>8 DEF CleanupAbandonedGuestCart
    <3>2. CASE req[p].cart = c
      <4>1. RowsIn(c)' = {}
        BY <3>1, <3>2, RowsInIs
      <4> QED
        BY <1>1, <3>1, <3>2, <4>1 DEF Deletes, TypeOK
    <3>3. CASE req[p].cart # c
      BY <1>1, <3>1, <3>3 DEF KeepsRows, KeepsRow, TypeOK
    <3> QED
      BY <3>2, <3>3
  <2> QED
    BY <1>4, <2>2, <2>3, <2>4, <2>5, <2>6, <2>7, <2>8 DEF Write
<1>5. ASSUME NEW p \in Procs, Begin(p) PROVE UNCHANGED <<items, status>>
  BY <1>5 DEF Begin, AddToCartBegin, AddToGuestCartBegin, UpdateCartItemBegin,
              RemoveFromCartBegin, ClearCartBegin, MergeCartBegin, CheckoutBegin,
              ReleaseBegin, ReleaseExpiredBegin, CleanupGuestCartBegin, ReadOnly
<1>6. ASSUME NEW p \in Procs, Lock(p) PROVE UNCHANGED <<items, status>>
  BY <1>6 DEF Lock, FindUnheldRow, MergeCartLock, ReadOnly
<1> QED
  BY <1>2, <1>3, <1>4, <1>5, <1>6 DEF Next, Finish, vars, Rollback, Expire, ReadOnly

-----------------------------------------------------------------------------
(* An addition to a guest cart starts below the limit or at a line that    *)
(* the cart has; afterwards its request stays as it is.                    *)
GuestAddStep(p) ==
    req'[p].op = "guestAdd" =>
        \/ req'[p] = req[p]
        \/ /\ UNCHANGED items
           /\ Cardinality(RowsIn(req'[p].cart)) >= MaxGuestItems
                => ItemAt(req'[p].cart, req'[p].variant) # {}

(* And a row that a request is to save was there when it was found.        *)
SavingStep(p) ==
    req'[p].op = "saving" =>
        req'[p] = req[p] \/ (UNCHANGED items /\ items[req'[p].item] # NoItem)

(* What a step does to one request.                                        *)
LEMMA StartedIs ==
    ASSUME TypeOK, NEW p \in Procs, NEW q \in Procs, NEW r, req' = [req EXCEPT ![q] = r]
    PROVE  req'[p] = IF p = q THEN r ELSE req[p]
  BY DEF TypeOK

(* Every first step.                                                       *)
LEMMA BeginOfGuest ==
    ASSUME TypeOK, NEW p \in Procs, NEW q \in Procs, Begin(q)
    PROVE  GuestAddStep(p) /\ SavingStep(p)
<1> DEFINE Other(r) == r.op \notin {"guestAdd", "saving"}
<1>1. ASSUME NEW r, Start(q, r), Other(r) PROVE GuestAddStep(p) /\ SavingStep(p)
  <2>1. req'[p] = r \/ req'[p] = req[p]
    BY <1>1, StartedIs DEF Start
  <2> QED
    BY <1>1, <2>1 DEF GuestAddStep, SavingStep
<1>2. ASSUME NEW s \in Sessions, NEW v \in Variants, NEW n \in Qty, AddToGuestCartBegin(q, s, v, n)
      PROVE  GuestAddStep(p) /\ SavingStep(p)
  <2>1. PICK c \in FindActive(s) :
          /\ Cardinality(RowsIn(c)) >= MaxGuestItems => ItemAt(c, v) # {}
          /\ Start(q, [op |-> "guestAdd", owner |-> s, cart |-> c, variant |-> v, qty |-> n])
    BY <1>2 DEF AddToGuestCartBegin, RowsIn
  <2> DEFINE r == [op |-> "guestAdd", owner |-> s, cart |-> c, variant |-> v, qty |-> n]
  <2>2. r.op = "guestAdd" /\ r.cart = c /\ r.variant = v
    OBVIOUS
  <2> HIDE DEF r
  <2>3. req'[p] = r \/ req'[p] = req[p]
    BY <2>1, StartedIs DEF Start, r
  <2>4. UNCHANGED items
    BY <1>2 DEF AddToGuestCartBegin, ReadOnly
  <2> QED
    BY <2>1, <2>2, <2>3, <2>4 DEF GuestAddStep, SavingStep
<1>3. ASSUME NEW u \in Users, NEW v \in Variants, NEW n \in Qty, AddToCartBegin(q, u, v, n)
      PROVE  GuestAddStep(p) /\ SavingStep(p)
  BY <1>1, <1>3 DEF AddToCartBegin
<1>4. ASSUME NEW u \in Users, NEW i \in ItemIds, NEW n \in Qty, UpdateCartItemBegin(q, u, i, n)
      PROVE  GuestAddStep(p) /\ SavingStep(p)
  BY <1>1, <1>4 DEF UpdateCartItemBegin
<1>5. CASE \E u \in Users, i \in ItemIds : RemoveFromCartBegin(q, u, i)
  BY <1>1, <1>5 DEF RemoveFromCartBegin
<1>6. CASE \E u \in Users : ClearCartBegin(q, u)
  BY <1>1, <1>6 DEF ClearCartBegin
<1>7. ASSUME NEW u \in Users, NEW s \in Sessions, NEW lines \in [Variants -> 0..MaxQty],
             MergeCartBegin(q, u, s, lines)
      PROVE  GuestAddStep(p) /\ SavingStep(p)
  BY <1>1, <1>7 DEF MergeCartBegin
<1>8. CASE \E u \in Users : CheckoutBegin(q, u)
  BY <1>1, <1>8 DEF CheckoutBegin
<1>9. CASE \E i \in ItemIds : ReleaseBegin(q, i)
  BY <1>1, <1>9 DEF ReleaseBegin, ReleaseExpiredBegin
<1>10. CASE \E c \in CartIds : CleanupGuestCartBegin(q, c)
  BY <1>1, <1>10 DEF CleanupGuestCartBegin
<1> HIDE DEF Other
<1> QED
  BY <1>2, <1>3, <1>4, <1>5, <1>6, <1>7, <1>8, <1>9, <1>10 DEF Begin

(* Every step.                                                             *)
LEMMA NextOfRequests ==
    ASSUME TypeOK, [Next]_vars, NEW p \in Procs
    PROVE  GuestAddStep(p) /\ SavingStep(p)
<1>1. CASE UNCHANGED req
  BY <1>1 DEF GuestAddStep, SavingStep
<1>2. ASSUME NEW q \in Procs, Begin(q) PROVE GuestAddStep(p) /\ SavingStep(p)
  BY <1>2, BeginOfGuest
<1>3. ASSUME NEW q \in Procs, Done(q) PROVE GuestAddStep(p) /\ SavingStep(p)
  <2>1. req'[p] = Idle \/ req'[p] = req[p]
    BY <1>3, StartedIs DEF Done
  <2> QED
    BY <2>1 DEF GuestAddStep, SavingStep
<1>4. ASSUME NEW q \in Procs, MergeCartLock(q) PROVE GuestAddStep(p) /\ SavingStep(p)
  <2>1. \E r : r.op = "merging" /\ req' = [req EXCEPT ![q] = r]
    BY <1>4 DEF MergeCartLock
  <2>2. req'[p].op = "merging" \/ req'[p] = req[p]
    BY <2>1, StartedIs
  <2> QED
    BY <2>2 DEF GuestAddStep, SavingStep
<1>5. ASSUME NEW q \in Procs, FindUnheldRow(q) PROVE GuestAddStep(p) /\ SavingStep(p)
  <2>1. PICK i \in ItemAt(req[q].cart, req[q].variant) :
          req' = [req EXCEPT ![q] = [op |-> "saving", item |-> i, row |-> items[i], qty |-> req[q].qty]]
    BY <1>5 DEF FindUnheldRow
  <2> DEFINE r == [op |-> "saving", item |-> i, row |-> items[i], qty |-> req[q].qty]
  <2>2. r.op = "saving" /\ r.item = i /\ items[i] # NoItem
    BY <2>1 DEF ItemAt, Live
  <2> HIDE DEF r
  <2>3. req'[p] = r \/ req'[p] = req[p]
    BY <2>1, StartedIs DEF r
  <2>4. UNCHANGED items
    BY <1>5 DEF FindUnheldRow, ReadOnly
  <2> QED
    BY <2>2, <2>3, <2>4 DEF GuestAddStep, SavingStep
<1> QED
  BY <1>1, <1>2, <1>3, <1>4, <1>5, WriteEnds
     DEF Next, Finish, Lock, vars, GetCart, Rollback, Expire

(* A kept cart has the rows it had, of the variants they were of.          *)
LEMMA KeptRows ==
    ASSUME NEW c, KeepsRows(c)
    PROVE  RowsIn(c)' = RowsIn(c) /\ \A v : ItemAt(c, v)' = ItemAt(c, v)
<1>1. \A i \in ItemIds :
         /\ items'[i] # NoItem /\ items'[i].cart = c <=> items[i] # NoItem /\ items[i].cart = c
         /\ items[i] # NoItem /\ items[i].cart = c => items'[i].variant = items[i].variant
  BY DEF KeepsRows, KeepsRow, SameKey
<1>2. RowsIn(c)' = RowsIn(c)
  BY <1>1, RowsInIs
<1>3. ASSUME NEW v PROVE ItemAt(c, v)' = ItemAt(c, v)
  BY <1>1, RowsInIs
<1> QED
  BY <1>2, <1>3

(* A guest cart that is deleted stays deleted.                             *)
LEMMA DeletedStays ==
    ASSUME EInv, NEW c \in GuestCarts, [Next]_vars, status[c] = "deleted"
    PROVE  status'[c] = "deleted"
<1>1. TypeOK /\ c \in CartIds /\ c[1] \notin Users
  BY OwnersAssumption DEF EInv, GuestCarts
<1>2. ASSUME NEW d \in CartIds, Opened(d) PROVE status'[c] = "deleted"
  BY <1>1, <1>2 DEF Opened, TypeOK
<1>3. ASSUME NEW u \in Users, GetCart(u) PROVE status'[c] = "deleted"
  BY <1>2, <1>3 DEF GetCart, NextCart
<1>4. ASSUME NEW p \in Procs, Write(p) PROVE status'[c] = "deleted"
  <2>1. req[p] \in Request
    BY <1>1 DEF TypeOK
  <2>2. CASE AddToCart(p) \/ AddToGuestCart(p)
    <3>1. req[p] \in AddRequest /\ ReserveIntoCart(p)
      BY <2>1, <2>2, RequestKind DEF AddToCart, AddToGuestCart
    <3>2. PICK d \in TargetCart(req[p].owner, req[p].cart) : Opened(d)
      BY <3>1 DEF ReserveIntoCart
    <3>3. d \in CartIds
      BY <1>1, <3>1, <3>2, CartsAreCarts DEF AddRequest
    <3> QED
      BY <1>2, <3>2, <3>3
  <2>3. CASE MergeCart(p)
    <3>1. PICK d : status' = [e \in CartIds |-> IF e = req[p].guest THEN "deleted"
                                        ELSE IF e = d /\ status[d] = "none" THEN "ACTIVE"
                                        ELSE status[e]]
      BY <2>3 DEF MergeCart
    <3> QED
      BY <1>1, <3>1
  <2>4. CASE Checkout(p)
    <3>1. req[p].cart[1] \in Users
      BY <2>4 DEF Checkout, EInv, RequestsOwn, OwnCarts
    <3>2. req[p].cart # c
      BY <1>1, <3>1
    <3> QED
      BY <1>1, <2>4, <3>2 DEF Checkout, TypeOK
  <2>5. CASE CleanupAbandonedGuestCart(p)
    BY <1>1, <2>5 DEF CleanupAbandonedGuestCart, TypeOK
  <2> QED
    BY <1>4, <2>2, <2>3, <2>4, <2>5
       DEF Write, UpdateCartItem, SaveUnheldRow, RemoveFromCart, ClearCart, DropRows,
           ReleaseExpiredReservations, ReleaseExpiredGuestReservations
<1>5. ASSUME NEW p \in Procs, Begin(p) \/ Lock(p) PROVE UNCHANGED status
  BY <1>5 DEF Begin, AddToCartBegin, AddToGuestCartBegin, UpdateCartItemBegin,
              RemoveFromCartBegin, ClearCartBegin, MergeCartBegin, CheckoutBegin,
              ReleaseBegin, ReleaseExpiredBegin, CleanupGuestCartBegin, ReadOnly,
              Lock, FindUnheldRow, MergeCartLock
<1> QED
  BY <1>3, <1>4, <1>5 DEF Next, Finish, vars, Rollback, Expire, ReadOnly

(* A guest cart with rows stays in the table.                              *)
LEMMA GuestRowsStayInTable ==
    ASSUME GuestInv, TypeOK', [Next]_vars
    PROVE  GuestRowsInTable' /\ SavedRowsInTable'
<1>1. /\ EInv /\ TypeOK /\ SavedRowsInTable /\ GuestRowsInTable
      /\ \A c \in CartIds : status[c] # "none" => status'[c] # "none"
  BY NextStatus DEF GuestInv, EInv, CInv, StatusStep
<1>2. ASSUME NEW c \in GuestCarts, RowsIn(c)' # {} PROVE status'[c] \notin {"none", "deleted"}
  <2>1. c \in CartIds
    BY DEF GuestCarts
  <2>2. CASE KeepsRows(c)
    <3>1. RowsIn(c) # {}
      BY <1>2, <2>2, KeptRows
    <3> QED
      BY <1>1, <2>1, <2>2, <3>1 DEF KeepsRows, GuestRowsInTable
  <2>3. CASE Deletes(c)
    BY <1>2, <2>3 DEF Deletes
  <2>4. ASSUME NEW p \in Procs, Inserts(p, c) PROVE status'[c] \notin {"none", "deleted"}
    BY <1>1, <2>1, <2>4 DEF Inserts, Insertable, Opened, TypeOK
  <2> QED
    BY <1>1, <2>2, <2>3, <2>4, NextOfGuest
<1>3. ASSUME NEW p \in Procs, NEW c \in GuestCarts, NEW i, req'[p].op = "saving",
             req'[p].row.cart = c, req'[p].item = i, items'[i] = NoItem
      PROVE  status'[c] = "deleted"
  <2>1. req'[p] = req[p]
    BY <1>1, <1>3, NextOfRequests DEF SavingStep
  <2>2. req[p] \in UpdateRequest /\ req[p].row.cart = c /\ req[p].item = i /\ req[p].op = "saving"
    BY <1>1, <1>3, <2>1, RequestKind DEF TypeOK
  <2>3. i \in ItemIds /\ c \in CartIds /\ req[p].row # NoItem
    BY <2>2, NullAssumption DEF UpdateRequest, Row
  <2>4. items[i] # NoItem => items[i].cart = c
    <3>1. ReadIn(req[p], i) = req[p].row
      BY <2>2 DEF ReadIn
    <3> QED
      BY <1>1, <2>2, <2>3, <3>1 DEF EInv, OneKeyPerRow, SameKey
  <2>5. items[i] = NoItem => status[c] = "deleted"
    BY <1>1, <2>2 DEF SavedRowsInTable
  <2>6. CASE status[c] = "deleted"
    BY <1>1, <2>6, DeletedStays
  <2>7. CASE items[i] # NoItem /\ items[i].cart = c
    <3>1. ~KeepsRows(c)
      BY <1>3, <2>3, <2>7 DEF KeepsRows, KeepsRow
    <3>2. ASSUME NEW q \in Procs, Inserts(q, c) PROVE FALSE
      BY <1>3, <2>3, <2>7, <3>2 DEF Inserts
    <3> QED
      BY <1>1, <3>1, <3>2, NextOfGuest DEF Deletes
  <2> QED
    BY <2>4, <2>5, <2>6, <2>7
<1> QED
  BY <1>2, <1>3 DEF GuestRowsInTable, SavedRowsInTable

(* Rows and passed additions of a guest cart stay within the bound.        *)
LEMMA NextGuestLoad ==
    ASSUME GuestInv, TypeOK', [Next]_vars, NEW c \in GuestCarts
    PROVE  GuestLoad(c)' <= MaxGuestItems + Cardinality(Procs) - 1
<1>1. /\ EInv /\ TypeOK /\ SavedRowsInTable /\ GuestRowsInTable /\ SeenCartsExist
      /\ GuestLoad(c) <= MaxGuestItems + Cardinality(Procs) - 1
      /\ c \in CartIds /\ c # NoCart
  BY NullAssumption DEF GuestInv, EInv, CInv, GuestCarts
<1>2. /\ Cardinality(Procs) \in Nat /\ MaxGuestItems \in Nat \ {0}
      /\ Cardinality(RowsIn(c)) \in Nat /\ Cardinality(RowsIn(c)') \in Nat
      /\ Cardinality(Passed(c)) \in Nat /\ Cardinality(Passed(c)') \in Nat
      /\ Cardinality(Passed(c)') <= Cardinality(Procs)
      /\ IsFiniteSet(RowsIn(c)) /\ IsFiniteSet(Passed(c))
  BY LoadsAreNat
<1>3. /\ GuestLoad(c) = Cardinality(RowsIn(c)) + Cardinality(Passed(c))
      /\ GuestLoad(c)' = Cardinality(RowsIn(c)') + Cardinality(Passed(c)')
  BY DEF GuestLoad
<1>4. CASE Cardinality(RowsIn(c)') <= MaxGuestItems - 1
  BY <1>2, <1>3, <1>4
<1>5. CASE KeepsRows(c) /\ ~(Cardinality(RowsIn(c)') <= MaxGuestItems - 1)
  <2>1. RowsIn(c)' = RowsIn(c) /\ \A v : ItemAt(c, v)' = ItemAt(c, v)
    BY <1>5, KeptRows
  <2>2. Cardinality(RowsIn(c)') = Cardinality(RowsIn(c))
    BY <2>1
  <2>3. Cardinality(RowsIn(c)) >= MaxGuestItems
    BY <1>2, <1>5, <2>2
  <2>4. Passed(c)' \subseteq Passed(c)
    <3> SUFFICES ASSUME NEW p \in Procs, NEW v, req'[p].op = "guestAdd", req'[p].cart = c,
                        req'[p].variant = v, ItemAt(c, v)' = {}
                 PROVE  p \in Passed(c)
      BY DEF Passed, ItemAt, Live
    <3>1. ItemAt(c, v) = {}
      BY <2>1
    <3>2. req'[p] = req[p]
      BY <1>1, <2>3, <3>1, NextOfRequests DEF GuestAddStep
    <3> QED
      BY <3>1, <3>2 DEF Passed
  <2>5. Cardinality(Passed(c)') <= Cardinality(Passed(c))
    BY <1>2, <2>4, FS_Subset
  <2> QED
    BY <1>1, <1>2, <1>3, <2>2, <2>5
<1>6. CASE Deletes(c)
  <2>1. Cardinality(RowsIn(c)') = 0
    BY <1>6, FS_EmptySet DEF Deletes
  <2> QED
    BY <1>2, <1>4, <2>1
<1>7. ASSUME NEW p \in Procs, Inserts(p, c)
      PROVE  GuestLoad(c)' <= MaxGuestItems + Cardinality(Procs) - 1
  <2> DEFINE v == req[p].variant
  <2>1. PICK i \in ItemIds : /\ items'[i] = NewRow(c, v, req[p].qty, TRUE)
                             /\ \A j \in ItemIds \ {i} : items'[j] = items[j]
                             /\ items[i] = NoItem
    BY <1>7 DEF Inserts
  <2>2. RowsIn(c)' \subseteq RowsIn(c) \cup {i} /\ \A w : ItemAt(c, w) \subseteq ItemAt(c, w)'
    BY <2>1, RowsInIs
  <2>3. Cardinality(RowsIn(c)') <= Cardinality(RowsIn(c)) + 1
    <3>1. /\ IsFiniteSet(RowsIn(c) \cup {i})
          /\ Cardinality(RowsIn(c) \cup {i}) = IF i \in RowsIn(c) THEN Cardinality(RowsIn(c))
                                               ELSE Cardinality(RowsIn(c)) + 1
      BY <1>2, FS_AddElement
    <3>2. Cardinality(RowsIn(c)') <= Cardinality(RowsIn(c) \cup {i})
      BY <2>2, <3>1, FS_Subset
    <3> QED
      BY <1>2, <3>1, <3>2
  <2>4. req'[p] = Idle /\ \A q \in Procs \ {p} : req'[q] = req[q]
    BY <1>1, <1>7 DEF Inserts, Done, TypeOK
  <2>5. Passed(c)' \subseteq Passed(c) \ {p}
    <3> SUFFICES ASSUME NEW q \in Procs, NEW w, req'[q].op = "guestAdd", req'[q].cart = c,
                        req'[q].variant = w, ItemAt(c, w)' = {}
                 PROVE  q \in Passed(c) \ {p}
      BY <2>4 DEF Passed, ItemAt, Live, Idle
    <3>1. q # p /\ req'[q] = req[q]
      BY <2>4
    <3> QED
      BY <2>2, <3>1 DEF Passed
  <2>6. CASE req[p].cart # NoCart
    <3>1. p \in Passed(c)
      BY <1>7, <2>6 DEF Inserts, TargetCart, Passed
    <3>2. IsFiniteSet(Passed(c) \ {p}) /\ Cardinality(Passed(c) \ {p}) = Cardinality(Passed(c)) - 1
      BY <1>2, <3>1, FS_RemoveElement
    <3>3. Cardinality(Passed(c)') <= Cardinality(Passed(c) \ {p})
      BY <2>5, <3>2, FS_Subset
    <3> QED
      BY <1>1, <1>2, <1>3, <2>3, <3>2, <3>3
  <2>7. CASE req[p].cart = NoCart
    <3>1. status[c] = "none"
      BY <1>7, <2>7 DEF Inserts, TargetCart, NextCart
    <3>2. RowsIn(c) = {}
      BY <1>1, <3>1 DEF GuestRowsInTable
    <3>3. Passed(c) = {}
      BY <1>1, <3>1 DEF Passed, SeenCartsExist
    <3>4. Passed(c)' = {}
      BY <2>5, <3>3
    <3>5. Cardinality(RowsIn(c)) = 0 /\ Cardinality(Passed(c)') = 0
      BY <3>2, <3>4, FS_EmptySet
    <3>6. Cardinality(Procs) >= 1
      <4>1. Cardinality(Procs) # 0
        BY BoundAssumption, FS_EmptySet
      <4> QED
        BY <1>2, <4>1
    <3> QED
      BY <1>2, <1>3, <2>3, <3>5, <3>6
  <2> QED
    BY <2>6, <2>7
<1> QED
  BY <1>1, <1>4, <1>5, <1>6, <1>7, NextOfGuest

(* GuestCartBound: however many additions to a guest cart overlap, with    *)
(* merges and the cleanup between them, the cart exceeds the limit by no   *)
(* more than the additions that can have passed the test together, and a   *)
(* deleted cart's successor starts from nothing.                           *)
THEOREM GuestCartsAreBounded == Spec => []GuestCartBound
<1>1. Init /\ EInv => GuestInv
  <2> SUFFICES ASSUME Init, EInv PROVE GuestInv
    OBVIOUS
  <2>1. CInv
    BY InitType DEF Init, CInv, SeenCartsExist, OneActiveCart, ActiveCarts
  <2>2. \A c : RowsIn(c) = {}
    BY RowsInIs DEF Init
  <2>3. \A c : Passed(c) = {}
    BY DEF Init, Passed
  <2>4. \A c : GuestLoad(c) = 0
    BY <2>2, <2>3, FS_EmptySet DEF GuestLoad
  <2>5. \A c : GuestLoad(c) <= MaxGuestItems + Cardinality(Procs) - 1
    BY <2>4, LoadsAreNat
  <2>6. SavedRowsInTable
    BY DEF Init, SavedRowsInTable
  <2> QED
    BY <2>1, <2>2, <2>5, <2>6 DEF GuestInv, GuestRowsInTable
<1>2. GuestInv /\ EInv' /\ [Next]_vars => GuestInv'
  <2> SUFFICES ASSUME GuestInv, EInv', [Next]_vars PROVE GuestInv'
    OBVIOUS
  <2>1. TypeOK' /\ CInv'
    BY NextCInv DEF EInv, GuestInv
  <2>2. \A c \in GuestCarts : GuestLoad(c)' <= MaxGuestItems + Cardinality(Procs) - 1
    BY <2>1, NextGuestLoad
  <2>3. GuestRowsInTable' /\ SavedRowsInTable'
    BY <2>1, GuestRowsStayInTable
  <2>4. GuestCarts' = GuestCarts
    BY DEF GuestCarts, CartIds, Owners
  <2> QED
    BY <2>1, <2>2, <2>3, <2>4 DEF GuestInv
<1>3. GuestInv => GuestCartBound
  <2> SUFFICES ASSUME GuestInv, NEW c \in CartIds, c[1] \in Sessions
               PROVE  Cardinality(RowsIn(c)) <= MaxGuestItems + Cardinality(Procs) - 1
    BY DEF GuestCartBound, RowsIn
  <2>1. GuestLoad(c) <= MaxGuestItems + Cardinality(Procs) - 1
    BY DEF GuestInv, GuestCarts
  <2> QED
    BY <2>1, LoadsAreNat DEF GuestLoad
<1> QED
  BY <1>1, <1>2, <1>3, RowsKeepTheirKey, PTL DEF Spec

=============================================================================
