------------------------ MODULE CartReservation_proofs ------------------------
(***************************************************************************)
(* Type correctness, capacity and the single active cart of                *)
(* CartReservation for any users, variants, stock and number of concurrent *)
(* requests.                                                               *)
(***************************************************************************)
EXTENDS CartReservation, TLAPS

USE DEF Idle

(* The op of a request tells which of the request records it is.           *)
LEMMA RequestKind ==
    ASSUME NEW r \in Request
    PROVE  /\ r.op \in {"add", "guestAdd"} => r \in AddRequest
           /\ r.op \in {"update", "saving"} => r \in UpdateRequest
           /\ r.op \in {"remove", "clear", "release", "releaseGuest"} => r \in DropRequest
           /\ r.op = "merge" => r \in MergeRequest
           /\ r.op = "merging" => r \in MergeLocked
           /\ r.op \in {"purge", "checkout"} => r \in CartRequest
  BY DEF Request, AddRequest, UpdateRequest, DropRequest, MergeRequest, MergeLocked, CartRequest

(* What a set of rows holds of a variant is a quantity.                    *)
LEMMA HeldQtyNat ==
    ASSUME NEW rows \in Rows, NEW v \in Variants
    PROVE  HeldQty(rows, v) \in Nat
<1>1. CASE Holding(rows, v) = {}
  BY <1>1 DEF HeldQty
<1>2. CASE Holding(rows, v) # {}
  <2>1. PICK i : i \in Holding(rows, v)
    BY <1>2
  <2>2. (CHOOSE j \in Holding(rows, v) : TRUE) \in Holding(rows, v)
    BY <2>1
  <2>3. \A j \in Holding(rows, v) : rows[j] \in Row
    BY DEF Holding, Live, Rows
  <2>4. rows[CHOOSE j \in Holding(rows, v) : TRUE] \in Row
    BY <2>2, <2>3
  <2> QED
    BY <1>2, <2>4 DEF HeldQty, Row
<1> QED
  BY <1>1, <1>2

(* The rows a query returns are rows.                                      *)
LEMMA QueriesReturnRows ==
    ASSUME TypeOK
    PROVE  /\ \A c : RowsOf(c) \in Rows
           /\ \A i : OnlyRow(i) \in Rows
           /\ \A rows : Unreserved(rows) \in Rows
<1>1. \A c : RowsOf(c) \in Rows
  BY DEF TypeOK, RowsOf, Rows
<1>2. \A i : OnlyRow(i) \in Rows
  BY DEF TypeOK, OnlyRow, Rows
<1>3. \A rows : Unreserved(rows) \in Rows
  <2> SUFFICES ASSUME NEW rows, NEW j \in ItemIds
               PROVE  Unreserved(rows)[j] \in Row \cup {NoItem}
    BY DEF Unreserved, Rows
  <2>1. items[j] \in Row \cup {NoItem}
    BY DEF TypeOK, Rows
  <2>2. items[j] \in Row => [items[j] EXCEPT !.isStockReserved = FALSE] \in Row
    BY DEF Row
  <2> QED
    BY <2>1, <2>2 DEF Unreserved
<1> QED
  BY <1>1, <1>2, <1>3

(* A counter minus what rows hold is a counter.                            *)
LEMMA ReleasedType ==
    ASSUME NEW rows \in Rows, NEW base \in [Variants -> Int], reserved \in [Variants -> Int]
    PROVE  /\ Released(rows) \in [Variants -> Int]
           /\ ReleasedToZero(base, rows) \in [Variants -> Int]
           /\ \A v \in Variants : Released(rows)[v] <= reserved[v]
           /\ \A v \in Variants : ReleasedToZero(base, rows)[v] <= base[v]
                                  \/ ReleasedToZero(base, rows)[v] = 0
<1>1. \A v \in Variants : HeldQty(rows, v) \in Nat
  BY HeldQtyNat
<1> QED
  BY <1>1 DEF Released, ReleasedToZero, AtLeastZero

-----------------------------------------------------------------------------
(* Steps that only start or end a request.                                 *)
LEMMA StartType ==
    ASSUME TypeOK, NEW p \in Procs, NEW r \in Request, Start(p, r), ReadOnly
    PROVE  TypeOK'
  BY DEF TypeOK, Start, ReadOnly

(* Ending a request leaves requests.                                       *)
LEMMA DoneType ==
    ASSUME TypeOK, NEW p \in Procs, Done(p)
    PROVE  req' \in [Procs -> Request]
  BY DEF TypeOK, Done, Request

(* Opening a cart keeps the types of carts.status and updated_at.          *)
LEMMA OpenedType ==
    ASSUME TypeOK, NEW c \in CartIds, Opened(c)
    PROVE  status' \in [CartIds -> CartStatus] /\ fresh' \subseteq CartIds
  BY DEF TypeOK, Opened, CartStatus

(* What a handler looks up and writes to are carts, or no cart.            *)
LEMMA CartsAreCarts ==
    ASSUME TypeOK, NEW o \in Owners
    PROVE  /\ FindActive(o) \subseteq CartIds \cup {NoCart}
           /\ \A seen \in CartIds \cup {NoCart} : TargetCart(o, seen) \subseteq CartIds
  BY DEF FindActive, ActiveCarts, TargetCart, NextCart

(* The unlocked reads of a handler keep the types and write no counter.    *)
LEMMA BeginType ==
    ASSUME TypeOK, NEW p \in Procs, Begin(p)
    PROVE  TypeOK' /\ UNCHANGED <<stock, reserved>>
<1> USE NullAssumption
<1>0. Users \subseteq Owners /\ Sessions \subseteq Owners /\ Qty \subseteq Nat \ {0}
  BY BoundAssumption DEF Owners, Qty
<1>1. ASSUME NEW u \in Users, NEW v \in Variants, NEW q \in Qty, AddToCartBegin(p, u, v, q)
      PROVE  TypeOK' /\ UNCHANGED <<stock, reserved>>
  <2>1. PICK c \in FindActive(u) :
           Start(p, [op |-> "add", owner |-> u, cart |-> c, variant |-> v, qty |-> q])
    BY <1>1 DEF AddToCartBegin
  <2>2. c \in CartIds \cup {NoCart}
    BY <1>0, <2>1, CartsAreCarts
  <2>3. [op |-> "add", owner |-> u, cart |-> c, variant |-> v, qty |-> q] \in Request
    BY <1>0, <2>2 DEF Request, AddRequest
  <2> QED
    BY <1>1, <2>1, <2>3, StartType DEF AddToCartBegin, ReadOnly
<1>2. ASSUME NEW s \in Sessions, NEW v \in Variants, NEW q \in Qty,
             AddToGuestCartBegin(p, s, v, q)
      PROVE  TypeOK' /\ UNCHANGED <<stock, reserved>>
  <2>1. PICK c \in FindActive(s) :
           Start(p, [op |-> "guestAdd", owner |-> s, cart |-> c, variant |-> v, qty |-> q])
    BY <1>2 DEF AddToGuestCartBegin
  <2>2. c \in CartIds \cup {NoCart}
    BY <1>0, <2>1, CartsAreCarts
  <2>3. [op |-> "guestAdd", owner |-> s, cart |-> c, variant |-> v, qty |-> q] \in Request
    BY <1>0, <2>2 DEF Request, AddRequest
  <2> QED
    BY <1>2, <2>1, <2>3, StartType DEF AddToGuestCartBegin, ReadOnly
<1>3. ASSUME NEW u \in Users, NEW i \in ItemIds, NEW q \in Qty, UpdateCartItemBegin(p, u, i, q)
      PROVE  TypeOK' /\ UNCHANGED <<stock, reserved>>
  <2>1. items[i] \in Row
    BY <1>3 DEF UpdateCartItemBegin, TypeOK, Rows
  <2>2. [op |-> "update", item |-> i, row |-> items[i], qty |-> q] \in Request
    BY <1>0, <2>1 DEF Request, UpdateRequest
  <2> QED
    BY <1>3, <2>2, StartType DEF UpdateCartItemBegin, ReadOnly
<1>4. ASSUME NEW u \in Users, NEW i \in ItemIds, RemoveFromCartBegin(p, u, i)
      PROVE  TypeOK' /\ UNCHANGED <<stock, reserved>>
  <2>1. [op |-> "remove", rows |-> OnlyRow(i)] \in Request
    BY QueriesReturnRows DEF Request, DropRequest
  <2> QED
    BY <1>4, <2>1, StartType DEF RemoveFromCartBegin, ReadOnly
<1>5. ASSUME NEW u \in Users, ClearCartBegin(p, u)
      PROVE  TypeOK' /\ UNCHANGED <<stock, reserved>>
  <2>1. \A c : [op |-> "clear", rows |-> RowsOf(c)] \in Request
    BY QueriesReturnRows DEF Request, DropRequest
  <2> QED
    BY <1>5, <2>1, StartType DEF ClearCartBegin, ReadOnly
<1>6. ASSUME NEW u \in Users, NEW s \in Sessions, NEW lines \in [Variants -> 0..MaxQty],
             MergeCartBegin(p, u, s, lines)
      PROVE  TypeOK' /\ UNCHANGED <<stock, reserved>>
  <2>1. PICK c \in FindActive(u) :
           Start(p, [op |-> "merge", owner |-> u, session |-> s, cart |-> c, lines |-> lines])
    BY <1>6 DEF MergeCartBegin
  <2>2. c \in CartIds \cup {NoCart}
    BY <1>0, <2>1, CartsAreCarts
  <2>3. [op |-> "merge", owner |-> u, session |-> s, cart |-> c, lines |-> lines] \in Request
    BY <2>2 DEF Request, MergeRequest
  <2> QED
    BY <1>6, <2>1, <2>3, StartType DEF MergeCartBegin, ReadOnly
<1>7. ASSUME NEW u \in Users, CheckoutBegin(p, u)
      PROVE  TypeOK' /\ UNCHANGED <<stock, reserved>>
  <2>1. \A c \in CartIds : [op |-> "checkout", cart |-> c, rows |-> RowsOf(c)] \in Request
    BY QueriesReturnRows DEF Request, CartRequest
  <2> QED
    BY <1>7, <2>1, StartType DEF CheckoutBegin, ReadOnly, ActiveCarts
<1>8. ASSUME NEW i \in ItemIds, ReleaseBegin(p, i)
      PROVE  TypeOK' /\ UNCHANGED <<stock, reserved>>
  <2>1. \A op \in {"release", "releaseGuest"} : [op |-> op, rows |-> OnlyRow(i)] \in Request
    BY QueriesReturnRows DEF Request, DropRequest
  <2> QED
    BY <1>8, <2>1, StartType DEF ReleaseBegin, ReleaseExpiredBegin, ReadOnly
<1>9. ASSUME NEW c \in CartIds, CleanupGuestCartBegin(p, c)
      PROVE  TypeOK' /\ UNCHANGED <<stock, reserved>>
  <2>1. [op |-> "purge", cart |-> c, rows |-> RowsOf(c)] \in Request
    BY QueriesReturnRows DEF Request, CartRequest
  <2> QED
    BY <1>9, <2>1, StartType DEF CleanupGuestCartBegin, ReadOnly
<1> QED
  BY <1>1, <1>2, <1>3, <1>4, <1>5, <1>6, <1>7, <1>8, <1>9 DEF Begin

-----------------------------------------------------------------------------
(* The steps that write.  Each keeps the types and, from a stock that is   *)
(* not negative, the capacity.                                             *)
CapacityStep == stock \in [Variants -> Nat] /\ Capacity => Capacity'
Kept == TypeOK' /\ UNCHANGED stock /\ CapacityStep

(* Capacity survives a release: a counter only sinks, or stops at zero.    *)
LEMMA ReleaseKeepsCapacity ==
    ASSUME TypeOK, NEW rows \in Rows, UNCHANGED stock,
           reserved' = Released(rows) \/ reserved' = ReleasedToZero(reserved, rows)
    PROVE  reserved' \in [Variants -> Int] /\ CapacityStep
<1>1. reserved \in [Variants -> Int]
  BY DEF TypeOK
<1>2. /\ reserved' \in [Variants -> Int]
      /\ \A v \in Variants : reserved'[v] <= reserved[v] \/ reserved'[v] = 0
  BY <1>1, ReleasedType
<1> QED
  BY <1>1, <1>2 DEF Capacity, CapacityStep

(* getCart inserts a cart at most.                                         *)
LEMMA GetCartKeeps ==
    ASSUME TypeOK, NEW u \in Users, GetCart(u)
    PROVE  Kept
<1>1. PICK c \in NextCart(u) : Opened(c)
  BY DEF GetCart
<1>2. status' \in [CartIds -> CartStatus] /\ fresh' \subseteq CartIds
  BY <1>1, OpenedType DEF NextCart
<1> QED
  BY <1>2 DEF GetCart, TypeOK, Kept, Capacity, CapacityStep

(* addToCart and addToGuestCart reserve what they have tested.             *)
LEMMA ReserveIntoCartKeeps ==
    ASSUME TypeOK, NEW p \in Procs, req[p] \in AddRequest, ReserveIntoCart(p)
    PROVE  Kept
<1> DEFINE r == req[p]  v == req[p].variant
<1>1. /\ r.owner \in Owners /\ r.cart \in CartIds \cup {NoCart}
      /\ v \in Variants /\ r.qty \in Nat \ {0}
  BY DEF AddRequest
<1>2. PICK c \in TargetCart(r.owner, r.cart) :
        /\ Opened(c)
        /\ \/ \E i \in ItemAt(c, v) \cap Holding(items, v) :
                /\ items[i].qty + r.qty <= MaxQty
                /\ items' = [items EXCEPT ![i].qty = @ + r.qty]
                /\ UNCHANGED issued
           \/ /\ ItemAt(c, v) = {} /\ Insertable(c)
              /\ \E i \in ItemIds \ issued :
                    /\ items' = [items EXCEPT ![i] = NewRow(c, v, r.qty, TRUE)]
                    /\ issued' = issued \cup {i}
  BY DEF ReserveIntoCart
<1>3. c \in CartIds
  BY <1>1, <1>2, CartsAreCarts
<1>4. status' \in [CartIds -> CartStatus] /\ fresh' \subseteq CartIds
  BY <1>2, <1>3, OpenedType
<1>5. items' \in Rows /\ issued' \subseteq ItemIds
  <2>1. CASE \E i \in ItemAt(c, v) :
                /\ items' = [items EXCEPT ![i].qty = @ + r.qty]
                /\ UNCHANGED issued
    <3>1. PICK i \in ItemAt(c, v) : /\ items' = [items EXCEPT ![i].qty = @ + r.qty]
                                    /\ UNCHANGED issued
      BY <2>1
    <3>2. i \in ItemIds /\ items[i] \in Row
      BY DEF ItemAt, Live, TypeOK, Rows
    <3>3. [items[i] EXCEPT !.qty = @ + r.qty] \in Row
      BY <1>1, <3>2 DEF Row
    <3> QED
      BY <3>1, <3>2, <3>3 DEF TypeOK, Rows
  <2>2. CASE \E i \in ItemIds \ issued :
                /\ items' = [items EXCEPT ![i] = NewRow(c, v, r.qty, TRUE)]
                /\ issued' = issued \cup {i}
    <3>1. NewRow(c, v, r.qty, TRUE) \in Row
      BY <1>1, <1>3 DEF NewRow, Row
    <3> QED
      BY <2>2, <3>1 DEF TypeOK, Rows
  <2> QED
    BY <1>2, <2>1, <2>2
<1>6. reserved' \in [Variants -> Int] /\ CapacityStep /\ stock' = stock
  BY <1>1 DEF ReserveIntoCart, TypeOK, Capacity, CapacityStep, Available
<1>7. req' \in [Procs -> Request]
  BY DoneType DEF ReserveIntoCart
<1> QED
  BY <1>4, <1>5, <1>6, <1>7 DEF TypeOK, Kept

(* Finding a row that holds no stock writes nothing.                       *)
LEMMA FindUnheldRowKeeps ==
    ASSUME TypeOK, NEW p \in Procs, req[p] \in AddRequest, FindUnheldRow(p)
    PROVE  Kept
<1> DEFINE r == req[p]
           saving(i) == [op |-> "saving", item |-> i, row |-> items[i], qty |-> r.qty]
<1>1. PICK i \in ItemAt(r.cart, r.variant) : req' = [req EXCEPT ![p] = saving(i)]
  BY DEF FindUnheldRow
<1>2. i \in ItemIds /\ items[i] \in Row /\ r.qty \in Nat \ {0}
  BY <1>1 DEF ItemAt, Live, TypeOK, Rows, AddRequest
<1>3. saving(i) \in Request
  BY <1>2 DEF Request, UpdateRequest
<1> QED
  BY <1>1, <1>3 DEF FindUnheldRow, ReadOnly, TypeOK, Kept, Capacity, CapacityStep

(* Saving that row reserves what has been tested.                          *)
LEMMA SaveUnheldRowKeeps ==
    ASSUME TypeOK, NEW p \in Procs, req[p] \in UpdateRequest, SaveUnheldRow(p)
    PROVE  Kept
<1> DEFINE r == req[p]  v == req[p].row.variant
<1>1. r.item \in ItemIds /\ r.row \in Row /\ r.qty \in Nat \ {0}
  BY DEF UpdateRequest
<1>2. /\ r.row.cart \in CartIds /\ v \in Variants /\ r.row.qty \in Nat \ {0}
      /\ r.row.isStockReserved \in BOOLEAN
  BY <1>1 DEF Row
<1>3. NewRow(r.row.cart, v, r.row.qty + r.qty, r.row.isStockReserved) \in Row
  BY <1>1, <1>2 DEF NewRow, Row
<1>4. items' \in Rows
  BY <1>1, <1>3 DEF SaveUnheldRow, TypeOK, Rows
<1>5. reserved' \in [Variants -> Int] /\ CapacityStep /\ stock' = stock
  BY <1>1, <1>2 DEF SaveUnheldRow, TypeOK, Capacity, CapacityStep, Available
<1>6. req' \in [Procs -> Request]
  BY DoneType DEF SaveUnheldRow
<1> QED
  BY <1>4, <1>5, <1>6 DEF SaveUnheldRow, TypeOK, Kept

(* updateCartItem reserves what it has tested, or releases.                *)
LEMMA UpdateCartItemKeeps ==
    ASSUME TypeOK, NEW p \in Procs, req[p] \in UpdateRequest, UpdateCartItem(p)
    PROVE  Kept
<1> DEFINE r == req[p]  v == req[p].row.variant
           need == IF r.row.isStockReserved THEN r.qty - r.row.qty ELSE r.qty
           held == r.row.isStockReserved \/ v \in Physical
<1>1. r.item \in ItemIds /\ r.row \in Row /\ r.qty \in Nat \ {0}
  BY DEF UpdateRequest
<1>2. r.row.cart \in CartIds /\ v \in Variants /\ need \in Int
  BY <1>1 DEF Row
<1>3. NewRow(r.row.cart, v, r.qty, held) \in Row
  BY <1>1, <1>2 DEF NewRow, Row
<1>4. items' \in Rows
  BY <1>1, <1>3 DEF UpdateCartItem, TypeOK, Rows
<1>5. reserved' = [reserved EXCEPT ![v] = IF v \in Physical THEN @ + need ELSE @]
  BY DEF UpdateCartItem
<1>6. v \in Physical /\ need > 0 => stock[v] - reserved[v] >= need
  BY DEF UpdateCartItem, Available
<1>7. reserved' \in [Variants -> Int] /\ CapacityStep /\ stock' = stock
  <2>1. stock' = stock
    BY DEF UpdateCartItem
  <2>2. reserved \in [Variants -> Int] /\ stock \in [Variants -> Int]
    BY DEF TypeOK
  <2>3. reserved' \in [Variants -> Int]
    BY <1>2, <1>5, <2>2
  <2>4. ASSUME NEW w \in Variants, reserved[w] <= stock[w] PROVE reserved'[w] <= stock[w]
    <3>1. reserved[w] <= stock[w]
      BY <2>4
    <3>2. CASE w = v /\ v \in Physical
      <4>1. reserved'[w] = reserved[w] + need
        BY <1>2, <1>5, <2>2, <3>2
      <4> QED
        BY <1>2, <1>6, <2>2, <3>1, <3>2, <4>1
    <3>3. CASE ~(w = v /\ v \in Physical)
      BY <1>5, <2>2, <3>1, <3>3
    <3> QED
      BY <3>2, <3>3
  <2> QED
    BY <2>1, <2>3, <2>4 DEF Capacity, CapacityStep
<1>8. req' \in [Procs -> Request]
  BY DoneType DEF UpdateCartItem
<1> QED
  BY <1>4, <1>7, <1>8 DEF UpdateCartItem, TypeOK, Kept

(* removeFromCart and clearCart only release.                              *)
LEMMA DropRowsKeeps ==
    ASSUME TypeOK, NEW p \in Procs, req[p] \in DropRequest, DropRows(p)
    PROVE  Kept
<1>1. req[p].rows \in Rows
  BY DEF DropRequest
<1>2. reserved' \in [Variants -> Int] /\ CapacityStep
  BY <1>1, ReleaseKeepsCapacity DEF DropRows
<1>3. items' \in Rows
  BY DEF DropRows, TypeOK, Rows
<1>4. req' \in [Procs -> Request]
  BY DoneType DEF DropRows
<1> QED
  BY <1>2, <1>3, <1>4 DEF DropRows, TypeOK, Kept

(* Both release jobs only release.                                         *)
LEMMA ReleaseKeeps ==
    ASSUME TypeOK, NEW p \in Procs, req[p] \in DropRequest, Release(p)
    PROVE  Kept
<1>1. req[p].rows \in Rows
  BY DEF DropRequest
<1>2. reserved' \in [Variants -> Int] /\ CapacityStep
  BY <1>1, ReleaseKeepsCapacity
     DEF Release, ReleaseExpiredReservations, ReleaseExpiredGuestReservations
<1>3. items' \in Rows
  BY QueriesReturnRows
     DEF Release, ReleaseExpiredReservations, ReleaseExpiredGuestReservations
<1>4. req' \in [Procs -> Request]
  BY DoneType DEF Release, ReleaseExpiredReservations, ReleaseExpiredGuestReservations
<1> QED
  BY <1>2, <1>3, <1>4
     DEF Release, ReleaseExpiredReservations, ReleaseExpiredGuestReservations, TypeOK, Kept

(* The purge of guest carts only releases.                                 *)
LEMMA CleanupKeeps ==
    ASSUME TypeOK, NEW p \in Procs, req[p] \in CartRequest, CleanupAbandonedGuestCart(p)
    PROVE  Kept
<1>1. req[p].rows \in Rows
  BY DEF CartRequest
<1>2. reserved' \in [Variants -> Int] /\ CapacityStep
  BY <1>1, ReleaseKeepsCapacity DEF CleanupAbandonedGuestCart
<1>3. items' \in Rows
  BY DEF CleanupAbandonedGuestCart, TypeOK, Rows
<1>4. status' \in [CartIds -> CartStatus]
  BY DEF CleanupAbandonedGuestCart, TypeOK, CartStatus
<1>5. req' \in [Procs -> Request]
  BY DoneType DEF CleanupAbandonedGuestCart
<1> QED
  BY <1>2, <1>3, <1>4, <1>5 DEF CleanupAbandonedGuestCart, TypeOK, Kept

(* The locks and reads of a merge write nothing.                           *)
LEMMA MergeCartLockKeeps ==
    ASSUME TypeOK, NEW p \in Procs, req[p] \in MergeRequest, MergeCartLock(p)
    PROVE  Kept
<1> DEFINE r == req[p]
           locked(g) == [op |-> "merging", owner |-> r.owner, session |-> r.session,
                         cart |-> r.cart, lines |-> r.lines, guest |-> g, rows |-> RowsOf(g)]
<1>1. PICK g \in FindActive(r.session) : req' = [req EXCEPT ![p] = locked(g)]
  BY DEF MergeCartLock
<1>2. /\ r.owner \in Users /\ r.session \in Sessions /\ r.cart \in CartIds \cup {NoCart}
      /\ r.lines \in [Variants -> 0..MaxQty]
  BY DEF MergeRequest
<1>3. g \in CartIds \cup {NoCart}
  BY <1>1, <1>2, CartsAreCarts DEF Owners
<1>4. RowsOf(g) \in Rows
  BY QueriesReturnRows
<1>5. locked(g) \in Request
  BY <1>2, <1>3, <1>4 DEF Request, MergeLocked
<1> QED
  BY <1>1, <1>5 DEF MergeCartLock, ReadOnly, TypeOK, Kept, Capacity, CapacityStep

(* The lines a merge adds and the guest rows it deletes leave rows.        *)
LEMMA ProcessItemMergeType ==
    ASSUME TypeOK, NEW r \in MergeLocked, NEW c \in CartIds, NEW gone, ProcessItemMerge(r, c, gone)
    PROVE  items' \in Rows /\ issued' \subseteq ItemIds
<1> DEFINE added == Mergeable(r)
           new == {v \in added : ItemAt(c, v) = {}}
           MergedItem(id, i) ==
             IF i \in gone THEN NoItem
             ELSE IF items[i] # NoItem
             THEN IF items[i].cart = c /\ items[i].variant \in added
                  THEN [items[i] EXCEPT !.qty = @ + r.lines[items[i].variant]]
                  ELSE items[i]
             ELSE IF \E v \in new : id[v] = i
             THEN LET v == CHOOSE w \in new : id[w] = i
                  IN NewRow(c, v, r.lines[v], v \in Physical)
             ELSE NoItem
<1>1. PICK id \in [new -> ItemIds \ issued] :
        /\ issued' = issued \cup {id[v] : v \in new}
        /\ items' = [i \in ItemIds |-> MergedItem(id, i)]
  BY DEF ProcessItemMerge
<1>2. /\ added \subseteq Variants /\ \A v \in Variants : r.lines[v] \in Nat
      /\ \A v \in added : r.lines[v] > 0
  BY BoundAssumption DEF Mergeable, MergeLocked
<1>3. ASSUME NEW i \in ItemIds PROVE MergedItem(id, i) \in Row \cup {NoItem}
  <2>1. items[i] \in Row \cup {NoItem}
    BY DEF TypeOK, Rows
  <2>2. items[i] \in Row /\ items[i].variant \in added
          => [items[i] EXCEPT !.qty = @ + r.lines[items[i].variant]] \in Row
    BY <1>2 DEF Row
  <2>3. \A v \in new : NewRow(c, v, r.lines[v], v \in Physical) \in Row
    BY <1>2 DEF NewRow, Row
  <2>4. (\E v \in new : id[v] = i) => (CHOOSE w \in new : id[w] = i) \in new
    OBVIOUS
  <2> HIDE DEF new, added
  <2> QED
    BY <2>1, <2>2, <2>3, <2>4
<1>4. items' \in Rows
  BY <1>1, <1>3 DEF Rows
<1>5. issued' \subseteq ItemIds
  BY <1>1 DEF TypeOK
<1> QED
  BY <1>4, <1>5

(* A merge reserves the lines it has tested and releases the rest.         *)
LEMMA MergeCartKeeps ==
    ASSUME TypeOK, NEW p \in Procs, req[p] \in MergeLocked, MergeCart(p)
    PROVE  Kept
<1> DEFINE r == req[p]
           taken == [v \in Variants |-> IF v \in Physical /\ v \in Mergeable(r)
                                        THEN reserved[v] + r.lines[v] ELSE reserved[v]]
           gone == {i \in Live(items) : items[i].cart = r.guest} \cup Live(r.rows)
<1>1. /\ r.owner \in Owners /\ r.cart \in CartIds \cup {NoCart} /\ r.rows \in Rows
      /\ \A v \in Variants : r.lines[v] \in Nat
  BY BoundAssumption DEF MergeLocked, Owners
<1>2. PICK c \in TargetCart(r.owner, r.cart) :
        /\ ProcessItemMerge(r, c, gone)
        /\ status' = [d \in CartIds |-> IF d = r.guest THEN "deleted"
                                        ELSE IF d = c /\ status[c] = "none" THEN "ACTIVE"
                                        ELSE status[d]]
        /\ fresh' = IF status[c] = "none" THEN fresh \cup {c} ELSE fresh
  BY DEF MergeCart
<1>3. c \in CartIds
  BY <1>1, <1>2, CartsAreCarts
<1>4. status' \in [CartIds -> CartStatus] /\ fresh' \subseteq CartIds
  BY <1>2, <1>3 DEF TypeOK, CartStatus
<1>5. items' \in Rows /\ issued' \subseteq ItemIds
  BY <1>2, <1>3, ProcessItemMergeType
<1>6. stock \in [Variants -> Int] /\ reserved \in [Variants -> Int]
  BY DEF TypeOK
<1>7. /\ taken \in [Variants -> Int]
      /\ \A v \in Variants : reserved[v] <= stock[v] => taken[v] <= stock[v]
  BY <1>1, <1>6 DEF Mergeable, Available
<1>8. reserved' = ReleasedToZero(taken, r.rows) /\ stock' = stock
  BY DEF MergeCart
<1>9. reserved' \in [Variants -> Int] /\ CapacityStep
  <2> HIDE DEF taken
  <2>1. /\ ReleasedToZero(taken, r.rows) \in [Variants -> Int]
        /\ \A v \in Variants : ReleasedToZero(taken, r.rows)[v] <= taken[v]
                               \/ ReleasedToZero(taken, r.rows)[v] = 0
    BY <1>1, <1>6, <1>7, ReleasedType
  <2> QED
    BY <1>6, <1>7, <1>8, <2>1 DEF Capacity, CapacityStep
<1>10. req' \in [Procs -> Request]
  BY DoneType DEF MergeCart
<1> QED
  BY <1>4, <1>5, <1>8, <1>9, <1>10 DEF TypeOK, Kept

(* A checkout reserves again what it has tested, just in time.             *)
LEMMA CheckoutKeeps ==
    ASSUME TypeOK, NEW p \in Procs, req[p] \in CartRequest, Checkout(p)
    PROVE  Kept
<1> DEFINE rows == req[p].rows
           jit(v) == {i \in JustInTime(rows) : rows[i].variant = v}
<1>1. rows \in Rows /\ req[p].cart \in CartIds
  BY DEF CartRequest
<1>2. reserved' = [v \in Variants |-> IF jit(v) = {} THEN reserved[v]
                                     ELSE reserved[v] + rows[CHOOSE i \in jit(v) : TRUE].qty]
  BY DEF Checkout
<1>3. ASSUME NEW v \in Variants, jit(v) # {}
      PROVE  /\ rows[CHOOSE i \in jit(v) : TRUE].qty \in Nat
             /\ stock[v] - reserved[v] >= rows[CHOOSE i \in jit(v) : TRUE].qty
  <2>1. PICK i : i \in jit(v)
    BY <1>3
  <2>2. (CHOOSE j \in jit(v) : TRUE) \in jit(v)
    BY <2>1
  <2>3. ASSUME NEW j \in jit(v)
        PROVE  rows[j].qty \in Nat /\ stock[v] - reserved[v] >= rows[j].qty
    <3>1. /\ j \in Live(rows) /\ rows[j].variant = v
          /\ rows[j].variant \in Physical /\ ~rows[j].isStockReserved
      BY DEF JustInTime
    <3>2. rows[j].qty \in Nat
      BY <1>1, <3>1 DEF Live, Rows, Row
    <3> QED
      BY <3>1, <3>2 DEF Checkout, Available
  <2> HIDE DEF jit
  <2> QED
    BY <2>2, <2>3
<1>4. stock \in [Variants -> Int] /\ reserved \in [Variants -> Int] /\ stock' = stock
  BY DEF TypeOK, Checkout
<1>5. reserved' \in [Variants -> Int] /\ CapacityStep
  <2> HIDE DEF jit
  <2> QED
    BY <1>2, <1>3, <1>4 DEF Capacity, CapacityStep
<1>6. status' \in [CartIds -> CartStatus] /\ fresh' \subseteq CartIds
  BY <1>1 DEF Checkout, TypeOK, CartStatus
<1>7. req' \in [Procs -> Request]
  BY DoneType DEF Checkout
<1> QED
  BY <1>4, <1>5, <1>6, <1>7 DEF Checkout, TypeOK, Kept

(* The unlocked reads write no counter.                                    *)
LEMMA BeginKeeps ==
    ASSUME TypeOK, NEW p \in Procs, Begin(p)
    PROVE  Kept
  BY BeginType DEF Kept, Capacity, CapacityStep

(* A request ends with the step that writes.                               *)
LEMMA WriteEnds ==
    ASSUME NEW p \in Procs, Write(p)
    PROVE  Done(p)
  BY DEF Write, AddToCart, AddToGuestCart, ReserveIntoCart, SaveUnheldRow, UpdateCartItem,
         RemoveFromCart, ClearCart, DropRows, MergeCart, Checkout,
         ReleaseExpiredReservations, ReleaseExpiredGuestReservations,
         CleanupAbandonedGuestCart

(* Every second step finds the request its first step left.                *)
LEMMA FinishKeeps ==
    ASSUME TypeOK, NEW p \in Procs, Finish(p)
    PROVE  Kept
<1>1. req[p] \in Request
  BY DEF TypeOK
<1>2. CASE AddToCart(p) \/ AddToGuestCart(p)
  BY <1>1, <1>2, RequestKind, ReserveIntoCartKeeps DEF AddToCart, AddToGuestCart
<1>3. CASE UpdateCartItem(p)
  BY <1>1, <1>3, RequestKind, UpdateCartItemKeeps DEF UpdateCartItem
<1>4. CASE RemoveFromCart(p) \/ ClearCart(p)
  BY <1>1, <1>4, RequestKind, DropRowsKeeps DEF RemoveFromCart, ClearCart
<1>5. CASE MergeCartLock(p)
  BY <1>1, <1>5, RequestKind, MergeCartLockKeeps DEF MergeCartLock
<1>6. CASE MergeCart(p)
  BY <1>1, <1>6, RequestKind, MergeCartKeeps DEF MergeCart
<1>7. CASE Checkout(p)
  BY <1>1, <1>7, RequestKind, CheckoutKeeps DEF Checkout
<1>8. CASE ReleaseExpiredReservations(p) \/ ReleaseExpiredGuestReservations(p)
  <2>1. req[p].op \in {"release", "releaseGuest"} /\ Release(p)
    BY <1>8 DEF Release, ReleaseExpiredReservations, ReleaseExpiredGuestReservations
  <2> QED
    BY <1>1, <2>1, RequestKind, ReleaseKeeps
<1>9. CASE CleanupAbandonedGuestCart(p)
  BY <1>1, <1>9, RequestKind, CleanupKeeps DEF CleanupAbandonedGuestCart
<1>10. CASE FindUnheldRow(p)
  BY <1>1, <1>10, RequestKind, FindUnheldRowKeeps DEF FindUnheldRow
<1>11. CASE SaveUnheldRow(p)
  BY <1>1, <1>11, RequestKind, SaveUnheldRowKeeps DEF SaveUnheldRow
<1> QED
  BY <1>2, <1>3, <1>4, <1>5, <1>6, <1>7, <1>8, <1>9, <1>10, <1>11 DEF Finish, Lock, Write

(* A rollback writes nothing.                                              *)
LEMMA RollbackKeeps ==
    ASSUME TypeOK, NEW p \in Procs, Rollback(p)
    PROVE  Kept
  BY DoneType DEF Rollback, ReadOnly, TypeOK, Kept, Capacity, CapacityStep

(* The passing of a TTL writes nothing.                                    *)
LEMMA ExpireKeeps ==
    ASSUME TypeOK, NEW c \in CartIds, Expire(c)
    PROVE  Kept
  BY DEF Expire, TypeOK, Kept, Capacity, CapacityStep

(* Every step keeps the types and, from a stock that is not negative, the  *)
(* capacity.                                                               *)
LEMMA NextKeeps ==
    ASSUME TypeOK, [Next]_vars
    PROVE  Kept
<1>1. CASE \E u \in Users : GetCart(u)
  BY <1>1, GetCartKeeps
<1>2. CASE \E p \in Procs : Begin(p)
  BY <1>2, BeginKeeps
<1>3. CASE \E p \in Procs : Finish(p)
  BY <1>3, FinishKeeps
<1>4. CASE \E p \in Procs : Rollback(p)
  BY <1>4, RollbackKeeps
<1>5. CASE \E c \in CartIds : Expire(c)
  BY <1>5, ExpireKeeps
<1>6. CASE UNCHANGED vars
  BY <1>6 DEF vars, TypeOK, Kept, Capacity, CapacityStep
<1> QED
  BY <1>1, <1>2, <1>3, <1>4, <1>5, <1>6 DEF Next

-----------------------------------------------------------------------------
(* The tables are well typed at the start.                                 *)
LEMMA InitType == Init => TypeOK
  BY StockAssumption DEF Init, TypeOK, Rows, CartStatus, Request

(* Every state of every run has well-typed tables and requests.            *)
THEOREM Typing == Spec => []TypeOK
<1>1. TypeOK /\ [Next]_vars => TypeOK'
  BY NextKeeps DEF Kept
<1> QED
  BY <1>1, InitType, PTL DEF Spec

(* The handlers leave stockQuantity alone, so it stays non-negative: a     *)
(* counter that GREATEST lifts to zero does not rise above it.             *)
StockKept == stock = InitialStock
IInv == TypeOK /\ StockKept /\ Capacity

(* No run, of any number of concurrent cart requests, checkouts and release *)
(* jobs, ever reserves more of a variant than its stock: the stock test and *)
(* the reservation of AddToCart, UpdateCartItem, MergeCart and Checkout are *)
(* made under one row lock.                                                 *)
THEOREM NeverOverReserved == Spec => []Capacity
<1>1. Init => IInv
  BY InitType, StockAssumption DEF Init, IInv, StockKept, Capacity
<1>2. IInv /\ [Next]_vars => IInv'
  BY NextKeeps, StockAssumption DEF IInv, StockKept, Kept, CapacityStep
<1>3. IInv => Capacity
  BY DEF IInv
<1> QED
  BY <1>1, <1>2, <1>3, PTL DEF Spec

-----------------------------------------------------------------------------
(* One active cart per owner.  A cart becomes active only when it is       *)
(* inserted, and a request that has seen a cart writes to that cart: the   *)
(* cart exists by then and is not inserted again.                          *)
SeenCartsExist ==
    \A p \in Procs :
        req[p].op \in {"add", "guestAdd", "merge", "merging"} /\ req[p].cart # NoCart
            => status[req[p].cart] # "none"
CInv == TypeOK /\ SeenCartsExist /\ OneActiveCart

(* No step takes a cart out of the table's history, and none makes a       *)
(* second cart of an owner active.                                         *)
StatusStep ==
    /\ \A c \in CartIds : status[c] # "none" => status'[c] # "none"
    /\ \A c, d \in CartIds :
         c # d /\ c[1] = d[1] /\ status'[c] = "ACTIVE" /\ status'[d] = "ACTIVE"
           => status[c] = "ACTIVE" /\ status[d] = "ACTIVE"

(* A step that inserts the cart it writes to, or writes to a cart it saw.  *)
LEMMA TargetIsKept ==
    ASSUME TypeOK, NEW o \in Owners, NEW seen \in CartIds \cup {NoCart},
           seen # NoCart => status[seen] # "none", NEW c \in TargetCart(o, seen)
    PROVE  /\ c \in CartIds
           /\ status[c] = "none" => /\ \A d \in CartIds : d[1] = c[1] => status[d] # "ACTIVE"
                                    /\ c[1] = o
  BY NullAssumption DEF TargetCart, NextCart, ActiveCarts

(* Opening a cart of an owner without an active one is a StatusStep.       *)
LEMMA OpenedStatus ==
    ASSUME TypeOK, NEW c \in CartIds, Opened(c),
           status[c] = "none" => \A d \in CartIds : d[1] = c[1] => status[d] # "ACTIVE"
    PROVE  StatusStep
  BY DEF StatusStep, Opened, TypeOK, CartStatus

(* getCart inserts a cart only when it finds none.                         *)
LEMMA GetCartStatus ==
    ASSUME TypeOK, NEW u \in Users, GetCart(u)
    PROVE  StatusStep
<1>1. PICK c \in NextCart(u) : Opened(c)
  BY DEF GetCart
<1>2. c \in CartIds /\ \A d \in CartIds : d[1] = c[1] => status[d] # "ACTIVE"
  BY DEF NextCart, GetCart, ActiveCarts
<1> QED
  BY <1>1, <1>2, OpenedStatus

(* An add inserts a cart only beside no active one.                        *)
LEMMA ReserveIntoCartStatus ==
    ASSUME TypeOK, SeenCartsExist, NEW p \in Procs, req[p] \in AddRequest, ReserveIntoCart(p)
    PROVE  StatusStep
<1>1. /\ req[p].op \in {"add", "guestAdd"}
      /\ req[p].owner \in Owners /\ req[p].cart \in CartIds \cup {NoCart}
  BY DEF AddRequest
<1>2. req[p].cart # NoCart => status[req[p].cart] # "none"
  BY <1>1 DEF SeenCartsExist
<1>3. PICK c \in TargetCart(req[p].owner, req[p].cart) : Opened(c)
  BY DEF ReserveIntoCart
<1> QED
  BY <1>1, <1>2, <1>3, TargetIsKept, OpenedStatus

(* A merge inserts a cart only beside no active one.                       *)
LEMMA MergeCartStatus ==
    ASSUME TypeOK, SeenCartsExist, NEW p \in Procs, req[p] \in MergeLocked, MergeCart(p)
    PROVE  StatusStep
<1> DEFINE r == req[p]
<1>1. /\ r.op = "merging" /\ r.owner \in Owners /\ r.cart \in CartIds \cup {NoCart}
  BY DEF MergeLocked, Owners
<1>2. r.cart # NoCart => status[r.cart] # "none"
  BY <1>1 DEF SeenCartsExist
<1>3. PICK c \in TargetCart(r.owner, r.cart) :
         status' = [d \in CartIds |-> IF d = r.guest THEN "deleted"
                                      ELSE IF d = c /\ status[c] = "none" THEN "ACTIVE"
                                      ELSE status[d]]
  BY DEF MergeCart
<1>4. /\ c \in CartIds
      /\ status[c] = "none" => \A d \in CartIds : d[1] = c[1] => status[d] # "ACTIVE"
  BY <1>1, <1>2, <1>3, TargetIsKept
<1> QED
  BY <1>3, <1>4 DEF StatusStep

(* Every step is a StatusStep.                                             *)
LEMMA NextStatus ==
    ASSUME TypeOK, SeenCartsExist, [Next]_vars
    PROVE  StatusStep
<1>1. CASE UNCHANGED status
  BY <1>1 DEF StatusStep
<1>2. CASE \E u \in Users : GetCart(u)
  BY <1>2, GetCartStatus
<1>3. ASSUME NEW p \in Procs, Finish(p) PROVE StatusStep
  <2>1. req[p] \in Request
    BY DEF TypeOK
  <2>2. CASE AddToCart(p) \/ AddToGuestCart(p)
    BY <2>1, <2>2, RequestKind, ReserveIntoCartStatus DEF AddToCart, AddToGuestCart
  <2>3. CASE MergeCart(p)
    BY <2>1, <2>3, RequestKind, MergeCartStatus DEF MergeCart
  <2>4. CASE Checkout(p)
    <3>1. req[p].cart \in CartIds
      BY <2>1, <2>4, RequestKind DEF Checkout, CartRequest
    <3> QED
      BY <2>4, <3>1 DEF Checkout, StatusStep, TypeOK
  <2>5. CASE CleanupAbandonedGuestCart(p)
    <3>1. req[p].cart \in CartIds
      BY <2>1, <2>5, RequestKind DEF CleanupAbandonedGuestCart, CartRequest
    <3> QED
      BY <2>5, <3>1 DEF CleanupAbandonedGuestCart, StatusStep, TypeOK
  <2>6. CASE UNCHANGED status
    BY <1>1, <2>6
  <2> QED
    BY <1>3, <2>2, <2>3, <2>4, <2>5, <2>6
       DEF Finish, Lock, Write, FindUnheldRow, SaveUnheldRow, UpdateCartItem, RemoveFromCart,
           ClearCart, DropRows, MergeCartLock, ReadOnly, ReleaseExpiredReservations,
           ReleaseExpiredGuestReservations
<1>4. ASSUME NEW p \in Procs, Begin(p) PROVE UNCHANGED status
  BY <1>4 DEF Begin, AddToCartBegin, AddToGuestCartBegin, UpdateCartItemBegin,
              RemoveFromCartBegin, ClearCartBegin, MergeCartBegin, CheckoutBegin,
              ReleaseBegin, ReleaseExpiredBegin, CleanupGuestCartBegin, ReadOnly
<1>5. ASSUME NEW p \in Procs, Rollback(p) PROVE UNCHANGED status
  BY <1>5 DEF Rollback, ReadOnly
<1>6. ASSUME NEW c \in CartIds, Expire(c) PROVE UNCHANGED status
  BY <1>6 DEF Expire
<1> QED
  BY <1>1, <1>2, <1>3, <1>4, <1>5, <1>6 DEF Next, vars

(* A request writes to the cart it has seen from the start, or to one that *)
(* it has just read as active.                                             *)
Seeing == {"add", "guestAdd", "merge", "merging"}
SeenStep ==
    \A p \in Procs :
        req'[p].op \in Seeing /\ req'[p].cart # NoCart
            => \/ req[p].op \in Seeing /\ req'[p].cart = req[p].cart
               \/ req'[p].cart \in CartIds /\ status[req'[p].cart] = "ACTIVE"

(* A request that starts has just read its cart as active.                 *)
LEMMA StartSees ==
    ASSUME TypeOK, NEW p \in Procs, NEW r, Start(p, r),
           r.op \in Seeing =>
               (r.cart = NoCart \/ (r.cart \in CartIds /\ status[r.cart] = "ACTIVE"))
    PROVE  SeenStep
  BY DEF SeenStep, Start, TypeOK

(* A request that ends sees no cart.                                       *)
LEMMA DoneSees ==
    ASSUME TypeOK, NEW p \in Procs, Done(p)
    PROVE  SeenStep
  BY DEF SeenStep, Done, TypeOK, Seeing

(* Every first step of a handler is a SeenStep.                            *)
LEMMA BeginSees ==
    ASSUME TypeOK, NEW p \in Procs, Begin(p)
    PROVE  SeenStep
<1>1. ASSUME NEW o, NEW c \in FindActive(o)
      PROVE  c = NoCart \/ (c \in CartIds /\ status[c] = "ACTIVE")
  <2>1. c = NoCart \/ c \in ActiveCarts(o)
    BY <1>1 DEF FindActive
  <2> QED
    BY <2>1 DEF ActiveCarts
<1>2. ASSUME NEW u \in Users, NEW v \in Variants, NEW q \in Qty, AddToCartBegin(p, u, v, q)
      PROVE  SeenStep
  BY <1>1, <1>2, StartSees DEF AddToCartBegin
<1>3. ASSUME NEW s \in Sessions, NEW v \in Variants, NEW q \in Qty,
             AddToGuestCartBegin(p, s, v, q)
      PROVE  SeenStep
  BY <1>1, <1>3, StartSees DEF AddToGuestCartBegin
<1>4. ASSUME NEW u \in Users, NEW s \in Sessions, NEW lines \in [Variants -> 0..MaxQty],
             MergeCartBegin(p, u, s, lines)
      PROVE  SeenStep
  BY <1>1, <1>4, StartSees DEF MergeCartBegin
<1>5. ASSUME NEW r, r.op \notin Seeing, Start(p, r) PROVE SeenStep
  BY <1>5, StartSees
<1>6. CASE \E u \in Users, i \in ItemIds, q \in Qty : UpdateCartItemBegin(p, u, i, q)
  BY <1>5, <1>6 DEF UpdateCartItemBegin, Seeing
<1>7. CASE \/ \E u \in Users, i \in ItemIds : RemoveFromCartBegin(p, u, i)
           \/ \E u \in Users : ClearCartBegin(p, u)
  BY <1>5, <1>7 DEF RemoveFromCartBegin, ClearCartBegin, Seeing
<1>8. CASE \/ \E u \in Users : CheckoutBegin(p, u)
           \/ \E c \in CartIds : CleanupGuestCartBegin(p, c)
  BY <1>5, <1>8 DEF CheckoutBegin, CleanupGuestCartBegin, Seeing
<1>9. CASE \E i \in ItemIds : ReleaseBegin(p, i)
  BY <1>5, <1>9 DEF ReleaseBegin, ReleaseExpiredBegin, Seeing
<1> QED
  BY <1>2, <1>3, <1>4, <1>6, <1>7, <1>8, <1>9 DEF Begin

(* Every step is a SeenStep.                                               *)
LEMMA NextSees ==
    ASSUME TypeOK, [Next]_vars
    PROVE  SeenStep
<1>1. CASE UNCHANGED req
  BY <1>1 DEF SeenStep
<1>2. CASE \E p \in Procs : Begin(p)
  BY <1>2, BeginSees
<1>3. ASSUME NEW p \in Procs, MergeCartLock(p) PROVE SeenStep
  BY <1>3 DEF MergeCartLock, SeenStep, TypeOK, Seeing
<1>4. ASSUME NEW p \in Procs, FindUnheldRow(p) PROVE SeenStep
  BY <1>4 DEF FindUnheldRow, SeenStep, TypeOK, Seeing
<1>5. CASE \E p \in Procs : Done(p)
  BY <1>5, DoneSees
<1> QED
  BY <1>1, <1>2, <1>3, <1>4, <1>5, WriteEnds
     DEF Next, Finish, Lock, vars, GetCart, Rollback, Expire

(* A step that is both keeps CInv.                                         *)
LEMMA StatusStepKeepsCInv == CInv /\ TypeOK' /\ StatusStep /\ SeenStep => CInv'
<1> SUFFICES ASSUME CInv, TypeOK', StatusStep, SeenStep PROVE CInv'
  OBVIOUS
<1>1. SeenCartsExist'
  <2> SUFFICES ASSUME NEW p \in Procs, req'[p].op \in Seeing, req'[p].cart # NoCart
               PROVE  status'[req'[p].cart] # "none"
    BY DEF SeenCartsExist, Seeing
  <2>1. req'[p].cart \in CartIds
    <3>1. req'[p] \in Request
      BY DEF TypeOK
    <3> QED
      BY <3>1, RequestKind DEF Seeing, AddRequest, MergeRequest, MergeLocked
  <2>2. status[req'[p].cart] # "none"
    BY DEF SeenStep, CInv, SeenCartsExist, Seeing
  <2> QED
    BY <2>1, <2>2 DEF StatusStep
<1>2. OneActiveCart'
  <2> SUFFICES ASSUME NEW o \in Owners, NEW c \in CartIds, NEW d \in CartIds,
                      c[1] = o, d[1] = o, status'[c] = "ACTIVE", status'[d] = "ACTIVE"
               PROVE  c = d
    BY DEF OneActiveCart, ActiveCarts
  <2>1. c # d => status[c] = "ACTIVE" /\ status[d] = "ACTIVE"
    BY DEF StatusStep
  <2> QED
    BY <2>1 DEF CInv, OneActiveCart, ActiveCarts
<1> QED
  BY <1>1, <1>2 DEF CInv

(* CInv is inductive.                                                      *)
LEMMA NextCInv == CInv /\ TypeOK' /\ [Next]_vars => CInv'
  BY NextStatus, NextSees, StatusStepKeepsCInv DEF CInv

(* No owner ever has two active carts, however many requests look one up   *)
(* and find none at the same time.                                         *)
THEOREM NeverTwoActiveCarts == Spec => []OneActiveCart
<1>1. Init => CInv
  BY InitType DEF Init, CInv, SeenCartsExist, OneActiveCart, ActiveCarts
<1>2. CInv => OneActiveCart
  BY DEF CInv
<1> QED
  BY <1>1, <1>2, Typing, NextCInv, PTL DEF Spec

-----------------------------------------------------------------------------
(* What is known of a row: its key, and whose cart it is in.               *)

(* What a request has read of the row i.                                   *)
SnapshotOps == {"remove", "clear", "release", "releaseGuest", "merging", "purge", "checkout"}
ReadIn(r, i) ==
    IF r.op \in {"update", "saving"} THEN IF r.item = i THEN r.row ELSE NoItem
    ELSE IF r.op \in SnapshotOps THEN r.rows[i] ELSE NoItem

(* All who know the row i, the table and the requests, have it in one cart *)
(* and of one variant.                                                     *)
SameKey(a, b) == a.cart = b.cart /\ a.variant = b.variant
OneKeyPerRow ==
    /\ \A i \in ItemIds : items[i] # NoItem => i \in issued
    /\ \A p \in Procs, i \in ItemIds : ReadIn(req[p], i) # NoItem =>
            i \in issued /\ (items[i] # NoItem => SameKey(items[i], ReadIn(req[p], i)))
    /\ \A p, q \in Procs, i \in ItemIds :
            ReadIn(req[p], i) # NoItem /\ ReadIn(req[q], i) # NoItem
                => SameKey(ReadIn(req[p], i), ReadIn(req[q], i))

(* The carts of a request belong to the owner it is made for.              *)
OwnCarts(r) ==
    /\ r.op \in Seeing /\ r.cart # NoCart => r.cart[1] = r.owner
    /\ r.op = "guestAdd" => r.owner \in Sessions
    /\ r.op = "add" => r.owner \in Users
    /\ r.op = "checkout" => r.cart[1] \in Users
    /\ r.op = "purge" => r.cart[1] \in Sessions
    /\ r.op = "merging" =>
            /\ r.guest # NoCart => r.guest[1] = r.session
            /\ \A i \in ItemIds : r.rows[i] # NoItem => r.rows[i].cart = r.guest

(* A user changes rows of users' carts; the rows a request drops are of    *)
(* one cart; a row that is saved without its lock holds no stock.          *)
OwnRows(r) ==
    /\ r.op = "update" => r.row.cart[1] \in Users
    /\ r.op \in {"remove", "clear"} =>
            \A i \in ItemIds : r.rows[i] # NoItem => r.rows[i].cart[1] \in Users
    /\ r.op \in {"remove", "clear", "release", "releaseGuest"} =>
            \A i, j \in ItemIds :
                r.rows[i] # NoItem /\ r.rows[j] # NoItem => r.rows[i].cart = r.rows[j].cart
    /\ r.op = "saving" /\ r.row.variant \in Physical => ~r.row.isStockReserved
RequestsOwn == \A p \in Procs : OwnCarts(req[p]) /\ OwnRows(req[p])

EInv == TypeOK /\ OneKeyPerRow /\ RequestsOwn

(* A step reads rows only as they are, and forgets or keeps what is read.  *)
ReadStep ==
    \A p \in Procs :
        /\ OwnCarts(req[p]) /\ OwnRows(req[p]) => OwnCarts(req'[p]) /\ OwnRows(req'[p])
        /\ \A i \in ItemIds : ReadIn(req'[p], i) \in {NoItem, ReadIn(req[p], i), items[i]}

(* A row that is written keeps its key, is put back where a request has    *)
(* read it, or has a new id.                                               *)
ItemStep ==
    /\ issued \subseteq issued'
    /\ \A i \in ItemIds :
        \/ items'[i] = NoItem
        \/ items[i] # NoItem /\ SameKey(items'[i], items[i])
        \/ i \notin issued /\ i \in issued'
        \/ \E p \in Procs : ReadIn(req[p], i) # NoItem /\ SameKey(items'[i], ReadIn(req[p], i))

(* A request that starts with rows it has just read.                       *)
LEMMA StartReads ==
    ASSUME TypeOK, NEW p \in Procs, NEW r, Start(p, r), OwnCarts(r), OwnRows(r),
           \A i \in ItemIds : ReadIn(r, i) \in {NoItem, items[i]}
    PROVE  ReadStep
<1>1. \A q \in Procs : req'[q] = IF q = p THEN r ELSE req[q]
  BY DEF Start, TypeOK
<1> QED
  BY <1>1 DEF ReadStep

(* A request that ends has read nothing.                                   *)
LEMMA DoneReads ==
    ASSUME TypeOK, NEW p \in Procs, Done(p)
    PROVE  ReadStep
<1>1. \A q \in Procs : req'[q] = IF q = p THEN Idle ELSE req[q]
  BY DEF Done, TypeOK
<1>2. OwnCarts(Idle) /\ OwnRows(Idle) /\ \A i : ReadIn(Idle, i) = NoItem
  BY DEF OwnCarts, OwnRows, ReadIn, Seeing, SnapshotOps
<1> QED
  BY <1>1, <1>2 DEF ReadStep

(* The active cart of an owner is one of his, the rows of a cart are its.  *)
LEMMA QueriesReadOwn ==
    /\ \A o : \A c \in FindActive(o) : c # NoCart => c[1] = o
    /\ \A c : \A i \in ItemIds : RowsOf(c)[i] \in {NoItem, items[i]}
                                 /\ (RowsOf(c)[i] # NoItem => RowsOf(c)[i].cart = c)
    /\ \A i, j \in ItemIds : OnlyRow(i)[j] \in {NoItem, items[j]}
                              /\ (OnlyRow(i)[j] # NoItem => j = i)
  BY DEF FindActive, ActiveCarts, RowsOf, OnlyRow

(* Every first step of a handler is a ReadStep.                            *)
LEMMA BeginReads ==
    ASSUME TypeOK, NEW p \in Procs, Begin(p)
    PROVE  ReadStep
<1> USE QueriesReadOwn DEF OwnCarts, OwnRows, ReadIn, Seeing, SnapshotOps
<1>1. ASSUME NEW u \in Users, NEW v \in Variants, NEW q \in Qty, AddToCartBegin(p, u, v, q)
      PROVE  ReadStep
  BY <1>1, StartReads DEF AddToCartBegin
<1>2. ASSUME NEW s \in Sessions, NEW v \in Variants, NEW q \in Qty,
             AddToGuestCartBegin(p, s, v, q)
      PROVE  ReadStep
  BY <1>2, StartReads DEF AddToGuestCartBegin
<1>3. ASSUME NEW u \in Users, NEW i \in ItemIds, NEW q \in Qty, UpdateCartItemBegin(p, u, i, q)
      PROVE  ReadStep
  BY <1>3, StartReads DEF UpdateCartItemBegin
<1>4. ASSUME NEW u \in Users, NEW i \in ItemIds, RemoveFromCartBegin(p, u, i)
      PROVE  ReadStep
  <2> DEFINE r == [op |-> "remove", rows |-> OnlyRow(i)]
  <2>1. OwnCarts(r)
    OBVIOUS
  <2>2. \A j \in ItemIds : OnlyRow(i)[j] # NoItem => OnlyRow(i)[j] = items[i]
    OBVIOUS
  <2>3. OwnRows(r)
    BY <1>4, <2>2 DEF RemoveFromCartBegin
  <2>4. \A j \in ItemIds : ReadIn(r, j) \in {NoItem, items[j]}
    OBVIOUS
  <2>5. Start(p, r)
    BY <1>4 DEF RemoveFromCartBegin
  <2> HIDE DEF r
  <2> QED
    BY <2>1, <2>3, <2>4, <2>5, StartReads
<1>5. ASSUME NEW u \in Users, ClearCartBegin(p, u)
      PROVE  ReadStep
  <2>1. PICK c \in ActiveCarts(u) : Start(p, [op |-> "clear", rows |-> RowsOf(c)])
    BY <1>5 DEF ClearCartBegin
  <2> DEFINE r == [op |-> "clear", rows |-> RowsOf(c)]
  <2>2. OwnCarts(r)
    OBVIOUS
  <2>3. OwnRows(r)
    BY <2>1 DEF ActiveCarts
  <2>4. \A j \in ItemIds : ReadIn(r, j) \in {NoItem, items[j]}
    OBVIOUS
  <2> HIDE DEF r
  <2> QED
    BY <2>1, <2>2, <2>3, <2>4, StartReads DEF r
<1>6. ASSUME NEW u \in Users, NEW s \in Sessions, NEW lines \in [Variants -> 0..MaxQty],
             MergeCartBegin(p, u, s, lines)
      PROVE  ReadStep
  BY <1>6, StartReads DEF MergeCartBegin
<1>7. ASSUME NEW u \in Users, CheckoutBegin(p, u)
      PROVE  ReadStep
  BY <1>7, StartReads DEF CheckoutBegin, ActiveCarts
<1>8. ASSUME NEW i \in ItemIds, ReleaseBegin(p, i)
      PROVE  ReadStep
  <2>1. PICK op \in {"release", "releaseGuest"} : Start(p, [op |-> op, rows |-> OnlyRow(i)])
    BY <1>8 DEF ReleaseBegin, ReleaseExpiredBegin
  <2> DEFINE r == [op |-> op, rows |-> OnlyRow(i)]
  <2>2. OwnCarts(r)
    OBVIOUS
  <2>3. \A j \in ItemIds : OnlyRow(i)[j] # NoItem => OnlyRow(i)[j] = items[i]
    OBVIOUS
  <2>4. OwnRows(r)
    BY <2>3
  <2>5. \A j \in ItemIds : ReadIn(r, j) \in {NoItem, items[j]}
    OBVIOUS
  <2> HIDE DEF r
  <2> QED
    BY <2>1, <2>2, <2>4, <2>5, StartReads DEF r
<1>9. ASSUME NEW c \in CartIds, CleanupGuestCartBegin(p, c)
      PROVE  ReadStep
  BY <1>9, StartReads DEF CleanupGuestCartBegin
<1> QED
  BY <1>1, <1>2, <1>3, <1>4, <1>5, <1>6, <1>7, <1>8, <1>9 DEF Begin

(* A merge reads the guest cart of its session.                            *)
LEMMA MergeCartLockReads ==
    ASSUME TypeOK, NEW p \in Procs, MergeCartLock(p)
    PROVE  ReadStep
<1> DEFINE r == req[p]
           locked(g) == [op |-> "merging", owner |-> r.owner, session |-> r.session,
                         cart |-> r.cart, lines |-> r.lines, guest |-> g, rows |-> RowsOf(g)]
<1>1. PICK g \in FindActive(r.session) : req' = [req EXCEPT ![p] = locked(g)]
  BY DEF MergeCartLock
<1>2. \A q \in Procs : req'[q] = IF q = p THEN locked(g) ELSE req[q]
  BY <1>1 DEF TypeOK
<1>3. OwnCarts(r) => OwnCarts(locked(g)) /\ OwnRows(locked(g))
  BY QueriesReadOwn DEF OwnCarts, OwnRows, Seeing, MergeCartLock
<1>4. \A i \in ItemIds : ReadIn(locked(g), i) \in {NoItem, items[i]}
  BY QueriesReadOwn DEF ReadIn, SnapshotOps
<1> QED
  BY <1>2, <1>3, <1>4 DEF ReadStep

(* An addition reads the row it is about to save.                          *)
LEMMA FindUnheldRowReads ==
    ASSUME TypeOK, NEW p \in Procs, FindUnheldRow(p)
    PROVE  ReadStep
<1> DEFINE r == req[p]
           saving(i) == [op |-> "saving", item |-> i, row |-> items[i], qty |-> r.qty]
<1>1. PICK i \in ItemAt(r.cart, r.variant) \ Holding(items, r.variant) :
         req' = [req EXCEPT ![p] = saving(i)]
  BY DEF FindUnheldRow
<1>2. \A q \in Procs : req'[q] = IF q = p THEN saving(i) ELSE req[q]
  BY <1>1 DEF TypeOK
<1>3. OwnCarts(saving(i)) /\ OwnRows(saving(i))
  BY <1>1 DEF OwnCarts, OwnRows, Seeing, ItemAt, Holding
<1>4. \A j \in ItemIds : ReadIn(saving(i), j) \in {NoItem, items[j]}
  BY DEF ReadIn
<1> QED
  BY <1>2, <1>3, <1>4 DEF ReadStep

(* Every step is a ReadStep.                                               *)
LEMMA NextReads ==
    ASSUME TypeOK, [Next]_vars
    PROVE  ReadStep
<1>1. CASE UNCHANGED req
  BY <1>1 DEF ReadStep
<1>2. CASE \E p \in Procs : Begin(p)
  BY <1>2, BeginReads
<1>3. CASE \E p \in Procs : MergeCartLock(p)
  BY <1>3, MergeCartLockReads
<1>4. CASE \E p \in Procs : FindUnheldRow(p)
  BY <1>4, FindUnheldRowReads
<1>5. CASE \E p \in Procs : Done(p)
  BY <1>5, DoneReads
<1> QED
  BY <1>1, <1>2, <1>3, <1>4, <1>5, WriteEnds
     DEF Next, Finish, Lock, vars, GetCart, Rollback, Expire

-----------------------------------------------------------------------------
(* Rows that a merge writes, as ProcessItemMerge has them: deleted, changed *)
(* in their quantity in the cart c, or new in c.                           *)
LEMMA ProcessItemMergeRows ==
    ASSUME TypeOK, NEW r \in MergeLocked, NEW c \in CartIds, NEW gone, ProcessItemMerge(r, c, gone)
    PROVE  /\ issued \subseteq issued'
           /\ \A i \in ItemIds :
                \/ i \in gone /\ items'[i] = NoItem
                \/ items'[i] = items[i]
                \/ items[i] # NoItem /\ items[i].cart = c /\ SameKey(items'[i], items[i])
                \/ i \notin issued /\ i \in issued' /\ items'[i].cart = c
<1> DEFINE added == Mergeable(r)
           new == {v \in added : ItemAt(c, v) = {}}
           MergedItem(id, i) ==
             IF i \in gone THEN NoItem
             ELSE IF items[i] # NoItem
             THEN IF items[i].cart = c /\ items[i].variant \in added
                  THEN [items[i] EXCEPT !.qty = @ + r.lines[items[i].variant]]
                  ELSE items[i]
             ELSE IF \E v \in new : id[v] = i
             THEN LET v == CHOOSE w \in new : id[w] = i
                  IN NewRow(c, v, r.lines[v], v \in Physical)
             ELSE NoItem
<1>1. PICK id \in [new -> ItemIds \ issued] :
        /\ issued' = issued \cup {id[v] : v \in new}
        /\ items' = [i \in ItemIds |-> MergedItem(id, i)]
  BY DEF ProcessItemMerge
<1>2. ASSUME NEW i \in ItemIds
      PROVE  \/ i \in gone /\ items'[i] = NoItem
             \/ items'[i] = items[i]
             \/ items[i] # NoItem /\ items[i].cart = c /\ SameKey(items'[i], items[i])
             \/ i \notin issued /\ i \in issued' /\ items'[i].cart = c
  <2>1. items'[i] = MergedItem(id, i)
    BY <1>1
  <2>2. CASE i \in gone \/ (items[i] = NoItem /\ ~\E v \in new : id[v] = i)
    BY <2>1, <2>2
  <2>3. CASE i \notin gone /\ items[i] # NoItem
    <3>1. items[i] \in Row
      BY <2>3 DEF TypeOK, Rows
    <3>2. SameKey([items[i] EXCEPT !.qty = @ + r.lines[items[i].variant]], items[i])
      BY <3>1 DEF Row, SameKey
    <3> QED
      BY <2>1, <2>3, <3>2
  <2>4. CASE i \notin gone /\ items[i] = NoItem /\ \E v \in new : id[v] = i
    <3>1. PICK v \in new : id[v] = i
      BY <2>4
    <3>2. i \notin issued /\ i \in issued'
      BY <1>1, <3>1
    <3>3. items'[i].cart = c
      BY <2>1, <2>4 DEF NewRow
    <3> QED
      BY <3>2, <3>3
  <2> QED
    BY <2>2, <2>3, <2>4
<1> QED
  BY <1>1, <1>2

(* Rows that an add writes: one of the cart c that it writes to.           *)
LEMMA ReserveIntoCartRows ==
    ASSUME TypeOK, NEW p \in Procs, req[p] \in AddRequest, ReserveIntoCart(p)
    PROVE  \E c \in TargetCart(req[p].owner, req[p].cart) :
             /\ Opened(c)
             /\ issued \subseteq issued'
             /\ \A i \in ItemIds :
                  \/ items'[i] = items[i]
                  \/ items[i] # NoItem /\ items[i].cart = c /\ SameKey(items'[i], items[i])
                  \/ i \notin issued /\ i \in issued' /\ items'[i].cart = c
<1> DEFINE r == req[p]  v == req[p].variant
<1>1. PICK c \in TargetCart(r.owner, r.cart) :
        /\ Opened(c)
        /\ \/ \E i \in ItemAt(c, v) \cap Holding(items, v) :
                /\ items[i].qty + r.qty <= MaxQty
                /\ items' = [items EXCEPT ![i].qty = @ + r.qty]
                /\ UNCHANGED issued
           \/ /\ ItemAt(c, v) = {} /\ Insertable(c)
              /\ \E i \in ItemIds \ issued :
                    /\ items' = [items EXCEPT ![i] = NewRow(c, v, r.qty, TRUE)]
                    /\ issued' = issued \cup {i}
  BY DEF ReserveIntoCart
<1>2. CASE \E i \in ItemAt(c, v) :
             items' = [items EXCEPT ![i].qty = @ + r.qty] /\ UNCHANGED issued
  <2>1. PICK i \in ItemAt(c, v) : items' = [items EXCEPT ![i].qty = @ + r.qty] /\ UNCHANGED issued
    BY <1>2
  <2>2. i \in ItemIds /\ items[i] \in Row /\ items[i] # NoItem /\ items[i].cart = c
    BY DEF ItemAt, Live, TypeOK, Rows
  <2>3. SameKey(items'[i], items[i])
    BY <2>1, <2>2 DEF TypeOK, Rows, Row, SameKey
  <2>4. \A j \in ItemIds \ {i} : items'[j] = items[j]
    BY <2>1 DEF TypeOK, Rows
  <2> QED
    BY <1>1, <2>1, <2>2, <2>3, <2>4
<1>3. CASE \E i \in ItemIds \ issued : /\ items' = [items EXCEPT ![i] = NewRow(c, v, r.qty, TRUE)]
                                       /\ issued' = issued \cup {i}
  BY <1>1, <1>3 DEF TypeOK, Rows, NewRow
<1> QED
  BY <1>1, <1>2, <1>3

(* Rows of which a release takes the flag.                                 *)
LEMMA UnreservedRows ==
    ASSUME TypeOK, NEW rows, NEW i \in ItemIds
    PROVE  \/ Unreserved(rows)[i] = items[i]
           \/ /\ items[i] # NoItem /\ Unreserved(rows)[i] # NoItem
              /\ SameKey(Unreserved(rows)[i], items[i])
              /\ Unreserved(rows)[i].qty = items[i].qty
<1>1. CASE items[i] = NoItem \/ i \notin Live(rows)
  BY <1>1 DEF Unreserved
<1>2. CASE items[i] # NoItem /\ i \in Live(rows)
  <2>1. items[i] \in Row
    BY <1>2 DEF TypeOK, Rows
  <2>2. Unreserved(rows)[i] = [items[i] EXCEPT !.isStockReserved = FALSE]
    BY <1>2 DEF Unreserved
  <2>3. Unreserved(rows)[i] \in Row
    BY <2>1, <2>2 DEF Row
  <2> QED
    BY <1>2, <2>1, <2>2, <2>3, NullAssumption DEF Row, SameKey
<1> QED
  BY <1>1, <1>2

(* Every step is an ItemStep.                                              *)
LEMMA NextItems ==
    ASSUME TypeOK, [Next]_vars
    PROVE  ItemStep
<1>1. CASE UNCHANGED <<items, issued>>
  BY <1>1 DEF ItemStep, SameKey
<1>2. ASSUME NEW p \in Procs, Finish(p) PROVE ItemStep
  <2>1. req[p] \in Request
    BY DEF TypeOK
  <2>2. CASE AddToCart(p) \/ AddToGuestCart(p)
    <3>1. req[p] \in AddRequest /\ ReserveIntoCart(p)
      BY <2>1, <2>2, RequestKind DEF AddToCart, AddToGuestCart
    <3> QED
      BY <3>1, ReserveIntoCartRows DEF ItemStep, SameKey
  <2>3. CASE UpdateCartItem(p) \/ SaveUnheldRow(p)
    <3>1. req[p] \in UpdateRequest
      BY <2>1, <2>3, RequestKind DEF UpdateCartItem, SaveUnheldRow
    <3>2. ReadIn(req[p], req[p].item) = req[p].row /\ req[p].row # NoItem
      BY <3>1, NullAssumption DEF ReadIn, UpdateRequest
    <3>3. /\ UNCHANGED issued
          /\ \E q, held : items' = [items EXCEPT ![req[p].item] =
                                    NewRow(req[p].row.cart, req[p].row.variant, q, held)]
      BY <2>3 DEF UpdateCartItem, SaveUnheldRow
    <3>4. \A q, held : SameKey(NewRow(req[p].row.cart, req[p].row.variant, q, held), req[p].row)
      BY DEF NewRow, SameKey
    <3>5. /\ SameKey(items'[req[p].item], req[p].row)
          /\ \A i \in ItemIds \ {req[p].item} : items'[i] = items[i]
      BY <3>1, <3>3, <3>4 DEF TypeOK, Rows, UpdateRequest
    <3> QED
      BY <3>1, <3>2, <3>3, <3>5 DEF ItemStep, SameKey, UpdateRequest
  <2>4. CASE RemoveFromCart(p) \/ ClearCart(p)
    BY <2>4 DEF RemoveFromCart, ClearCart, DropRows, ItemStep, SameKey
  <2>5. CASE MergeCart(p)
    <3>1. req[p] \in MergeLocked
      BY <2>1, <2>5, RequestKind DEF MergeCart
    <3>2. PICK c \in TargetCart(req[p].owner, req[p].cart) :
            ProcessItemMerge(req[p], c, {i \in Live(items) : items[i].cart = req[p].guest} \cup Live(req[p].rows))
      BY <2>5 DEF MergeCart
    <3>3. c \in CartIds
      BY <3>1, CartsAreCarts DEF MergeLocked, Owners
    <3>4. /\ issued \subseteq issued'
          /\ \A i \in ItemIds :
                \/ items'[i] = NoItem
                \/ items'[i] = items[i]
                \/ items[i] # NoItem /\ SameKey(items'[i], items[i])
                \/ i \notin issued /\ i \in issued'
      BY <3>1, <3>2, <3>3, ProcessItemMergeRows
    <3> QED
      BY <3>4 DEF ItemStep, SameKey
  <2>6. CASE ReleaseExpiredReservations(p) \/ ReleaseExpiredGuestReservations(p)
    <3>1. items' = Unreserved(req[p].rows) /\ UNCHANGED issued
      BY <2>6 DEF ReleaseExpiredReservations, ReleaseExpiredGuestReservations
    <3> QED
      BY <3>1, UnreservedRows DEF ItemStep, SameKey
  <2>7. CASE CleanupAbandonedGuestCart(p)
    BY <2>7 DEF CleanupAbandonedGuestCart, ItemStep, SameKey
  <2>8. CASE Lock(p) \/ Checkout(p)
    BY <1>1, <2>8 DEF Lock, FindUnheldRow, MergeCartLock, Checkout, ReadOnly
  <2> QED
    BY <1>2, <2>2, <2>3, <2>4, <2>5, <2>6, <2>7, <2>8 DEF Finish, Write
<1>3. ASSUME NEW p \in Procs, Begin(p) PROVE UNCHANGED <<items, issued>>
  BY <1>3 DEF Begin, AddToCartBegin, AddToGuestCartBegin, UpdateCartItemBegin,
              RemoveFromCartBegin, ClearCartBegin, MergeCartBegin, CheckoutBegin,
              ReleaseBegin, ReleaseExpiredBegin, CleanupGuestCartBegin, ReadOnly
<1> QED
  BY <1>1, <1>2, <1>3 DEF Next, vars, GetCart, Rollback, Expire, ReadOnly

(* A step that is both keeps EInv.                                         *)
LEMMA NextEInv == EInv /\ TypeOK' /\ [Next]_vars => EInv'
<1> SUFFICES ASSUME EInv, TypeOK', [Next]_vars PROVE EInv'
  OBVIOUS
<1>1. ReadStep /\ ItemStep
  BY NextReads, NextItems DEF EInv
<1>2. RequestsOwn'
  BY <1>1 DEF EInv, RequestsOwn, ReadStep
<1>3. \A i \in ItemIds : items'[i] # NoItem => i \in issued'
  BY <1>1 DEF EInv, OneKeyPerRow, ItemStep
<1>4. ASSUME NEW p \in Procs, NEW i \in ItemIds, ReadIn(req'[p], i) # NoItem
      PROVE  /\ i \in issued /\ i \in issued'
             /\ items'[i] # NoItem => SameKey(items'[i], ReadIn(req'[p], i))
  BY <1>1, <1>4 DEF EInv, OneKeyPerRow, ReadStep, ItemStep, SameKey
<1>5. ASSUME NEW p \in Procs, NEW q \in Procs, NEW i \in ItemIds,
             ReadIn(req'[p], i) # NoItem, ReadIn(req'[q], i) # NoItem
      PROVE  SameKey(ReadIn(req'[p], i), ReadIn(req'[q], i))
  BY <1>1, <1>5 DEF EInv, OneKeyPerRow, ReadStep, SameKey
<1> QED
  BY <1>2, <1>3, <1>4, <1>5 DEF EInv, OneKeyPerRow

(* EInv holds of every run of the carts.                                   *)
LEMMA RowsKeepTheirKey == Spec => []EInv
<1>1. Init => EInv
  <2> SUFFICES ASSUME Init PROVE EInv
    OBVIOUS
  <2>1. \A p \in Procs : req[p] = Idle
    BY DEF Init
  <2>2. \A i \in ItemIds : ReadIn(Idle, i) = NoItem
    BY DEF ReadIn, SnapshotOps
  <2>3. OwnCarts(Idle) /\ OwnRows(Idle)
    BY DEF OwnCarts, OwnRows, Seeing
  <2> QED
    BY <2>1, <2>2, <2>3, InitType DEF Init, EInv, OneKeyPerRow, RequestsOwn
<1> QED
  BY <1>1, Typing, NextEInv, PTL DEF Spec

=============================================================================
