--------------------------- MODULE CartCache_proofs ---------------------------
(***************************************************************************)
(* OldForAReason for any owners, requests and readers.  A handler deletes  *)
(* the entries of the owners it knows from its request, so the argument is *)
(* about what requests know: the carts in them are those of their owner,   *)
(* and a row is in one cart for as long as anyone remembers it.            *)
(***************************************************************************)
EXTENDS CartCache, CartReservation_proofs

USE DEF Idle

(* The carts' steps within CartCache are steps of CartReservation.         *)
LEMMA CacheStepIsStep == [CacheNext]_cacheVars => [Next]_vars
  BY DEF CacheNext, cacheVars, Commit, Elsewhere, Invalidate, InvalidateFails, Drop, LookUp,
         ReadCart, Store, Evict, Next, Finish

(* So what is proved of CartReservation holds here.                        *)
LEMMA CachedCartsAreCarts == CacheSpec => Spec
<1>1. CacheInit => Init
  BY DEF CacheInit
<1> QED
  BY <1>1, CacheStepIsStep, PTL DEF CacheSpec, Spec

-----------------------------------------------------------------------------
(* A step leaves an owner alone that takes none of his carts away and      *)
(* changes no quantity in them.                                            *)
SameRow(o, i) ==
    \/ items'[i] = items[i]
    \/ /\ items[i] # NoItem /\ items'[i] # NoItem
       /\ items'[i].cart = items[i].cart /\ items'[i].qty = items[i].qty
    \/ /\ items[i] = NoItem \/ items[i].cart[1] # o
       /\ items'[i] = NoItem \/ items'[i].cart[1] # o
LeavesAlone(o) ==
    /\ \A c \in ActiveCarts(o) : status'[c] = "ACTIVE"
    /\ \A i \in ItemIds : SameRow(o, i)

(* Then what he is shown stays right.                                      *)
LEMMA AloneKeepsCurrent ==
    ASSUME NEW o, LeavesAlone(o)
    PROVE  Current(o) \subseteq Current(o)'
<1> SUFFICES ASSUME NEW c \in ActiveCarts(o)
             PROVE  c \in ActiveCarts(o)' /\ Shown(c)' = Shown(c)
  BY DEF Current
<1>1. c \in CartIds /\ c[1] = o /\ c \in ActiveCarts(o)'
  BY DEF ActiveCarts, LeavesAlone
<1>2. ASSUME NEW i \in ItemIds
      PROVE  (IF RowsOf(c)[i] = NoItem THEN 0 ELSE RowsOf(c)[i].qty)'
               = IF RowsOf(c)[i] = NoItem THEN 0 ELSE RowsOf(c)[i].qty
  <2>1. /\ RowsOf(c)[i] = IF items[i] # NoItem /\ items[i].cart = c THEN items[i] ELSE NoItem
        /\ RowsOf(c)'[i] = IF items'[i] # NoItem /\ items'[i].cart = c THEN items'[i] ELSE NoItem
    BY DEF RowsOf
  <2>2. SameRow(o, i)
    BY DEF LeavesAlone
  <2> QED
    BY <1>1, <2>1, <2>2 DEF SameRow
<1>3. Shown(c)' = Shown(c)
  BY <1>2 DEF Shown
<1> QED
  BY <1>1, <1>3

(* Steps that commit no request leave everybody alone.                     *)
LEMMA ElsewhereLeavesAlone ==
    ASSUME TypeOK, Elsewhere, NEW o
    PROVE  LeavesAlone(o)
<1>1. CASE \E u \in Users : GetCart(u)
  BY <1>1 DEF GetCart, Opened, NextCart, ActiveCarts, TypeOK, LeavesAlone, SameRow
<1>2. CASE UNCHANGED <<status, items>>
  BY <1>2 DEF LeavesAlone, SameRow, ActiveCarts
<1>3. ASSUME NEW p \in Procs, Begin(p) PROVE UNCHANGED <<status, items>>
  BY <1>3 DEF Begin, AddToCartBegin, AddToGuestCartBegin, UpdateCartItemBegin,
              RemoveFromCartBegin, ClearCartBegin, MergeCartBegin, CheckoutBegin,
              ReleaseBegin, ReleaseExpiredBegin, CleanupGuestCartBegin, ReadOnly
<1> QED
  BY <1>1, <1>2, <1>3 DEF Elsewhere, Rollback, Expire, Lock, FindUnheldRow, MergeCartLock, ReadOnly

(* A cart that a request writes to belongs to the owner it is made for.    *)
LEMMA TargetIsOwn ==
    ASSUME TypeOK, NEW o \in Owners, NEW seen \in CartIds \cup {NoCart},
           seen # NoCart => seen[1] = o, NEW c \in TargetCart(o, seen)
    PROVE  c \in CartIds /\ c[1] = o
  BY CartsAreCarts, NullAssumption DEF TargetCart, NextCart

(* The owners whose carts a request may change: those whose entries it     *)
(* deletes, and those that checkout and clean-up excuse.                   *)
Excuses(p) == IF req[p].op \in {"checkout", "purge"} THEN {req[p].cart[1]} ELSE {}

(* An add.                                                                 *)
LEMMA AddLeavesAlone ==
    ASSUME EInv, NEW p \in Procs, AddToCart(p) \/ AddToGuestCart(p), NEW o \in Owners \ Invalidates(p)
    PROVE  LeavesAlone(o)
<1>1. req[p] \in AddRequest /\ req[p].op \in {"add", "guestAdd"} /\ ReserveIntoCart(p)
  BY RequestKind DEF EInv, TypeOK, AddToCart, AddToGuestCart
<1>2. o # req[p].owner
  BY <1>1 DEF Invalidates
<1>3. req[p].cart # NoCart => req[p].cart[1] = req[p].owner
  BY <1>1 DEF EInv, RequestsOwn, OwnCarts, Seeing
<1>4. PICK c \in TargetCart(req[p].owner, req[p].cart) :
        /\ Opened(c)
        /\ \A i \in ItemIds :
             \/ items'[i] = items[i]
             \/ items[i] # NoItem /\ items[i].cart = c /\ items'[i].cart = c
             \/ i \notin issued /\ i \in issued' /\ items'[i].cart = c
  <2>1. PICK d \in TargetCart(req[p].owner, req[p].cart) :
          /\ Opened(d)
          /\ issued \subseteq issued'
          /\ \A i \in ItemIds :
               \/ items'[i] = items[i]
               \/ items[i] # NoItem /\ items[i].cart = d /\ SameKey(items'[i], items[i])
               \/ i \notin issued /\ i \in issued' /\ items'[i].cart = d
    BY <1>1, ReserveIntoCartRows DEF EInv
  <2> QED
    BY <2>1 DEF SameKey
<1>5. c \in CartIds /\ c[1] = req[p].owner
  BY <1>1, <1>3, TargetIsOwn DEF EInv, AddRequest
<1>6. \A i \in ItemIds : SameRow(o, i)
  BY <1>2, <1>4, <1>5 DEF SameRow, EInv, OneKeyPerRow
<1>7. \A d \in ActiveCarts(o) : status'[d] = "ACTIVE"
  BY <1>4, <1>5 DEF Opened, ActiveCarts, EInv, TypeOK
<1> QED
  BY <1>6, <1>7 DEF LeavesAlone

(* A change of a quantity, or the save of a row found without its lock.    *)
LEMMA UpdateLeavesAlone ==
    ASSUME EInv, NEW p \in Procs, UpdateCartItem(p) \/ SaveUnheldRow(p), NEW o \in Owners \ Invalidates(p)
    PROVE  LeavesAlone(o)
<1>1. req[p] \in UpdateRequest /\ req[p].op \in {"update", "saving"}
  BY RequestKind DEF EInv, TypeOK, UpdateCartItem, SaveUnheldRow
<1>2. o # req[p].row.cart[1]
  BY <1>1 DEF Invalidates
<1> DEFINE i == req[p].item
<1>3. i \in ItemIds /\ req[p].row # NoItem /\ ReadIn(req[p], i) = req[p].row
  BY <1>1, NullAssumption DEF UpdateRequest, ReadIn
<1>4. items[i] = NoItem \/ items[i].cart = req[p].row.cart
  BY <1>3 DEF EInv, OneKeyPerRow, SameKey
<1>5. items'[i].cart = req[p].row.cart /\ \A j \in ItemIds \ {i} : items'[j] = items[j]
  BY <1>3 DEF UpdateCartItem, SaveUnheldRow, NewRow, EInv, TypeOK, Rows
<1>6. \A j \in ItemIds : SameRow(o, j)
  BY <1>2, <1>4, <1>5 DEF SameRow
<1> QED
  BY <1>6 DEF LeavesAlone, UpdateCartItem, SaveUnheldRow, ActiveCarts

(* A removal.                                                              *)
LEMMA DropLeavesAlone ==
    ASSUME EInv, NEW p \in Procs, RemoveFromCart(p) \/ ClearCart(p), NEW o \in Owners \ Invalidates(p)
    PROVE  LeavesAlone(o)
<1>1. req[p].op \in {"remove", "clear"} /\ DropRows(p)
  BY DEF RemoveFromCart, ClearCart
<1>2. \A i \in Live(req[p].rows) : o # req[p].rows[i].cart[1]
  BY <1>1 DEF Invalidates
<1>3. \A i \in Live(req[p].rows) : ReadIn(req[p], i) = req[p].rows[i] /\ req[p].rows[i] # NoItem
  BY <1>1 DEF ReadIn, SnapshotOps, Live
<1>4. \A i \in Live(req[p].rows) : items[i] = NoItem \/ items[i].cart = req[p].rows[i].cart
  BY <1>3 DEF EInv, OneKeyPerRow, SameKey, Live
<1>5. \A i \in ItemIds : SameRow(o, i)
  BY <1>1, <1>2, <1>4 DEF DropRows, SameRow
<1> QED
  BY <1>1, <1>5 DEF LeavesAlone, DropRows, ActiveCarts

(* A merge, of the user and the guest.                                     *)
LEMMA MergeLeavesAlone ==
    ASSUME EInv, NEW p \in Procs, MergeCart(p), NEW o \in Owners \ Invalidates(p)
    PROVE  LeavesAlone(o)
<1> DEFINE r == req[p]
           gone == {i \in Live(items) : items[i].cart = r.guest} \cup Live(r.rows)
<1>1. r \in MergeLocked /\ r.op = "merging"
  BY RequestKind DEF EInv, TypeOK, MergeCart
<1>2. o # r.owner /\ o # r.session
  BY <1>1 DEF Invalidates
<1>3. /\ r.cart # NoCart => r.cart[1] = r.owner
      /\ r.guest # NoCart => r.guest[1] = r.session
      /\ \A i \in ItemIds : r.rows[i] # NoItem => r.rows[i].cart = r.guest
  BY <1>1 DEF EInv, RequestsOwn, OwnCarts, Seeing
<1>4. PICK c \in TargetCart(r.owner, r.cart) :
        /\ ProcessItemMerge(r, c, gone)
        /\ status' = [d \in CartIds |-> IF d = r.guest THEN "deleted"
                                        ELSE IF d = c /\ status[c] = "none" THEN "ACTIVE"
                                        ELSE status[d]]
  BY DEF MergeCart
<1>5. c \in CartIds /\ c[1] = r.owner
  BY <1>1, <1>3, TargetIsOwn DEF EInv, MergeLocked, Owners
<1>6. ASSUME NEW i \in gone PROVE items[i] = NoItem \/ items[i].cart[1] # o
  <2>1. items[i] # NoItem => items[i].cart = r.guest
    <3>1. CASE i \in Live(r.rows)
      <4>1. i \in ItemIds /\ r.rows[i] # NoItem /\ ReadIn(r, i) = r.rows[i]
        BY <1>1, <3>1 DEF Live, ReadIn, SnapshotOps
      <4> QED
        BY <1>3, <4>1 DEF EInv, OneKeyPerRow, SameKey
    <3> QED
      BY <1>6, <3>1
  <2>2. CASE items[i] # NoItem
    <3>1. i \in ItemIds /\ items[i] \in Row
      BY <1>6, <2>2 DEF Live, EInv, TypeOK, Rows
    <3>2. r.guest # NoCart
      BY <2>1, <2>2, <3>1, NullAssumption DEF Row
    <3> QED
      BY <1>2, <1>3, <2>1, <2>2, <3>2
  <2> QED
    BY <2>2
<1>7. \A i \in ItemIds :
        \/ i \in gone /\ items'[i] = NoItem
        \/ items'[i] = items[i]
        \/ items[i] # NoItem /\ items[i].cart = c /\ items'[i].cart = c
        \/ i \notin issued /\ i \in issued' /\ items'[i].cart = c
  BY <1>1, <1>4, <1>5, ProcessItemMergeRows DEF EInv, SameKey
<1>8. \A i \in ItemIds : SameRow(o, i)
  BY <1>2, <1>5, <1>6, <1>7 DEF SameRow, EInv, OneKeyPerRow
<1>9. \A d \in ActiveCarts(o) : status'[d] = "ACTIVE"
  <2> SUFFICES ASSUME NEW d \in ActiveCarts(o) PROVE status'[d] = "ACTIVE"
    OBVIOUS
  <2>1. d \in CartIds /\ d[1] = o /\ status[d] = "ACTIVE"
    BY DEF ActiveCarts
  <2>2. d # r.guest
    BY <1>2, <1>3, <2>1, NullAssumption
  <2> QED
    BY <1>4, <2>1, <2>2
<1> QED
  BY <1>8, <1>9 DEF LeavesAlone

(* Every commit.                                                           *)
LEMMA WriteLeavesAlone ==
    ASSUME EInv, NEW p \in Procs, Write(p), NEW o \in Owners \ (Invalidates(p) \cup Excuses(p))
    PROVE  LeavesAlone(o)
<1>1. CASE AddToCart(p) \/ AddToGuestCart(p)
  BY <1>1, AddLeavesAlone
<1>2. CASE UpdateCartItem(p) \/ SaveUnheldRow(p)
  BY <1>2, UpdateLeavesAlone
<1>3. CASE RemoveFromCart(p) \/ ClearCart(p)
  BY <1>3, DropLeavesAlone
<1>4. CASE MergeCart(p)
  BY <1>4, MergeLeavesAlone
<1>5. CASE Checkout(p)
  <2>1. o # req[p].cart[1] /\ req[p].cart \in CartIds
    BY <1>5, RequestKind DEF Checkout, Excuses, EInv, TypeOK, CartRequest
  <2> QED
    BY <1>5, <2>1 DEF Checkout, LeavesAlone, SameRow, ActiveCarts, EInv, TypeOK
<1>6. CASE ReleaseExpiredReservations(p) \/ ReleaseExpiredGuestReservations(p)
  <2>1. items' = Unreserved(req[p].rows) /\ UNCHANGED status
    BY <1>6 DEF ReleaseExpiredReservations, ReleaseExpiredGuestReservations
  <2>2. \A i \in ItemIds : SameRow(o, i)
    BY <2>1, UnreservedRows DEF SameRow, SameKey, EInv
  <2> QED
    BY <2>1, <2>2 DEF LeavesAlone, ActiveCarts
<1>7. CASE CleanupAbandonedGuestCart(p)
  <2>1. o # req[p].cart[1] /\ req[p].cart \in CartIds
    BY <1>7, RequestKind DEF CleanupAbandonedGuestCart, Excuses, EInv, TypeOK, CartRequest
  <2>2. \A i \in ItemIds : SameRow(o, i)
    BY <1>7, <2>1 DEF CleanupAbandonedGuestCart, SameRow
  <2> QED
    BY <1>7, <2>1, <2>2 DEF CleanupAbandonedGuestCart, LeavesAlone, ActiveCarts, EInv, TypeOK
<1> QED
  BY <1>1, <1>2, <1>3, <1>4, <1>5, <1>6, <1>7 DEF Write

-----------------------------------------------------------------------------
(* What is shown of a cart is a view.                                      *)
LEMMA ShownIsView ==
    ASSUME TypeOK, NEW o, NEW v \in Current(o)
    PROVE  v \in Views
<1>1. PICK c \in ActiveCarts(o) : v = Shown(c)
  BY DEF Current
<1>2. \A i \in ItemIds : RowsOf(c)[i] # NoItem => RowsOf(c)[i].qty \in Nat
  BY DEF RowsOf, TypeOK, Rows, Row
<1> QED
  BY <1>1, <1>2 DEF Shown, Views, ActiveCarts

(* The entries a request deletes are entries of owners.                    *)
LEMMA InvalidatesOwners ==
    ASSUME TypeOK, NEW p \in Procs
    PROVE  Invalidates(p) \cup Excuses(p) \subseteq Owners
<1>1. req[p] \in Request
  BY DEF TypeOK
<1>2. \A c \in CartIds : c[1] \in Owners
  BY DEF CartIds
<1>3. CASE req[p].op \in {"add", "guestAdd"}
  BY <1>1, <1>3, RequestKind DEF Invalidates, Excuses, AddRequest
<1>4. CASE req[p].op \in {"update", "saving"}
  BY <1>1, <1>2, <1>4, RequestKind DEF Invalidates, Excuses, UpdateRequest, Row
<1>5. CASE req[p].op \in {"remove", "clear"}
  <2>1. \A i \in Live(req[p].rows) : req[p].rows[i] \in Row
    BY <1>1, <1>5, RequestKind DEF DropRequest, Live, Rows
  <2> QED
    BY <1>2, <1>5, <2>1 DEF Invalidates, Excuses, Row
<1>6. CASE req[p].op = "merging"
  BY <1>1, <1>6, RequestKind DEF Invalidates, Excuses, MergeLocked, Owners
<1>7. CASE req[p].op \in {"checkout", "purge"}
  BY <1>1, <1>2, <1>7, RequestKind DEF Invalidates, Excuses, CartRequest
<1>8. CASE req[p].op \notin {"add", "guestAdd", "update", "saving", "remove", "clear",
                             "merging", "checkout", "purge"}
  BY <1>8 DEF Invalidates, Excuses
<1> QED
  BY <1>3, <1>4, <1>5, <1>6, <1>7, <1>8

(* CacheTypeOK: entries, reads and deletions owed are well typed, for any  *)
(* owners, requests and readers.                                           *)
THEOREM CacheTypeCorrect == CacheSpec => []CacheTypeOK
<1>1. CacheInit => CacheTypeOK
  BY DEF CacheInit, CacheTypeOK
<1>2. TypeOK /\ CacheTypeOK /\ [CacheNext]_cacheVars => CacheTypeOK'
  <2> SUFFICES ASSUME TypeOK, CacheTypeOK, [CacheNext]_cacheVars PROVE CacheTypeOK'
    OBVIOUS
  <2>1. ASSUME NEW p \in Procs, Commit(p) PROVE CacheTypeOK'
    BY <2>1, InvalidatesOwners DEF Commit, CacheTypeOK, Excuses
  <2>2. CASE Elsewhere
    BY <2>2 DEF Elsewhere, CacheTypeOK
  <2>3. ASSUME NEW o \in Owners, Invalidate(o) \/ InvalidateFails(o) \/ Evict(o)
        PROVE  CacheTypeOK'
    BY <2>3 DEF Invalidate, InvalidateFails, Evict, Drop, CacheTypeOK
  <2>4. ASSUME NEW r \in Readers, Store(r) PROVE CacheTypeOK'
    <3>1. reader[r] \in [owner : Owners, view : Views]
      BY <2>4 DEF Store, Missing, CacheTypeOK
    <3> QED
      BY <2>4, <3>1 DEF Store, CacheTypeOK
  <2>5. ASSUME NEW r \in Readers, ReadCart(r) \/ \E o \in Owners : LookUp(r, o) PROVE CacheTypeOK'
    BY <2>5, ShownIsView DEF ReadCart, LookUp, Missing, CacheTypeOK
  <2>6. CASE UNCHANGED cacheVars
    BY <2>6 DEF cacheVars, CacheTypeOK
  <2> QED
    BY <2>1, <2>2, <2>3, <2>4, <2>5, <2>6 DEF CacheNext
<1> QED
  BY <1>1, <1>2, CachedCartsAreCarts, Typing, PTL DEF CacheSpec

(* An entry of an owner left alone is as old as it was.                    *)
LEMMA AloneKeepsFresh ==
    ASSUME NEW o, LeavesAlone(o), UNCHANGED cache, Stale(o)'
    PROVE  Stale(o)
  BY AloneKeepsCurrent DEF Stale

(* OldForAReason, for any owners, requests and readers: every handler of a *)
(* customer deletes the entry of every owner whose cart it changes.        *)
THEOREM EntriesAreOldForAReason == CacheSpec => []OldForAReason
<1>1. CacheInit => OldForAReason
  BY DEF CacheInit, OldForAReason, Stale
<1>2. EInv /\ CacheTypeOK /\ OldForAReason /\ [CacheNext]_cacheVars => OldForAReason'
  <2> SUFFICES ASSUME EInv, CacheTypeOK, OldForAReason, [CacheNext]_cacheVars,
                      NEW o \in Owners, Stale(o)'
               PROVE  o \in owed' \cup excused'
    BY DEF OldForAReason
  <2>1. ASSUME NEW p \in Procs, Commit(p) PROVE o \in owed' \cup excused'
    <3>1. CASE o \in Invalidates(p) \cup Excuses(p)
      BY <2>1, <3>1 DEF Commit, Excuses
    <3>2. CASE o \notin Invalidates(p) \cup Excuses(p)
      <4>1. LeavesAlone(o) /\ UNCHANGED cache
        BY <2>1, <3>2, WriteLeavesAlone DEF Commit
      <4>2. o \in owed \cup excused
        BY <4>1, AloneKeepsFresh DEF OldForAReason
      <4> QED
        BY <2>1, <4>2 DEF Commit
    <3> QED
      BY <3>1, <3>2
  <2>2. CASE Elsewhere
    <3>1. LeavesAlone(o) /\ UNCHANGED <<cache, owed, excused>>
      BY <2>2, ElsewhereLeavesAlone DEF Elsewhere, EInv
    <3> QED
      BY <3>1, AloneKeepsFresh DEF OldForAReason
  <2>3. ASSUME NEW n \in Owners, Invalidate(n) \/ InvalidateFails(n) \/ Evict(n)
        PROVE  o \in owed' \cup excused'
    <3>1. UNCHANGED vars
      BY <2>3 DEF Invalidate, InvalidateFails, Evict, Drop
    <3>2. Current(o)' = Current(o)
      BY <3>1 DEF vars, Current, ActiveCarts, Shown, RowsOf
    <3> QED
      BY <2>3, <3>2 DEF Invalidate, InvalidateFails, Evict, Drop, Stale, OldForAReason, CacheTypeOK
  <2>4. ASSUME NEW r \in Readers, Store(r) PROVE o \in owed' \cup excused'
    <3>1. Current(o)' = Current(o)
      BY <2>4 DEF Store, vars, Current, ActiveCarts, Shown, RowsOf
    <3>2. reader[r].owner \in Owners
      BY <2>4 DEF Store, CacheTypeOK
    <3> QED
      BY <2>4, <3>1, <3>2 DEF Store, Stale, OldForAReason, CacheTypeOK
  <2>5. ASSUME NEW r \in Readers, ReadCart(r) \/ \E n \in Owners : LookUp(r, n)
        PROVE  o \in owed' \cup excused'
    <3>1. Current(o)' = Current(o)
      BY <2>5 DEF ReadCart, LookUp, vars, Current, ActiveCarts, Shown, RowsOf
    <3> QED
      BY <2>5, <3>1 DEF ReadCart, LookUp, Stale, OldForAReason
  <2>6. CASE UNCHANGED cacheVars
    <3>1. Current(o)' = Current(o)
      BY <2>6 DEF cacheVars, vars, Current, ActiveCarts, Shown, RowsOf
    <3> QED
      BY <2>6, <3>1 DEF cacheVars, Stale, OldForAReason
  <2> QED
    BY <2>1, <2>2, <2>3, <2>4, <2>5, <2>6 DEF CacheNext
<1> QED
  BY <1>1, <1>2, CachedCartsAreCarts, RowsKeepTheirKey, CacheTypeCorrect, PTL DEF CacheSpec

=============================================================================
