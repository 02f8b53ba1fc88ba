--------------------------- MODULE CartReservation ---------------------------
(***************************************************************************)
(* Carts and the stock they hold: CartService, CartMergeService, the       *)
(* database transaction of CheckoutService and the two release jobs of     *)
(* ReservationWorkerService.                                               *)
(*                                                                         *)
(* Every handler runs in one READ COMMITTED transaction that first reads   *)
(* rows without locking them and later takes the row lock of each variant  *)
(* it changes.  A handler is therefore two steps: ...Begin makes the       *)
(* unlocked reads and keeps what it read in req[p]; the second step takes  *)
(* the locks, tests, writes and commits, working from those reads.         *)
(* Merging, checking out and adding to a row that holds no stock read more *)
(* rows while they hold a lock, and have the lock visible in req[p]        *)
(* between the two.                                                        *)
(***************************************************************************)
EXTENDS Integers, FiniteSets, FiniteSetsExt

CONSTANTS
    Users,          \* authenticated owners of carts
    Sessions,       \* guest owners of carts
    Variants,       \* rows of book_format_varients
    Physical,       \* the variants whose format is PHYSICAL
    InitialStock,   \* stockQuantity of every variant at the start
    Procs,          \* requests and jobs in flight at the same time
    ItemIds,        \* bound: cart_items rows ever inserted
    MaxCarts,       \* bound: carts ever created for one owner
    MaxQty,         \* bound: quantity of one request and of one row
    MaxDebt,        \* bound: how far below zero repeated releases take a counter
    MaxGuestItems,  \* MAX_GUEST_CART_ITEMS
    Handlers,       \* the handlers the workload calls
    NoCart, NoItem

Owners == Users \cup Sessions
CartIds == Owners \X (1..MaxCarts)
Qty == 1..MaxQty

ASSUME OwnersAssumption == Users \cap Sessions = {}
ASSUME StockAssumption ==
    /\ Physical \subseteq Variants
    /\ InitialStock \in [Variants -> Nat]
ASSUME BoundAssumption ==
    /\ MaxCarts \in Nat /\ MaxQty \in Nat
    /\ MaxDebt \in Nat /\ MaxGuestItems \in Nat \ {0}
    /\ IsFiniteSet(ItemIds) /\ IsFiniteSet(Procs)

VARIABLES
    stock,      \* book_format_varients."stockQuantity"
    reserved,   \* book_format_varients."reservedQuantity"
    status,     \* carts.status; "none" not yet inserted, "deleted" deleted
    fresh,      \* carts whose updated_at lies within the reservation TTL
    items,      \* cart_items
    issued,     \* ids of rows of cart_items ever inserted
    req         \* the requests in flight

vars == <<stock, reserved, status, fresh, items, issued, req>>

Row == [cart : CartIds, variant : Variants, qty : Nat \ {0}, isStockReserved : BOOLEAN]
Rows == [ItemIds -> Row \cup {NoItem}]
CartStatus == {"none", "ACTIVE", "CHECKOUT", "COMPLETED", "ABANDONED", "deleted"}

ASSUME NullAssumption == NoCart \notin CartIds /\ NoItem \notin Row

Idle == [op |-> "idle"]

AddRequest == [op : {"add", "guestAdd"}, owner : Owners, cart : CartIds \cup {NoCart},
               variant : Variants, qty : Nat \ {0}]
UpdateRequest == [op : {"update", "saving"}, item : ItemIds, row : Row, qty : Nat \ {0}]
DropRequest == [op : {"remove", "clear", "release", "releaseGuest"}, rows : Rows]
MergeRequest == [op : {"merge"}, owner : Users, session : Sessions,
                 cart : CartIds \cup {NoCart}, lines : [Variants -> 0..MaxQty]]
MergeLocked == [op : {"merging"}, owner : Users, session : Sessions, cart : CartIds \cup {NoCart},
                lines : [Variants -> 0..MaxQty], guest : CartIds \cup {NoCart}, rows : Rows]
CartRequest == [op : {"purge", "checkout"}, cart : CartIds, rows : Rows]
Request == {Idle} \cup AddRequest \cup UpdateRequest \cup DropRequest
                  \cup MergeRequest \cup MergeLocked \cup CartRequest

TypeOK ==
    /\ stock \in [Variants -> Int]
    /\ reserved \in [Variants -> Int]
    /\ status \in [CartIds -> CartStatus]
    /\ fresh \subseteq CartIds
    /\ items \in Rows
    /\ issued \subseteq ItemIds
    /\ req \in [Procs -> Request]

Init ==
    /\ stock = InitialStock
    /\ reserved = [v \in Variants |-> 0]
    /\ status = [c \in CartIds |-> "none"]
    /\ fresh = {}
    /\ items = [i \in ItemIds |-> NoItem]
    /\ issued = {}
    /\ req = [p \in Procs |-> Idle]

-----------------------------------------------------------------------------
(* What the queries of the handlers return.                                *)

ActiveCarts(o) == {c \in CartIds : c[1] = o /\ status[c] = "ACTIVE"}
FindActive(o) == IF ActiveCarts(o) = {} THEN {NoCart} ELSE ActiveCarts(o)

RowsOf(c) == [i \in ItemIds |-> IF items[i] # NoItem /\ items[i].cart = c
                                THEN items[i] ELSE NoItem]
OnlyRow(i) == [j \in ItemIds |-> IF j = i THEN items[i] ELSE NoItem]
Live(rows) == {i \in ItemIds : rows[i] # NoItem}
ItemAt(c, v) == {i \in Live(items) : items[i].cart = c /\ items[i].variant = v}

(* MUTANT: the reservations of other carts are not taken off.              *)
AvailableUnreserved(v) == stock[v]
Available(v) == stock[v] - reserved[v]

(* The rows of one cart that hold stock of v: at most one, by the unique   *)
(* key on (cart, variant).                                                 *)
Holding(rows, v) ==
    {i \in Live(rows) : v \in Physical /\ rows[i].variant = v /\ rows[i].isStockReserved}
HeldQty(rows, v) ==
    IF Holding(rows, v) = {} THEN 0 ELSE rows[CHOOSE i \in Holding(rows, v) : TRUE].qty

(* reservedQuantity - qty, and GREATEST(0, reservedQuantity - qty).         *)
Released(rows) == [v \in Variants |-> reserved[v] - HeldQty(rows, v)]
AtLeastZero(n) == IF n < 0 THEN 0 ELSE n
(* MUTANT: the rows go and their reservation stays.                        *)
NotReleasedToZero(base, rows) == base
ReleasedToZero(base, rows) ==
    [v \in Variants |-> IF Holding(rows, v) = {} THEN base[v]
                        ELSE AtLeastZero(base[v] - HeldQty(rows, v))]

(* Row locks held between two steps of a request.                          *)
LockedVariants(q) ==
    CASE req[q].op = "merging" -> {v \in Variants : req[q].lines[v] > 0}
      [] req[q].op = "saving" -> {req[q].row.variant}
      [] OTHER -> {}
VariantFree(p, v) == \A q \in Procs \ {p} : v \notin LockedVariants(q)
HoldersFree(p, rows) == \A v \in Variants : Holding(rows, v) # {} => VariantFree(p, v)
CartFree(c) == \A q \in Procs : req[q].op = "checkout" => req[q].cart # c

(* The cart a handler writes to: the one it read, or a new row, which the  *)
(* unique index on ACTIVE carts of an owner refuses when there is one now. *)
NextCart(o) == {c \in CartIds : /\ c[1] = o
                                /\ status[c] = "none"
                                /\ \A n \in 1..(c[2] - 1) : status[<<o, n>>] # "none"}
(* MUTANT: no unique index on the ACTIVE carts of an owner.                *)
TargetCartUnindexed(o, seen) == IF seen # NoCart THEN {seen} ELSE NextCart(o)
TargetCart(o, seen) ==
    IF seen # NoCart THEN {seen} ELSE IF ActiveCarts(o) = {} THEN NextCart(o) ELSE {}
Opened(c) ==
    /\ status' = [status EXCEPT ![c] = IF @ = "none" THEN "ACTIVE" ELSE @]
    /\ fresh' = IF status[c] = "none" THEN fresh \cup {c} ELSE fresh

(* cart_items.cart_id references carts: an insert needs the cart's row and *)
(* waits for a transaction that has it locked.                             *)
Insertable(c) == status[c] # "deleted" /\ CartFree(c)
NewRow(c, v, q, held) == [cart |-> c, variant |-> v, qty |-> q, isStockReserved |-> held]

Start(p, r) == req[p] = Idle /\ req' = [req EXCEPT ![p] = r]
Done(p) == req' = [req EXCEPT ![p] = Idle]
ReadOnly == UNCHANGED <<stock, reserved, status, fresh, items, issued>>

-----------------------------------------------------------------------------
(* CartService *)

GetCart(u) ==
    /\ ActiveCarts(u) = {}
    /\ \E c \in NextCart(u) : Opened(c)
    /\ UNCHANGED <<stock, reserved, items, issued, req>>

AddToCartBegin(p, u, v, q) ==
    /\ \E c \in FindActive(u) :
        Start(p, [op |-> "add", owner |-> u, cart |-> c, variant |-> v, qty |-> q])
    /\ ReadOnly

(* MUTANT: the limit is tested with > instead of >=.                       *)
AddToGuestCartBeginOverLimit(p, s, v, q) ==
    /\ \E c \in FindActive(s) :
        /\ Cardinality(Live(RowsOf(c))) > MaxGuestItems => ItemAt(c, v) # {}
        /\ Start(p, [op |-> "guestAdd", owner |-> s, cart |-> c, variant |-> v, qty |-> q])
    /\ ReadOnly

AddToGuestCartBegin(p, s, v, q) ==
    /\ \E c \in FindActive(s) :
        /\ Cardinality(Live(RowsOf(c))) >= MaxGuestItems => ItemAt(c, v) # {}
        /\ Start(p, [op |-> "guestAdd", owner |-> s, cart |-> c, variant |-> v, qty |-> q])
    /\ ReadOnly

(* Lock the variant, test its stock, reserve, add to the row or insert it. *)
(* A row that holds stock stays while its variant is locked.               *)
ReserveIntoCart(p) ==
    LET r == req[p] v == r.variant IN
    /\ VariantFree(p, v)
    /\ v \in Physical => Available(v) >= r.qty
    /\ reserved' = [reserved EXCEPT ![v] = IF v \in Physical THEN @ + r.qty ELSE @]
    /\ \E c \in TargetCart(r.owner, r.cart) :
        /\ Opened(c)
        /\ \/ \E i \in ItemAt(c, v) \cap Holding(items, v) :
                /\ items[i].qty + r.qty <= MaxQty
                /\ items' = [items EXCEPT ![i].qty = @ + r.qty]
                /\ UNCHANGED issued
           \/ /\ ItemAt(c, v) = {} /\ Insertable(c)
              /\ \E i \in ItemIds \ issued :
                    /\ items' = [items EXCEPT ![i] = NewRow(c, v, r.qty, TRUE)]
                    /\ issued' = issued \cup {i}
    /\ Done(p)
    /\ UNCHANGED stock

AddToCart(p) == req[p].op = "add" /\ ReserveIntoCart(p)
AddToGuestCart(p) == req[p].op = "guestAdd" /\ ReserveIntoCart(p)

(* A row that holds none, digital or expired, is removed without the lock: *)
(* the look-up and the save are two steps.                                 *)
FindUnheldRow(p) ==
    LET r == req[p] IN
    /\ r.op \in {"add", "guestAdd"}
    /\ VariantFree(p, r.variant)
    /\ \E i \in ItemAt(r.cart, r.variant) \ Holding(items, r.variant) :
        req' = [req EXCEPT ![p] = [op |-> "saving", item |-> i, row |-> items[i], qty |-> r.qty]]
    /\ ReadOnly

(* Saving the row found inserts it again when it is gone by now.           *)
SaveUnheldRow(p) ==
    LET r == req[p] v == r.row.variant c == r.row.cart IN
    /\ r.op = "saving"
    /\ v \in Physical => Available(v) >= r.qty
    /\ r.row.qty + r.qty <= MaxQty
    /\ items[r.item] = NoItem => ItemAt(c, v) = {} /\ Insertable(c)
    /\ reserved' = [reserved EXCEPT ![v] = IF v \in Physical THEN @ + r.qty ELSE @]
    /\ items' = [items EXCEPT ![r.item] =
                    NewRow(c, v, r.row.qty + r.qty, r.row.isStockReserved)]
    /\ Done(p)
    /\ UNCHANGED <<stock, status, fresh, issued>>

UpdateCartItemBegin(p, u, i, q) ==
    /\ items[i] # NoItem /\ items[i].cart[1] = u
    /\ Start(p, [op |-> "update", item |-> i, row |-> items[i], qty |-> q])
    /\ ReadOnly

(* The whole row read at the start is saved: an unreserved row reserves    *)
(* its full quantity, a reserved one the difference.                       *)
UpdateCartItem(p) ==
    LET r == req[p] v == r.row.variant c == r.row.cart
        need == IF r.row.isStockReserved THEN r.qty - r.row.qty ELSE r.qty IN
    /\ r.op = "update"
    /\ VariantFree(p, v)
    /\ v \in Physical /\ need > 0 => Available(v) >= need
    /\ v \in Physical => reserved[v] + need >= -MaxDebt
    /\ reserved' = [reserved EXCEPT ![v] = IF v \in Physical THEN @ + need ELSE @]
    /\ items[r.item] = NoItem => ItemAt(c, v) = {} /\ Insertable(c)
    /\ items' = [items EXCEPT ![r.item] =
                    NewRow(c, v, r.qty, r.row.isStockReserved \/ v \in Physical)]
    /\ Done(p)
    /\ UNCHANGED <<stock, status, fresh, issued>>

RemoveFromCartBegin(p, u, i) ==
    /\ items[i] # NoItem /\ items[i].cart[1] = u
    /\ Start(p, [op |-> "remove", rows |-> OnlyRow(i)])
    /\ ReadOnly

ClearCartBegin(p, u) ==
    /\ \E c \in ActiveCarts(u) : Start(p, [op |-> "clear", rows |-> RowsOf(c)])
    /\ ReadOnly

(* Release what the rows held when they were read, and delete them by id.  *)
DropRows(p) ==
    LET rows == req[p].rows IN
    /\ HoldersFree(p, rows)
    /\ \A v \in Variants : Released(rows)[v] >= -MaxDebt
    /\ reserved' = Released(rows)
    /\ items' = [i \in ItemIds |-> IF i \in Live(rows) THEN NoItem ELSE items[i]]
    /\ Done(p)
    /\ UNCHANGED <<stock, status, fresh, issued>>

RemoveFromCart(p) == req[p].op = "remove" /\ DropRows(p)
ClearCart(p) == req[p].op = "clear" /\ DropRows(p)

-----------------------------------------------------------------------------
(* CartMergeService *)

(* One quantity per variant: two lines of one variant are worked off one   *)
(* after the other in the same transaction and end as one line of their    *)
(* sum does, or of the one that still found stock.                         *)
MergeCartBegin(p, u, s, lines) ==
    /\ \E v \in Variants : lines[v] > 0
    /\ \E c \in FindActive(u) :
        Start(p, [op |-> "merge", owner |-> u, session |-> s, cart |-> c, lines |-> lines])
    /\ ReadOnly

(* All lines are locked, one after the other, before the guest cart is read. *)
MergeCartLock(p) ==
    LET r == req[p] IN
    /\ r.op = "merge"
    /\ \A v \in Variants : r.lines[v] > 0 => VariantFree(p, v)
    /\ \E g \in FindActive(r.session) :
        req' = [req EXCEPT ![p] =
                    [op |-> "merging", owner |-> r.owner, session |-> r.session,
                     cart |-> r.cart, lines |-> r.lines, guest |-> g, rows |-> RowsOf(g)]]
    /\ ReadOnly

(* MUTANT: a line of quantity zero is not skipped.                         *)
MergeableZero(r) == {v \in Variants : v \in Physical => Available(v) >= r.lines[v]}
(* A line without stock is reported as a conflict and left out.            *)
Mergeable(r) == {v \in Variants : r.lines[v] > 0 /\ (v \in Physical => Available(v) >= r.lines[v])}

(* processItemMerge for every line; gone: the guest rows this merge deletes. *)
ProcessItemMerge(r, c, gone) ==
    LET added == Mergeable(r)
        new == {v \in added : ItemAt(c, v) = {}} IN
    /\ new # {} => Insertable(c)
    /\ \A v \in added : \A i \in ItemAt(c, v) : items[i].qty + r.lines[v] <= MaxQty
    /\ \E id \in [new -> ItemIds \ issued] :
        /\ \A v, w \in new : id[v] = id[w] => v = w
        /\ issued' = issued \cup {id[v] : v \in new}
        /\ items' = [i \in ItemIds |->
             IF i \in gone THEN NoItem
             ELSE IF items[i] # NoItem
             THEN IF items[i].cart = c /\ items[i].variant \in added
                  THEN [items[i] EXCEPT !.qty = @ + r.lines[items[i].variant]]
                  ELSE items[i]
             ELSE IF \E v \in new : id[v] = i
             THEN LET v == CHOOSE w \in new : id[w] = i
                  IN NewRow(c, v, r.lines[v], v \in Physical)
             ELSE NoItem]

(* The guest cart's rows are released as they were read; deleting the cart *)
(* deletes, by ON DELETE CASCADE, the rows it has by now.                  *)
MergeCart(p) ==
    LET r == req[p]
        taken == [v \in Variants |-> IF v \in Physical /\ v \in Mergeable(r)
                                     THEN reserved[v] + r.lines[v] ELSE reserved[v]]
        gone == {i \in Live(items) : items[i].cart = r.guest} \cup Live(r.rows) IN
    /\ r.op = "merging"
    /\ HoldersFree(p, r.rows)
    /\ reserved' = ReleasedToZero(taken, r.rows)
    /\ \E c \in TargetCart(r.owner, r.cart) :
        /\ ProcessItemMerge(r, c, gone)
        /\ status' = [d \in CartIds |-> IF d = r.guest THEN "deleted"
                                        ELSE IF d = c /\ status[c] = "none" THEN "ACTIVE"
                                        ELSE status[d]]
        /\ fresh' = IF status[c] = "none" THEN fresh \cup {c} ELSE fresh
    /\ Done(p)
    /\ UNCHANGED stock

-----------------------------------------------------------------------------
(* CheckoutService, the database transaction.  The cart's row stays locked *)
(* from the read to the commit; its items do not.                          *)

CheckoutBegin(p, u) ==
    /\ \E c \in ActiveCarts(u) :
        /\ CartFree(c)
        /\ Live(RowsOf(c)) # {}
        /\ Start(p, [op |-> "checkout", cart |-> c, rows |-> RowsOf(c)])
    /\ ReadOnly

(* Rows whose reservation expired are reserved again, just in time.        *)
JustInTime(rows) == {i \in Live(rows) : rows[i].variant \in Physical /\ ~rows[i].isStockReserved}

Checkout(p) ==
    LET rows == req[p].rows c == req[p].cart
        jit(v) == {i \in JustInTime(rows) : rows[i].variant = v} IN
    /\ req[p].op = "checkout"
    /\ \A i \in Live(rows) :
        /\ VariantFree(p, rows[i].variant)
        /\ rows[i].variant \in Physical =>
             IF rows[i].isStockReserved THEN stock[rows[i].variant] >= rows[i].qty
             ELSE Available(rows[i].variant) >= rows[i].qty
    /\ reserved' = [v \in Variants |-> IF jit(v) = {} THEN reserved[v]
                                       ELSE reserved[v] + rows[CHOOSE i \in jit(v) : TRUE].qty]
    /\ status' = [status EXCEPT ![c] = "CHECKOUT"]
    /\ fresh' = fresh \cup {c}
    /\ Done(p)
    /\ UNCHANGED <<stock, items, issued>>

-----------------------------------------------------------------------------
(* ReservationWorkerService.  A job reads the list of expired rows at once *)
(* and handles each in a transaction of its own: a request per row.        *)

Expired(c) == status[c] = "ACTIVE" /\ c \notin fresh

ReleaseExpiredBegin(p, i, op, owners) ==
    /\ items[i] # NoItem /\ items[i].isStockReserved
    /\ Expired(items[i].cart) /\ items[i].cart[1] \in owners
    /\ Start(p, [op |-> op, rows |-> OnlyRow(i)])
    /\ ReadOnly

(* MUTANT: the job for guest carts is not called.                          *)
ReleaseBeginUsersOnly(p, i) == ReleaseExpiredBegin(p, i, "release", Users)

ReleaseBegin(p, i) ==
    \/ ReleaseExpiredBegin(p, i, "release", Users)
    \/ ReleaseExpiredBegin(p, i, "releaseGuest", Sessions)

(* MUTANT: the reservation is released and the row still says it is held.  *)
StillReserved(rows) == items
Unreserved(rows) == [i \in ItemIds |-> IF i \in Live(rows) /\ items[i] # NoItem
                                       THEN [items[i] EXCEPT !.isStockReserved = FALSE]
                                       ELSE items[i]]

ReleaseExpiredReservations(p) ==
    LET rows == req[p].rows IN
    /\ req[p].op = "release"
    /\ HoldersFree(p, rows)
    /\ \A v \in Variants : Released(rows)[v] >= -MaxDebt
    /\ reserved' = Released(rows)
    /\ items' = Unreserved(rows)
    /\ Done(p)
    /\ UNCHANGED <<stock, status, fresh, issued>>

ReleaseExpiredGuestReservations(p) ==
    LET rows == req[p].rows IN
    /\ req[p].op = "releaseGuest"
    /\ HoldersFree(p, rows)
    /\ reserved' = ReleasedToZero(reserved, rows)
    /\ items' = Unreserved(rows)
    /\ Done(p)
    /\ UNCHANGED <<stock, status, fresh, issued>>

CleanupGuestCartBegin(p, c) ==
    /\ c[1] \in Sessions /\ Expired(c)
    /\ Start(p, [op |-> "purge", cart |-> c, rows |-> RowsOf(c)])
    /\ ReadOnly

(* Releases the rows it read, deletes the rows the cart has now.           *)
CleanupAbandonedGuestCart(p) ==
    LET r == req[p] IN
    /\ r.op = "purge"
    /\ HoldersFree(p, r.rows)
    /\ reserved' = ReleasedToZero(reserved, r.rows)
    /\ items' = [i \in ItemIds |-> IF items[i] # NoItem /\ items[i].cart = r.cart
                                   THEN NoItem ELSE items[i]]
    /\ status' = [status EXCEPT ![r.cart] = "deleted"]
    /\ Done(p)
    /\ UNCHANGED <<stock, fresh, issued>>

-----------------------------------------------------------------------------
(* rollbackTransaction: a refused request, a deadlock victim, a lost       *)
(* connection or a crash of the process.                                   *)
Rollback(p) ==
    /\ req[p] # Idle
    /\ Done(p)
    /\ ReadOnly

(* The reservation TTL of a cart passes without its row being saved.       *)
Expire(c) ==
    /\ c \in fresh
    /\ fresh' = fresh \ {c}
    /\ UNCHANGED <<stock, reserved, status, items, issued, req>>

Begin(p) ==
    \/ \E u \in Users, v \in Variants, q \in Qty :
            "add" \in Handlers /\ AddToCartBegin(p, u, v, q)
    \/ \E s \in Sessions, v \in Variants, q \in Qty :
            "guestAdd" \in Handlers /\ AddToGuestCartBegin(p, s, v, q)
    \/ \E u \in Users, i \in ItemIds, q \in Qty :
            "update" \in Handlers /\ UpdateCartItemBegin(p, u, i, q)
    \/ \E u \in Users, i \in ItemIds : "remove" \in Handlers /\ RemoveFromCartBegin(p, u, i)
    \/ \E u \in Users : "clear" \in Handlers /\ ClearCartBegin(p, u)
    \/ \E u \in Users, s \in Sessions, lines \in [Variants -> 0..MaxQty] :
            "merge" \in Handlers /\ MergeCartBegin(p, u, s, lines)
    \/ \E u \in Users : "checkout" \in Handlers /\ CheckoutBegin(p, u)
    \/ \E i \in ItemIds : "release" \in Handlers /\ ReleaseBegin(p, i)
    \/ \E c \in CartIds : "purge" \in Handlers /\ CleanupGuestCartBegin(p, c)

Lock(p) == FindUnheldRow(p) \/ MergeCartLock(p)
Write(p) ==
    \/ AddToCart(p) \/ AddToGuestCart(p) \/ SaveUnheldRow(p) \/ UpdateCartItem(p)
    \/ RemoveFromCart(p) \/ ClearCart(p) \/ MergeCart(p) \/ Checkout(p)
    \/ ReleaseExpiredReservations(p) \/ ReleaseExpiredGuestReservations(p)
    \/ CleanupAbandonedGuestCart(p)
Finish(p) == Lock(p) \/ Write(p)

Next ==
    \/ \E u \in Users : "getCart" \in Handlers /\ GetCart(u)
    \/ \E p \in Procs : Begin(p) \/ Finish(p) \/ Rollback(p)
    \/ \E c \in CartIds : "expire" \in Handlers /\ Expire(c)

Spec == Init /\ [][Next]_vars

(* Every request ends.  The job runs every five minutes: an expired row is *)
(* read again as long as it is there, not always while a request has its   *)
(* variant locked, and its transaction is not rolled back every time.      *)
Release(p) == ReleaseExpiredReservations(p) \/ ReleaseExpiredGuestReservations(p)
Fairness ==
    /\ \A p \in Procs : WF_vars(Finish(p) \/ Rollback(p)) /\ SF_vars(Release(p))
    /\ \A i \in ItemIds : SF_vars(\E p \in Procs : ReleaseBegin(p, i) /\ HoldersFree(p, OnlyRow(i)))
FairSpec == Spec /\ Fairness

-----------------------------------------------------------------------------
(* Capacity: no interleaving of cart handlers, checkouts and jobs ever     *)
(* reserves more of a variant than there is: two users adding the last     *)
(* copy, a merge and a checkout that re-reserves compete for one row lock. *)
Capacity == \A v \in Variants : reserved[v] <= stock[v]

(* The sum of the quantities w, counted copy by copy.                      *)
Copies(w) == UNION {{i} \X (1..w[i]) : i \in DOMAIN w}
Total(w) == Cardinality(Copies(w))

(* Ledger: what a variant has reserved is what the rows of the carts hold. *)
HeldBy(v) == Total([i \in Holding(items, v) |-> items[i].qty])
Ledger == \A v \in Variants : reserved[v] = HeldBy(v)

(* What a request goes by has changed since it read it.                    *)
Overtaken(r) ==
    \/ r.op \in {"update", "saving"} /\ items[r.item] # r.row
    \/ /\ r.op \in {"remove", "clear", "release", "releaseGuest", "checkout"}
       /\ \E i \in Live(r.rows) : items[i] # r.rows[i]
    \/ r.op = "merging" /\ r.rows # RowsOf(r.guest)
    \/ r.op = "purge" /\ r.rows # RowsOf(r.cart)
OvertakenWrite(ops) == \E p \in Procs : req[p].op \in ops /\ Overtaken(req[p]) /\ Write(p)

(* Covered: no row holds stock its variant's counter has given up, so no   *)
(* reservation is released twice; of handlers that run one by one.         *)
Covered == \A v \in Variants : reserved[v] >= HeldBy(v)

(* CoveredKept: among overlapping requests a reservation is released twice *)
(* only by one that releases rows it read and another has changed since;   *)
(* additions and checkouts never do, whatever overlaps with them.          *)
Releasing == {"update", "remove", "clear", "release", "releaseGuest", "purge", "merging"}
CoveredKept == [][Covered => Covered' \/ OvertakenWrite(Releasing)]_vars

(* BalanceKept: from a ledger in balance and with every physical row       *)
(* reserved, a handler that was not overtaken leaves the ledger in balance.*)
AllReserved == \A i \in Live(items) : items[i].variant \in Physical => items[i].isStockReserved
BalanceKept ==
    [][Ledger /\ AllReserved => Ledger' \/ OvertakenWrite(Releasing \cup {"saving", "checkout"})]_vars

(* One active cart per owner, although a cart is created after an unlocked *)
(* look-up found none.                                                     *)
OneActiveCart == \A o \in Owners : \A c, d \in ActiveCarts(o) : c = d

(* GuestCartBound: guest carts are limited to MAX_GUEST_CART_ITEMS; the    *)
(* limit is tested before the lock, and n overlapping additions that pass  *)
(* the test together exceed it by n - 1 at most.                           *)
GuestCartBound ==
    \A c \in CartIds : c[1] \in Sessions =>
        Cardinality(Live(RowsOf(c))) <= MaxGuestItems + Cardinality(Procs) - 1

(* A row of an inactive cart does not keep its stock for ever.             *)
HoldsExpired(i) ==
    items[i] # NoItem /\ items[i].isStockReserved /\ Expired(items[i].cart)
ExpiredIsReleased == \A i \in ItemIds : HoldsExpired(i) ~> ~HoldsExpired(i)

=============================================================================
