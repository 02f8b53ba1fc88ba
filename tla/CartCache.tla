------------------------------ MODULE CartCache ------------------------------
(***************************************************************************)
(* The answers of getCart and getGuestCart in Redis, beside the carts of   *)
(* CartReservation.  A reader that finds no entry reads the cart, builds   *)
(* the answer and stores it; the handlers of a customer delete the entry   *)
(* after their commit; checkout and the jobs do not.  An answer is the     *)
(* cart's id with the quantities of its rows.                              *)
(***************************************************************************)
EXTENDS CartReservation

CONSTANTS
    Readers,        \* reads of carts in flight at the same time
    NoEntry, NoRead

VARIABLES
    cache,          \* owner -> entry, or NoEntry
    reader,         \* Readers -> what a reader is to read, or has read and is to store
    owed,           \* owners whose change is committed and entry not deleted
    excused         \* history: owners whose entry may be out of date, see below

ASSUME CacheAssumption == NoEntry # NoRead

cacheVars == <<vars, cache, reader, owed, excused>>

(* buildCartResponse, buildGuestCartResponse.                              *)
Shown(c) == [cart |-> c, qty |-> [i \in ItemIds |-> IF RowsOf(c)[i] = NoItem THEN 0
                                                    ELSE RowsOf(c)[i].qty]]
Current(o) == {Shown(c) : c \in ActiveCarts(o)}

Views == [cart : CartIds, qty : [ItemIds -> Nat]]
CacheTypeOK ==
    /\ cache \in [Owners -> [view : Views, expires : BOOLEAN] \cup {NoEntry}]
    /\ reader \in [Readers -> [owner : Owners, view : Views \cup {NoEntry}] \cup {NoRead}]
    /\ owed \subseteq Owners /\ excused \subseteq Owners

CacheInit ==
    /\ Init
    /\ cache = [o \in Owners |-> NoEntry]
    /\ reader = [r \in Readers |-> NoRead]
    /\ owed = {} /\ excused = {}

(* The owners whose entries a request deletes once it has committed.       *)
(* MUTANT: a merge deletes the entry of the user only.                     *)
InvalidatesUserOnly(p) ==
    CASE req[p].op \in {"add", "guestAdd", "merging"} -> {req[p].owner}
      [] req[p].op \in {"update", "saving"} -> {req[p].row.cart[1]}
      [] req[p].op \in {"remove", "clear"} -> {req[p].rows[i].cart[1] : i \in Live(req[p].rows)}
      [] OTHER -> {}
Invalidates(p) ==
    CASE req[p].op \in {"add", "guestAdd"} -> {req[p].owner}
      [] req[p].op \in {"update", "saving"} -> {req[p].row.cart[1]}
      [] req[p].op \in {"remove", "clear"} -> {req[p].rows[i].cart[1] : i \in Live(req[p].rows)}
      [] req[p].op = "merging" -> {req[p].owner, req[p].session}
      [] OTHER -> {}

(* A handler commits.  What the handlers of other parts do to a cart, its  *)
(* checkout and its clean-up, is the first excuse for an old entry.        *)
Commit(p) ==
    /\ Write(p)
    /\ owed' = owed \cup Invalidates(p)
    /\ excused' = IF req[p].op \in {"checkout", "purge"}
                  THEN excused \cup {req[p].cart[1]} ELSE excused
    /\ UNCHANGED <<cache, reader>>

Elsewhere ==
    /\ \/ \E u \in Users : "getCart" \in Handlers /\ GetCart(u)
       \/ \E p \in Procs : Begin(p) \/ Lock(p) \/ Rollback(p)
       \/ \E c \in CartIds : "expire" \in Handlers /\ Expire(c)
    /\ UNCHANGED <<cache, reader, owed, excused>>

(* MUTANT: the entry is set to null instead of deleted.                    *)
DropToNull(o) ==
    /\ cache' = [cache EXCEPT ![o] = NoRead]
    /\ excused' = excused \ {o}
    /\ UNCHANGED <<vars, reader>>
Drop(o) ==
    /\ cache' = [cache EXCEPT ![o] = NoEntry]
    /\ excused' = excused \ {o}
    /\ UNCHANGED <<vars, reader>>

(* invalidateCartCache, invalidateGuestCartCache.                          *)
Invalidate(o) == o \in owed /\ owed' = owed \ {o} /\ Drop(o)

(* Redis fails after the commit: the second excuse.  The client is told    *)
(* that the change has failed.                                             *)
InvalidateFails(o) ==
    /\ o \in owed
    /\ owed' = owed \ {o} /\ excused' = excused \cup {o}
    /\ UNCHANGED <<vars, cache, reader>>

(* getCart, getGuestCart: there is no entry, so the cart is read from the  *)
(* database.  A guest without one is answered without an entry.            *)
LookUp(r, o) ==
    /\ reader[r] = NoRead /\ cache[o] = NoEntry
    /\ reader' = [reader EXCEPT ![r] = [owner |-> o, view |-> NoEntry]]
    /\ UNCHANGED <<vars, cache, owed, excused>>
Missing(r) == reader[r] # NoRead /\ reader[r].view = NoEntry
ReadCart(r) ==
    /\ Missing(r)
    /\ \/ \E v \in Current(reader[r].owner) : reader' = [reader EXCEPT ![r].view = v]
       \/ /\ Current(reader[r].owner) = {} /\ reader[r].owner \in Sessions
          /\ reader' = [reader EXCEPT ![r] = NoRead]
    /\ UNCHANGED <<vars, cache, owed, excused>>

(* MUTANT: the entry is stored without a time to live.                     *)
StoreForGood(r) ==
    /\ reader[r] # NoRead /\ ~Missing(r)
    /\ LET o == reader[r].owner v == reader[r].view
       IN /\ cache' = [cache EXCEPT ![o] = [view |-> v, expires |-> FALSE]]
          /\ excused' = IF v \in Current(o) THEN excused ELSE excused \cup {o}
    /\ reader' = [reader EXCEPT ![r] = NoRead]
    /\ UNCHANGED <<vars, owed>>
(* The answer is stored, whatever has changed since it was read: the third *)
(* excuse.                                                                 *)
Store(r) ==
    /\ reader[r] # NoRead /\ ~Missing(r)
    /\ LET o == reader[r].owner v == reader[r].view
       IN /\ cache' = [cache EXCEPT ![o] = [view |-> v, expires |-> TRUE]]
          /\ excused' = IF v \in Current(o) THEN excused ELSE excused \cup {o}
    /\ reader' = [reader EXCEPT ![r] = NoRead]
    /\ UNCHANGED <<vars, owed>>

(* CART_CACHE_TTL, GUEST_RESERVATION_TTL.                                  *)
Evict(o) ==
    /\ cache[o] # NoEntry /\ cache[o].expires
    /\ UNCHANGED owed /\ Drop(o)

CacheNext ==
    \/ \E p \in Procs : Commit(p)
    \/ Elsewhere
    \/ \E o \in Owners : Invalidate(o) \/ InvalidateFails(o) \/ Evict(o)
    \/ \E r \in Readers : ReadCart(r) \/ Store(r) \/ \E o \in Owners : LookUp(r, o)

CacheSpec == CacheInit /\ [][CacheNext]_cacheVars

(* Entries have a time to live.                                            *)
CacheFairness == \A o \in Owners : WF_cacheVars(Evict(o))
FairCacheSpec == CacheSpec /\ CacheFairness

-----------------------------------------------------------------------------
Stale(o) == cache[o] # NoEntry /\ cache[o].view \notin Current(o)

(* OldForAReason: an entry is out of date only on its way out, or by one   *)
(* of three causes: the cart was checked out or cleaned up, Redis failed,  *)
(* or a reader was overtaken by a change.  No handler of a customer        *)
(* forgets the entry of an owner whose cart it changes, a merge not that   *)
(* of the guest either.                                                    *)
OldForAReason == \A o \in Owners : Stale(o) => o \in owed \cup excused

(* StaleLeaves: an entry that is out of date does not stay so for ever,    *)
(* though checkout, webhook and jobs never delete one.                     *)
StaleLeaves == \A o \in Owners : Stale(o) ~> ~Stale(o)

=============================================================================
