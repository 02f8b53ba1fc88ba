--------------------------- MODULE CheckoutPayment ---------------------------
(***************************************************************************)
(* From the checkout to the settled order: the rest of CheckoutService,    *)
(* PaymentWebhookController, OrderTimeoutService and                       *)
(* PaymentReconciliationService, over the carts of CartReservation.        *)
(*                                                                         *)
(* A worker runs one of them: the tail of a checkout, one delivery of a    *)
(* webhook, or a job at one order.  The webhook is one transaction that    *)
(* works from an unlocked read: two steps.  The tail of the checkout and   *)
(* the jobs have no transaction: every save is a step of its own.  save()  *)
(* writes the columns of the entity that was read, whatever the row says   *)
(* by then: a task carries the columns that others may change.             *)
(***************************************************************************)
EXTENDS CartReservation

CONSTANTS
    Workers,    \* tails of checkouts, webhook deliveries and jobs in flight
    MaxOrders,  \* bound: orders ever created
    Providers,  \* of {"PHONEPE", "RAZORPAY"}
    Keys,       \* idempotency keys of the clients
    NoKey, NoOrder, NoTransaction

OrderIds == 1..MaxOrders

ASSUME OrderAssumption == MaxOrders \in Nat

VARIABLES
    orders,     \* orders with their order_items
    txns,       \* the transaction of each order
    gateway,    \* external: what has happened to each transaction at its provider
    key,        \* the Idempotency-Key of the checkout each process runs
    task        \* what each worker has read and does next

payVars == <<orders, txns, gateway, key, task>>
allVars == <<vars, payVars>>

PaymentStatus == {"PENDING", "PAID", "FAILED"}
TransactionStatus == {"PENDING", "SUCCESS", "FAILED"}
Order == [user : Users, quantity : [Variants -> Nat], payment_status : PaymentStatus]
Transaction == [status : TransactionStatus, provider : Providers,
                idempotency_key : Keys \cup {NoKey},
                gateway_ref_id : BOOLEAN, raw_response : BOOLEAN]   \* set or null
Task == [op : {"save", "initiate", "respond", "webhook", "failTransactions", "failOrder",
               "release", "ask", "settle", "settleOrder", "findCart", "settleCart"},
         order : OrderIds,
         payment : PaymentStatus,          \* order.payment_status as it was read
         status : TransactionStatus,       \* what the provider reports
         gateway_ref_id : BOOLEAN, raw_response : BOOLEAN,   \* as they were read
         cart : CartIds \cup {NoCart},      \* the cart that was found
         left : SUBSET Variants,           \* items not yet released
         key : Keys \cup {NoKey}]

ASSUME RecordAssumption == NoOrder \notin Order /\ NoTransaction \notin Transaction

PayTypeOK ==
    /\ TypeOK
    /\ orders \in [OrderIds -> Order \cup {NoOrder}]
    /\ txns \in [OrderIds -> Transaction \cup {NoTransaction}]
    /\ gateway \in [OrderIds -> SUBSET {"OPEN", "SUCCESS", "FAILED"}]
    /\ key \in [Procs -> Keys \cup {NoKey}]
    /\ task \in [Workers -> Task \cup {Idle}]

PayInit ==
    /\ Init
    /\ orders = [o \in OrderIds |-> NoOrder]
    /\ txns = [o \in OrderIds |-> NoTransaction]
    /\ gateway = [o \in OrderIds |-> {}]
    /\ key = [p \in Procs |-> NoKey]
    /\ task = [w \in Workers |-> Idle]

-----------------------------------------------------------------------------
Placed == {o \in OrderIds : orders[o] # NoOrder}
Opens == {o \in OrderIds : txns[o] # NoTransaction}
CheckoutCarts(u) == {c \in CartIds : c[1] = u /\ status[c] = "CHECKOUT"}
Ordered(o) == {v \in Variants : orders[o].quantity[v] > 0}
Unlocked(v) == \A q \in Procs : v \notin LockedVariants(q)

(* findOne({ where: { idempotency_key } })                                 *)
WithKey(k) == {o \in Opens : k # NoKey /\ txns[o].idempotency_key = k}
Answered(k) == \E o \in WithKey(k) : txns[o].raw_response

(* The request of a checkout is over long before the jobs look at its      *)
(* order: 5 and 15 minutes.                                                *)
InCheckout(o) ==
    \E w \in Workers : task[w].op \in {"save", "initiate", "respond"} /\ task[w].order = o

Doing(w, op) == task[w].op = op
NewTask(op, o) == [op |-> op, order |-> o, payment |-> "PENDING", status |-> "PENDING",
                   gateway_ref_id |-> FALSE, raw_response |-> FALSE, cart |-> NoCart,
                   left |-> {}, key |-> NoKey]
(* A task at an order whose transaction it has read.                       *)
EntityTask(op, o) ==
    [NewTask(op, o) EXCEPT !.gateway_ref_id = txns[o].gateway_ref_id,
                           !.raw_response = txns[o].raw_response]
Take(w, t) == task[w] = Idle /\ task' = [task EXCEPT ![w] = t]
Continue(w, op) == task' = [task EXCEPT ![w].op = op]
End(w) == task' = [task EXCEPT ![w] = Idle]
(* save(transaction)                                                       *)
SaveColumns(o, s, ref, raw) ==
    txns' = [txns EXCEPT ![o] = [@ EXCEPT !.status = s, !.gateway_ref_id = ref,
                                          !.raw_response = raw]]
SetPayment(o, s) == orders' = [orders EXCEPT ![o].payment_status = s]

-----------------------------------------------------------------------------
(* CheckoutService.checkout                                                *)

(* A key whose response is known is answered with it; a checkout with any  *)
(* other key, or without one, goes on to read and lock its cart.           *)
CheckoutLookup(p, k) ==
    /\ req[p] = Idle /\ key[p] = NoKey
    /\ ~Answered(k)
    /\ key' = [key EXCEPT ![p] = k]
    /\ UNCHANGED <<vars, orders, txns, gateway, task>>

CheckoutStart(p, u) == CheckoutBegin(p, u) /\ UNCHANGED payVars

CheckoutRollback(p) ==
    /\ key[p] # NoKey \/ req[p].op = "checkout"
    /\ key' = [key EXCEPT ![p] = NoKey]
    /\ Done(p) /\ ReadOnly
    /\ UNCHANGED <<orders, txns, gateway, task>>

(* The transaction of CartReservation creates the order as well.           *)
CheckoutOrder(p, w) ==
    LET rows == req[p].rows
        of(v) == {i \in Live(rows) : rows[i].variant = v}
        quantity == [v \in Variants |-> IF of(v) = {} THEN 0
                                        ELSE rows[CHOOSE i \in of(v) : TRUE].qty] IN
    /\ Checkout(p)
    /\ \E o \in OrderIds \ Placed :
        /\ \A n \in 1..(o - 1) : n \in Placed
        /\ orders' = [orders EXCEPT ![o] = [user |-> req[p].cart[1], quantity |-> quantity,
                                            payment_status |-> "PENDING"]]
        /\ Take(w, [NewTask("save", o) EXCEPT !.key = key[p]])
    /\ key' = [key EXCEPT ![p] = NoKey]
    /\ UNCHANGED <<txns, gateway>>

(* MUTANT: no unique index on idempotency_key.                             *)
SaveTransactionUnindexed(w) ==
    /\ Doing(w, "save")
    /\ \E provider \in Providers :
        txns' = [txns EXCEPT ![task[w].order] =
                    [status |-> "PENDING", provider |-> provider,
                     idempotency_key |-> task[w].key,
                     gateway_ref_id |-> FALSE, raw_response |-> FALSE]]
    /\ Continue(w, "initiate")
    /\ UNCHANGED <<vars, orders, gateway, key>>

(* A used key is refused by the unique index: the order stays without a    *)
(* transaction.                                                            *)
SaveTransaction(w) ==
    LET t == task[w] IN
    /\ Doing(w, "save")
    /\ IF WithKey(t.key) # {}
       THEN End(w) /\ UNCHANGED txns
       ELSE /\ \E provider \in Providers :
                txns' = [txns EXCEPT ![t.order] =
                            [status |-> "PENDING", provider |-> provider,
                             idempotency_key |-> t.key,
                             gateway_ref_id |-> FALSE, raw_response |-> FALSE]]
            /\ Continue(w, "initiate")
    /\ UNCHANGED <<vars, orders, gateway, key>>

InitiatePayment(w) ==
    /\ Doing(w, "initiate")
    /\ gateway' = [gateway EXCEPT ![task[w].order] = @ \cup {"OPEN"}]
    /\ Continue(w, "respond")
    /\ UNCHANGED <<vars, orders, txns, key>>

(* save(savedTransaction): gateway_ref_id and raw_response, and with them  *)
(* the status it was created with.                                         *)
SaveResponse(w) ==
    /\ Doing(w, "respond")
    /\ SaveColumns(task[w].order, "PENDING", TRUE, TRUE)
    /\ End(w)
    /\ UNCHANGED <<vars, orders, gateway, key>>

-----------------------------------------------------------------------------
(* The provider.  It may have the money, and tell, before its response is  *)
(* saved.  PhonePe settles a transaction once; a Razorpay order may be     *)
(* paid after a failed attempt.                                            *)
PaymentSucceeds(o) ==
    /\ "OPEN" \in gateway[o] /\ "SUCCESS" \notin gateway[o]
    /\ txns[o].provider = "PHONEPE" => "FAILED" \notin gateway[o]
    /\ gateway' = [gateway EXCEPT ![o] = @ \cup {"SUCCESS"}]
    /\ UNCHANGED <<vars, orders, txns, key, task>>

PaymentFails(o) ==
    /\ "OPEN" \in gateway[o] /\ gateway[o] \cap {"SUCCESS", "FAILED"} = {}
    /\ gateway' = [gateway EXCEPT ![o] = @ \cup {"FAILED"}]
    /\ UNCHANGED <<vars, orders, txns, key, task>>

-----------------------------------------------------------------------------
(* PaymentWebhookController.  What has happened may be delivered late,     *)
(* again, and in any order.  Razorpay's is found by the gateway_ref_id.    *)
WebhookBegin(w, o, s) ==
    /\ o \in Opens /\ s \in gateway[o] \ {"OPEN"}
    /\ txns[o].provider = "RAZORPAY" => txns[o].gateway_ref_id
    /\ txns[o].status # "SUCCESS"
    /\ Take(w, [EntityTask("webhook", o) EXCEPT !.payment = orders[o].payment_status, !.status = s])
    /\ UNCHANGED <<vars, orders, txns, gateway, key>>

(* MUTANT: stockQuantity is left alone, as before "permanent deduction".   *)
DeductReservedOnly(o) ==
    /\ reserved' = [v \in Variants |-> reserved[v] - orders[o].quantity[v]]
    /\ UNCHANGED stock
(* Permanent deduction, of digital variants too.                           *)
Deduct(o) ==
    /\ \A v \in Ordered(o) : Unlocked(v)
    /\ stock' = [v \in Variants |-> stock[v] - orders[o].quantity[v]]
    /\ reserved' = [v \in Variants |-> reserved[v] - orders[o].quantity[v]]
    /\ \A v \in Variants : stock'[v] >= -MaxDebt /\ reserved'[v] >= -MaxDebt

(* Any CHECKOUT cart of the user is the one findOne returns.               *)
MoveCart(u, s) ==
    IF CheckoutCarts(u) = {} THEN UNCHANGED <<status, fresh>>
    ELSE \E c \in CheckoutCarts(u) :
            /\ status' = [status EXCEPT ![c] = s]
            /\ fresh' = fresh \cup {c}

(* MUTANT: a payment that is delivered again is taken for a new one.       *)
WebhookSuccessAgain(w) ==
    LET t == task[w] IN
    /\ Doing(w, "webhook") /\ t.status = "SUCCESS"
    /\ SaveColumns(t.order, "SUCCESS", t.gateway_ref_id, TRUE)
    /\ SetPayment(t.order, "PAID")
    /\ Deduct(t.order)
    /\ MoveCart(orders[t.order].user, "COMPLETED")
    /\ End(w)
    /\ UNCHANGED <<items, issued, req, gateway, key>>

WebhookSuccess(w) ==
    LET t == task[w] IN
    /\ Doing(w, "webhook") /\ t.status = "SUCCESS"
    /\ SaveColumns(t.order, "SUCCESS", t.gateway_ref_id, TRUE)
    /\ IF t.payment = "PAID" THEN UNCHANGED <<orders, stock, reserved, status, fresh>>
       ELSE /\ SetPayment(t.order, "PAID")
            /\ Deduct(t.order)
            /\ MoveCart(orders[t.order].user, "COMPLETED")
    /\ End(w)
    /\ UNCHANGED <<items, issued, req, gateway, key>>

(* MUTANT: the cart becomes active beside another active one.              *)
WebhookFailedUnindexed(w) ==
    LET t == task[w] IN
    /\ Doing(w, "webhook") /\ t.status = "FAILED"
    /\ SaveColumns(t.order, "FAILED", t.gateway_ref_id, TRUE)
    /\ MoveCart(orders[t.order].user, "ACTIVE")
    /\ End(w)
    /\ UNCHANGED <<stock, reserved, items, issued, req, orders, gateway, key>>

(* The cart becomes active again, unless the user has a new active cart:   *)
(* then the unique index refuses it and the whole webhook is rolled back.  *)
WebhookFailed(w) ==
    LET t == task[w] u == orders[t.order].user IN
    /\ Doing(w, "webhook") /\ t.status = "FAILED"
    /\ CheckoutCarts(u) # {} => ActiveCarts(u) = {}
    /\ SaveColumns(t.order, "FAILED", t.gateway_ref_id, TRUE)
    /\ MoveCart(u, "ACTIVE")
    /\ End(w)
    /\ UNCHANGED <<stock, reserved, items, issued, req, orders, gateway, key>>

-----------------------------------------------------------------------------
(* OrderTimeoutService.cancelPendingOrders, at one order of its list.      *)

(* MUTANT: only orders with a PENDING transaction are cancelled.           *)
TimeoutBeginOpenOnly(w, o) ==
    /\ o \in Opens /\ orders[o].payment_status = "PENDING" /\ ~InCheckout(o)
    /\ txns[o].status = "PENDING"
    /\ Take(w, [EntityTask("failTransactions", o) EXCEPT !.left = Ordered(o)])
    /\ UNCHANGED <<vars, orders, txns, gateway, key>>

TimeoutBegin(w, o) ==
    /\ o \in Placed /\ orders[o].payment_status = "PENDING" /\ ~InCheckout(o)
    /\ Take(w, [IF o \in Opens /\ txns[o].status = "PENDING"
                THEN EntityTask("failTransactions", o) ELSE NewTask("failOrder", o)
                EXCEPT !.left = Ordered(o)])
    /\ UNCHANGED <<vars, orders, txns, gateway, key>>

FailTransactions(w) ==
    /\ Doing(w, "failTransactions")
    /\ SaveColumns(task[w].order, "FAILED", task[w].gateway_ref_id, task[w].raw_response)
    /\ Continue(w, "failOrder")
    /\ UNCHANGED <<vars, orders, gateway, key>>

FailOrder(w) ==
    /\ Doing(w, "failOrder")
    /\ SetPayment(task[w].order, "FAILED")
    /\ Continue(w, "release")
    /\ UNCHANGED <<vars, txns, gateway, key>>

ReleaseOrderItem(w, v) ==
    LET t == task[w] IN
    /\ Doing(w, "release")
    /\ v \in t.left /\ Unlocked(v)
    /\ reserved' = [reserved EXCEPT ![v] = @ - orders[t.order].quantity[v]]
    /\ reserved'[v] >= -MaxDebt
    /\ IF t.left = {v} THEN End(w) ELSE task' = [task EXCEPT ![w].left = @ \ {v}]
    /\ UNCHANGED <<stock, status, fresh, items, issued, req, orders, txns, gateway, key>>

-----------------------------------------------------------------------------
(* PaymentReconciliationService, at one transaction of its list.           *)
ReconcileBegin(w, o) ==
    /\ o \in Opens /\ txns[o].status = "PENDING" /\ txns[o].provider = "PHONEPE"
    /\ ~InCheckout(o)
    /\ Take(w, [EntityTask("ask", o) EXCEPT !.payment = orders[o].payment_status])
    /\ UNCHANGED <<vars, orders, txns, gateway, key>>

(* MUTANT: whatever has not failed counts as paid.                         *)
ReportedUnlessFailed(t) ==
    IF ~t.gateway_ref_id \/ "FAILED" \in gateway[t.order] THEN "FAILED" ELSE "SUCCESS"

(* MUTANT: the provider's own word for success.                            *)
ReportedCode(t) ==
    IF ~t.gateway_ref_id \/ "FAILED" \in gateway[t.order] THEN "FAILED"
    ELSE IF "SUCCESS" \in gateway[t.order] THEN "PAYMENT_SUCCESS" ELSE "PENDING"

(* Without a gateway_ref_id the order's id is sent, which PhonePe does not *)
(* know: success = false, reported as FAILED.                              *)
Reported(t) ==
    IF ~t.gateway_ref_id \/ "FAILED" \in gateway[t.order] THEN "FAILED"
    ELSE IF "SUCCESS" \in gateway[t.order] THEN "SUCCESS" ELSE "PENDING"

GetPaymentStatus(w) ==
    LET s == Reported(task[w]) IN
    /\ Doing(w, "ask")
    /\ IF s = "PENDING" THEN End(w)
       ELSE task' = [task EXCEPT ![w] = [@ EXCEPT !.op = "settle", !.status = s]]
    /\ UNCHANGED <<vars, orders, txns, gateway, key>>

(* MUTANT: a transaction that failed settles its order as well.            *)
SettleTransactionAnyStatus(w) ==
    LET t == task[w] IN
    /\ Doing(w, "settle")
    /\ SaveColumns(t.order, t.status, t.gateway_ref_id, TRUE)
    /\ IF t.payment # "PAID" THEN Continue(w, "settleOrder") ELSE End(w)
    /\ UNCHANGED <<vars, orders, gateway, key>>

SettleTransaction(w) ==
    LET t == task[w] IN
    /\ Doing(w, "settle")
    /\ SaveColumns(t.order, t.status, t.gateway_ref_id, TRUE)
    /\ IF t.status = "SUCCESS" /\ t.payment # "PAID" THEN Continue(w, "settleOrder") ELSE End(w)
    /\ UNCHANGED <<vars, orders, gateway, key>>

SettleOrder(w) ==
    /\ Doing(w, "settleOrder")
    /\ SetPayment(task[w].order, "PAID")
    /\ Continue(w, "findCart")
    /\ UNCHANGED <<vars, txns, gateway, key>>

FindCart(w) ==
    LET carts == CheckoutCarts(orders[task[w].order].user) IN
    /\ Doing(w, "findCart")
    /\ IF carts = {} THEN End(w)
       ELSE \E c \in carts :
                task' = [task EXCEPT ![w] = [@ EXCEPT !.op = "settleCart", !.cart = c]]
    /\ UNCHANGED <<vars, orders, txns, gateway, key>>

SettleCart(w) ==
    /\ Doing(w, "settleCart")
    /\ status' = [status EXCEPT ![task[w].cart] = "COMPLETED"]
    /\ fresh' = fresh \cup {task[w].cart}
    /\ End(w)
    /\ UNCHANGED <<stock, reserved, items, issued, req, orders, txns, gateway, key>>

-----------------------------------------------------------------------------
(* A failed call, a webhook that is rolled back, a crash of the process.   *)
Abort(w) ==
    /\ task[w] # Idle
    /\ End(w)
    /\ UNCHANGED <<vars, orders, txns, gateway, key>>

CartStep ==
    /\ \/ \E u \in Users : "getCart" \in Handlers /\ GetCart(u)
       \/ \E p \in Procs : key[p] = NoKey /\ Begin(p) /\ req'[p].op # "checkout"
       \/ \E p \in Procs : req[p].op # "checkout" /\ (Finish(p) \/ Rollback(p))
       \/ \E c \in CartIds : "expire" \in Handlers /\ Expire(c)
    /\ UNCHANGED payVars

CheckoutStep(w) ==
    \/ \E p \in Procs : CheckoutOrder(p, w)
    \/ SaveTransaction(w) \/ InitiatePayment(w) \/ SaveResponse(w)
WebhookStep(w) ==
    \/ \E o \in OrderIds, s \in {"SUCCESS", "FAILED"} : WebhookBegin(w, o, s)
    \/ WebhookSuccess(w) \/ WebhookFailed(w)
TimeoutStep(w) ==
    \/ \E o \in OrderIds : "timeout" \in Handlers /\ TimeoutBegin(w, o)
    \/ FailTransactions(w) \/ FailOrder(w)
    \/ \E v \in Variants : ReleaseOrderItem(w, v)
ReconcileStep(w) ==
    \/ \E o \in OrderIds : "reconcile" \in Handlers /\ ReconcileBegin(w, o)
    \/ GetPaymentStatus(w) \/ SettleTransaction(w) \/ SettleOrder(w)
    \/ FindCart(w) \/ SettleCart(w)

PayNext ==
    \/ CartStep
    \/ \E p \in Procs : \/ \E k \in Keys : CheckoutLookup(p, k)
                        \/ \E u \in Users : CheckoutStart(p, u)
                        \/ CheckoutRollback(p)
    \/ \E w \in Workers :
        CheckoutStep(w) \/ WebhookStep(w) \/ TimeoutStep(w) \/ ReconcileStep(w) \/ Abort(w)
    \/ \E o \in OrderIds : PaymentSucceeds(o) \/ PaymentFails(o)

PaySpec == PayInit /\ [][PayNext]_allVars

(* A worker goes on or gives up.  The timeout job runs every five minutes  *)
(* and reads every PENDING order again: it does not fail every time.       *)
Work(w) ==
    /\ task[w] # Idle
    /\ CheckoutStep(w) \/ WebhookStep(w) \/ TimeoutStep(w) \/ ReconcileStep(w) \/ Abort(w)
PayFairness ==
    /\ \A w \in Workers :
        WF_allVars(Work(w)) /\ SF_allVars(FailTransactions(w)) /\ SF_allVars(FailOrder(w))
    /\ \A o \in OrderIds :
        SF_allVars(\E w \in Workers : "timeout" \in Handlers /\ TimeoutBegin(w, o))
PayFairSpec == PaySpec /\ PayFairness

-----------------------------------------------------------------------------
(* No order is paid without money at the provider, whichever of webhook,   *)
(* timeout and reconciliation, late or repeated, moved it last.            *)
PaidHasMoney ==
    \A o \in Placed : orders[o].payment_status = "PAID" => "SUCCESS" \in gateway[o]

(* A cart is completed only for a user one of whose payments succeeded.    *)
CompletedHasMoney ==
    \A c \in CartIds : status[c] = "COMPLETED" =>
        \E o \in Placed : orders[o].user = c[1] /\ "SUCCESS" \in gateway[o]

(* An idempotency key buys one transaction, however checkouts that carry   *)
(* it overlap.                                                             *)
KeyUsedOnce == \A k \in Keys : \A o, n \in WithKey(k) : o = n

(* cart-api-guide.md:65: completion takes the order out of the stock: once *)
(* for every paid order, and for no other.                                 *)
Sold(v) ==
    Total([o \in {n \in Placed : orders[n].payment_status = "PAID"} |-> orders[o].quantity[v]])
StockIsSold == \A v \in Variants : stock[v] = InitialStock[v] - Sold(v)

(* Stock and sales move together.  They part only when reconciliation,     *)
(* which deducts nothing, pays an order, or when a webhook or the timeout  *)
(* works from an order that another has paid since it was read.            *)
OrderOvertaken(w) ==
    task[w] # Idle /\ task[w].payment # orders[task[w].order].payment_status
StockFollowsSales ==
    [][\/ \A v \in Variants : stock'[v] + Sold(v)' = stock[v] + Sold(v)
       \/ \E w \in Workers : \/ OrderOvertaken(w) /\ (WebhookSuccess(w) \/ FailOrder(w))
                             \/ SettleOrder(w)]_allVars

(* checkout.service.ts:109: nothing is sold that is not there.             *)
NotOversold == \A v \in Physical : stock[v] >= 0

(* Every order is paid or cancelled in the end, although a failed webhook, *)
(* a refused key or a failed initiation leave it PENDING.                  *)
Unsettled(o) == o \in Placed /\ orders[o].payment_status = "PENDING"
OrderSettles == \A o \in OrderIds : Unsettled(o) ~> ~Unsettled(o)

=============================================================================
