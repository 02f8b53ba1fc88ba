------------------------ MODULE CheckoutPayment_proofs ------------------------
(***************************************************************************)
(* Money before goods: type correctness, paid orders, completed carts,     *)
(* idempotency keys and the single active cart of CheckoutPayment, for any *)
(* users, variants, orders, and numbers of requests and workers; and which *)
(* steps alone can part the stock from the sales.                          *)
(***************************************************************************)
EXTENDS CheckoutPayment, CartLedger_proofs

USE DEF Idle

(* A task of a worker that is not idle is a task.                          *)
LEMMA BusyTask ==
    ASSUME PayTypeOK, NEW w \in Workers, task[w] # Idle
    PROVE  task[w] \in Task
  BY DEF PayTypeOK

(* The handlers below give a worker a task of its own.                     *)
LEMMA NewTaskType ==
    ASSUME NEW o \in OrderIds,
           NEW op \in {"save", "initiate", "respond", "webhook", "failTransactions",
                       "failOrder", "release", "ask", "settle", "settleOrder", "findCart"}
    PROVE  /\ NewTask(op, o) \in Task
           /\ NewTask(op, o).op = op /\ NewTask(op, o).order = o
           /\ NewTask(op, o).payment = "PENDING"
  BY DEF NewTask, Task, PaymentStatus, TransactionStatus

(* Taking, continuing and ending a task keep the type of the tasks.        *)
LEMMA TasksAreTasks ==
    ASSUME PayTypeOK, NEW w \in Workers
    PROVE  /\ \A t \in Task : Take(w, t) => task' \in [Workers -> Task \cup {Idle}]
           /\ End(w) => task' \in [Workers -> Task \cup {Idle}]
           /\ \A op \in {"save", "initiate", "respond", "webhook", "failTransactions", "failOrder",
                         "release", "ask", "settle", "settleOrder", "findCart"} :
                 task[w] # Idle /\ Continue(w, op) => task' \in [Workers -> Task \cup {Idle}]
<1>1. task \in [Workers -> Task \cup {Idle}]
  BY DEF PayTypeOK
<1>2. ASSUME NEW op \in {"save", "initiate", "respond", "webhook", "failTransactions", "failOrder",
                         "release", "ask", "settle", "settleOrder", "findCart"},
             task[w] # Idle
      PROVE  [task[w] EXCEPT !.op = op] \in Task
  BY <1>2, BusyTask DEF Task
<1> QED
  BY <1>1, <1>2 DEF Take, End, Continue

(* An order that is placed is an order, and an opened transaction one.     *)
LEMMA PlacedOrders ==
    ASSUME PayTypeOK
    PROVE  /\ \A o \in Placed : o \in OrderIds /\ orders[o] \in Order
           /\ \A o \in Opens : o \in OrderIds /\ txns[o] \in Transaction
  BY DEF PayTypeOK, Placed, Opens

(* A task at an opened transaction is one with that transaction's columns. *)
LEMMA EntityTaskType ==
    ASSUME PayTypeOK, NEW o \in Opens, NEW op \in {"webhook", "failTransactions", "ask"}
    PROVE  /\ EntityTask(op, o) \in Task
           /\ EntityTask(op, o).op = op /\ EntityTask(op, o).order = o
           /\ EntityTask(op, o).payment = "PENDING"
<1> DEFINE ref == txns[o].gateway_ref_id
           raw == txns[o].raw_response
           n == NewTask(op, o)
<1>1. o \in OrderIds /\ ref \in BOOLEAN /\ raw \in BOOLEAN
  BY PlacedOrders DEF Transaction
<1>2. n \in Task /\ n.op = op /\ n.order = o /\ n.payment = "PENDING"
  BY <1>1, NewTaskType
<1>3. EntityTask(op, o) = [n EXCEPT !.gateway_ref_id = ref, !.raw_response = raw]
  BY DEF EntityTask
<1> HIDE DEF ref, raw, n
<1> QED
  BY <1>1, <1>2, <1>3 DEF Task

-----------------------------------------------------------------------------
(* Why paid means paid: a worker that is about to mark an order paid or a  *)
(* cart completed has had the provider's word for it, and the word stands. *)
HasMoney(o) == "SUCCESS" \in gateway[o]
Claims(t) ==
    \/ t.op \in {"settleOrder", "findCart", "settleCart"}
    \/ t.op \in {"webhook", "settle"} /\ t.status = "SUCCESS"
NeedsTransaction == {"initiate", "respond", "webhook", "failTransactions", "ask", "settle"}
SureTask(t) ==
    \/ t = Idle
    \/ /\ t.order \in Placed
       /\ Claims(t) => HasMoney(t.order)
       /\ t.op \in NeedsTransaction => t.order \in Opens
       /\ t.op \in {"failTransactions", "failOrder"} => t.payment = "PENDING"
       /\ t.op = "settleCart" => t.cart \in CartIds /\ t.cart[1] = orders[t.order].user

OpensPlaced == Opens \subseteq Placed
TasksSure == \A w \in Workers : SureTask(task[w])
CheckoutsOfUsers == \A p \in Procs : req[p].op = "checkout" => req[p].cart[1] \in Users
MInv ==
    /\ PayTypeOK /\ OpensPlaced /\ TasksSure /\ CheckoutsOfUsers
    /\ PaidHasMoney /\ CompletedHasMoney

(* What a step does to orders, transactions and money.                     *)
GatewayGrows == \A o \in OrderIds : gateway[o] \subseteq gateway'[o]
OrdersStep ==
    \A o \in OrderIds :
        /\ o \in Placed => o \in Placed' /\ orders'[o].user = orders[o].user
        /\ o \in Placed' /\ orders'[o].payment_status = "PAID"
             => o \in Placed /\ (orders[o].payment_status = "PAID" \/ HasMoney(o))
OpensStep == Opens \subseteq Opens' /\ Opens' \subseteq Opens \cup Placed
CompletedStep ==
    \A c \in CartIds : status'[c] = "COMPLETED" =>
        status[c] = "COMPLETED" \/ \E o \in Placed : orders[o].user = c[1] /\ HasMoney(o)
TaskStep == \A w \in Workers : task'[w] = task[w] \/ SureTask(task[w])'
CheckoutStepsOfUsers ==
    \A p \in Procs : req'[p].op = "checkout" =>
        req'[p].cart[1] \in Users \/ (req[p].op = "checkout" /\ req'[p].cart = req[p].cart)
MoneyStep ==
    /\ GatewayGrows /\ OrdersStep /\ OpensStep
    /\ CompletedStep /\ TaskStep /\ CheckoutStepsOfUsers
Sound == PayTypeOK' /\ MoneyStep

(* The invariant follows from what every step does.                        *)
LEMMA SoundKeepsMInv == MInv /\ Sound => MInv'
<1> SUFFICES ASSUME MInv, PayTypeOK', MoneyStep PROVE MInv'
  BY DEF Sound
<1>1. \A o \in OrderIds : "SUCCESS" \in gateway[o] => "SUCCESS" \in gateway'[o]
  BY DEF MoneyStep, GatewayGrows
<1>2. \A o \in Placed : o \in OrderIds /\ o \in Placed' /\ orders'[o].user = orders[o].user
  BY DEF MoneyStep, OrdersStep, Placed
<1>3. OpensPlaced'
  BY <1>2 DEF MInv, MoneyStep, OpensStep, OpensPlaced
<1>4. TasksSure'
  <2> SUFFICES ASSUME NEW w \in Workers, task'[w] = task[w] PROVE SureTask(task[w])'
    BY DEF TasksSure, MoneyStep, TaskStep
  <2>1. SureTask(task[w])
    BY DEF MInv, TasksSure
  <2> QED
    BY <1>1, <1>2, <2>1 DEF SureTask, Claims, HasMoney, MoneyStep, OpensStep, Placed
<1>5. CheckoutsOfUsers'
  BY DEF MInv, MoneyStep, CheckoutStepsOfUsers, CheckoutsOfUsers
<1>6. PaidHasMoney'
  <2> SUFFICES ASSUME NEW o \in OrderIds, o \in Placed', orders'[o].payment_status = "PAID"
               PROVE  "SUCCESS" \in gateway'[o]
    BY DEF PaidHasMoney, Placed
  <2> QED
    BY <1>1 DEF MInv, MoneyStep, OrdersStep, PaidHasMoney, HasMoney
<1>7. CompletedHasMoney'
  <2> SUFFICES ASSUME NEW c \in CartIds, status'[c] = "COMPLETED"
               PROVE  \E o \in Placed' : orders'[o].user = c[1] /\ "SUCCESS" \in gateway'[o]
    BY DEF CompletedHasMoney
  <2>1. PICK o \in Placed : orders[o].user = c[1] /\ "SUCCESS" \in gateway[o]
    BY DEF MInv, MoneyStep, CompletedStep, CompletedHasMoney, HasMoney
  <2> QED
    BY <2>1, <1>1, <1>2
<1> QED
  BY <1>3, <1>4, <1>5, <1>6, <1>7 DEF MInv

-----------------------------------------------------------------------------
(* What the handlers of the carts do to them.                              *)

(* No handler of CartReservation completes a cart.                         *)
LEMMA NextCompletes ==
    ASSUME TypeOK, [Next]_vars
    PROVE  CompletedStep
<1>1. CASE UNCHANGED status
  BY <1>1 DEF CompletedStep
<1>2. ASSUME NEW c \in CartIds, Opened(c) PROVE CompletedStep
  BY <1>2 DEF CompletedStep, Opened, TypeOK
<1>3. ASSUME NEW p \in Procs, Finish(p) PROVE CompletedStep
  <2>1. req[p] \in Request
    BY DEF TypeOK
  <2>2. CASE AddToCart(p) \/ AddToGuestCart(p)
    <3>1. req[p].owner \in Owners /\ req[p].cart \in CartIds \cup {NoCart}
      BY <2>1, <2>2, RequestKind DEF AddToCart, AddToGuestCart, AddRequest
    <3> QED
      BY <2>2, <3>1, <1>2, CartsAreCarts DEF AddToCart, AddToGuestCart, ReserveIntoCart
  <2>3. CASE MergeCart(p)
    BY <2>3 DEF MergeCart, CompletedStep
  <2>4. CASE Checkout(p) \/ CleanupAbandonedGuestCart(p)
    <3>1. req[p].cart \in CartIds
      BY <2>1, <2>4, RequestKind DEF Checkout, CleanupAbandonedGuestCart, CartRequest
    <3> QED
      BY <2>4, <3>1 DEF Checkout, CleanupAbandonedGuestCart, CompletedStep, TypeOK
  <2> QED
    BY <1>1, <1>3, <2>2, <2>3, <2>4
       DEF Finish, Lock, Write, UpdateCartItem, SaveUnheldRow, RemoveFromCart, ClearCart, DropRows,
           FindUnheldRow, MergeCartLock, ReadOnly,
           ReleaseExpiredReservations, ReleaseExpiredGuestReservations
<1>4. CASE \E u \in Users : GetCart(u)
  BY <1>2, <1>4 DEF GetCart, NextCart
<1>5. ASSUME NEW p \in Procs, Begin(p) PROVE UNCHANGED status
  BY <1>5 DEF Begin, AddToCartBegin, AddToGuestCartBegin, UpdateCartItemBegin,
              RemoveFromCartBegin, ClearCartBegin, MergeCartBegin, CheckoutBegin,
              ReleaseBegin, ReleaseExpiredBegin, CleanupGuestCartBegin, ReadOnly
<1>6. ASSUME NEW p \in Procs, Rollback(p) PROVE UNCHANGED status
  BY <1>6 DEF Rollback, ReadOnly
<1>7. ASSUME NEW c \in CartIds, Expire(c) PROVE UNCHANGED status
  BY <1>7 DEF Expire
<1> QED
  BY <1>1, <1>3, <1>4, <1>5, <1>6, <1>7 DEF Next, vars

(* A request that starts is a checkout only of a user's cart.              *)
LEMMA StartOfUser ==
    ASSUME TypeOK, NEW p \in Procs, NEW r, Start(p, r), r.op = "checkout" => r.cart[1] \in Users
    PROVE  CheckoutStepsOfUsers
  BY DEF CheckoutStepsOfUsers, Start, TypeOK

(* Any other change of a request leaves no new checkout.                   *)
LEMMA NoNewCheckout ==
    ASSUME TypeOK, NEW p \in Procs, NEW r, r.op # "checkout", req' = [req EXCEPT ![p] = r]
    PROVE  CheckoutStepsOfUsers
  BY DEF CheckoutStepsOfUsers, TypeOK

(* Only a user checks out.                                                 *)
LEMMA CheckoutBeginOfUser ==
    ASSUME TypeOK, NEW p \in Procs, NEW u \in Users, CheckoutBegin(p, u)
    PROVE  CheckoutStepsOfUsers
  BY StartOfUser DEF CheckoutBegin, ActiveCarts

(* Every step of a cart handler lets only users check out.                 *)
LEMMA NextOfUsers ==
    ASSUME TypeOK, [Next]_vars
    PROVE  CheckoutStepsOfUsers
<1>1. CASE UNCHANGED req
  BY <1>1 DEF CheckoutStepsOfUsers
<1>2. ASSUME NEW p \in Procs, Begin(p) PROVE CheckoutStepsOfUsers
  <2>1. CASE \E u \in Users : CheckoutBegin(p, u)
    BY <2>1, CheckoutBeginOfUser
  <2>2. ASSUME NEW r, r.op # "checkout", Start(p, r) PROVE CheckoutStepsOfUsers
    BY <2>2, StartOfUser
  <2>3. CASE \/ \E u \in Users, v \in Variants, q \in Qty : AddToCartBegin(p, u, v, q)
             \/ \E s \in Sessions, v \in Variants, q \in Qty : AddToGuestCartBegin(p, s, v, q)
    BY <2>2, <2>3 DEF AddToCartBegin, AddToGuestCartBegin
  <2>4. CASE \E u \in Users, i \in ItemIds, q \in Qty : UpdateCartItemBegin(p, u, i, q)
    BY <2>2, <2>4 DEF UpdateCartItemBegin
  <2>5. CASE \/ \E u \in Users, i \in ItemIds : RemoveFromCartBegin(p, u, i)
             \/ \E u \in Users : ClearCartBegin(p, u)
    BY <2>2, <2>5 DEF RemoveFromCartBegin, ClearCartBegin
  <2>6. CASE \E u \in Users, s \in Sessions, lines \in [Variants -> 0..MaxQty] :
                MergeCartBegin(p, u, s, lines)
    BY <2>2, <2>6 DEF MergeCartBegin
  <2>7. CASE \/ \E i \in ItemIds : ReleaseBegin(p, i)
             \/ \E c \in CartIds : CleanupGuestCartBegin(p, c)
    BY <2>2, <2>7 DEF ReleaseBegin, ReleaseExpiredBegin, CleanupGuestCartBegin
  <2> QED
    BY <1>2, <2>1, <2>3, <2>4, <2>5, <2>6, <2>7 DEF Begin
<1>3. ASSUME NEW p \in Procs, Done(p) PROVE CheckoutStepsOfUsers
  BY <1>3, NoNewCheckout DEF Done
<1>4. ASSUME NEW p \in Procs, Lock(p) PROVE CheckoutStepsOfUsers
  BY <1>4, NoNewCheckout DEF Lock, MergeCartLock, FindUnheldRow
<1> QED
  BY <1>1, <1>2, <1>3, <1>4, WriteEnds DEF Next, vars, GetCart, Finish, Rollback, Expire

-----------------------------------------------------------------------------
(* The parts of a step.                                                    *)

(* A step that changes the task of one worker, to Idle or to one it may    *)
(* have after the step.                                                    *)
LEMMA OneTask ==
    ASSUME PayTypeOK, NEW w \in Workers, NEW t, task' = [task EXCEPT ![w] = t],
           \/ t = Idle
           \/ /\ t.order \in Placed'
              /\ Claims(t) => "SUCCESS" \in gateway'[t.order]
              /\ t.op \in NeedsTransaction => t.order \in Opens'
              /\ t.op \in {"failTransactions", "failOrder"} => t.payment = "PENDING"
              /\ t.op = "settleCart" => t.cart \in CartIds /\ t.cart[1] = orders'[t.order].user
    PROVE  TaskStep
<1>1. task'[w] = t /\ \A x \in Workers \ {w} : task'[x] = task[x]
  BY DEF PayTypeOK
<1>2. SureTask(task[w])'
  BY <1>1 DEF SureTask, Claims, HasMoney
<1> QED
  BY <1>1, <1>2 DEF TaskStep

(* Ending a task claims nothing.                                           *)
LEMMA EndStep ==
    ASSUME PayTypeOK, NEW w \in Workers, End(w)
    PROVE  task' \in [Workers -> Task \cup {Idle}] /\ TaskStep
  BY TasksAreTasks, OneTask DEF End

(* A task of a busy worker that continues under a name that claims no more *)
(* than before.                                                            *)
LEMMA ContinueStep ==
    ASSUME MInv, GatewayGrows, OrdersStep, OpensStep, NEW w \in Workers, task[w] # Idle,
           NEW op \in {"initiate", "respond", "failOrder", "release", "settleOrder", "findCart"},
           Continue(w, op),
           op \in {"settleOrder", "findCart"} => HasMoney(task[w].order),
           op \in {"initiate", "respond"} => task[w].order \in Opens',
           op = "failOrder" => task[w].payment = "PENDING"
    PROVE  task' \in [Workers -> Task \cup {Idle}] /\ TaskStep
<1> DEFINE t == [task[w] EXCEPT !.op = op]
<1>1. task[w] \in Task /\ task[w].order \in Placed
  BY BusyTask DEF MInv, TasksSure, SureTask
<1>2. t \in Task /\ t.order = task[w].order /\ t.op = op /\ t.payment = task[w].payment
  BY <1>1 DEF Task
<1>3. task[w].order \in OrderIds /\ task[w].order \in Placed'
  BY <1>1 DEF Placed, OrdersStep
<1>4. Claims(t) => "SUCCESS" \in gateway'[t.order]
  BY <1>2, <1>3 DEF Claims, HasMoney, GatewayGrows
<1>5. t.op \in NeedsTransaction => t.order \in Opens'
  BY <1>2 DEF NeedsTransaction
<1>6. task' = [task EXCEPT ![w] = t]
  BY DEF Continue, MInv, PayTypeOK
<1> HIDE DEF t
<1> QED
  BY <1>2, <1>3, <1>4, <1>5, <1>6, OneTask DEF MInv, PayTypeOK

(* Setting the payment_status of an order: to PAID only with the money.    *)
LEMMA SetPaymentStep ==
    ASSUME PayTypeOK, NEW o \in Placed, NEW s \in PaymentStatus, SetPayment(o, s),
           s = "PAID" => HasMoney(o)
    PROVE  orders' \in [OrderIds -> Order \cup {NoOrder}] /\ OrdersStep
<1>1. o \in OrderIds /\ orders[o] \in Order
  BY PlacedOrders
<1>2. [orders[o] EXCEPT !.payment_status = s] \in Order
  BY <1>1 DEF Order
<1>3. orders' = [orders EXCEPT ![o] = [orders[o] EXCEPT !.payment_status = s]]
  BY DEF SetPayment
<1> QED
  BY <1>1, <1>2, <1>3, RecordAssumption DEF PayTypeOK, OrdersStep, Placed, Order

(* Saving a transaction opens and closes none, and leaves it its key.      *)
LEMMA SaveColumnsStep ==
    ASSUME PayTypeOK, NEW o \in Opens, NEW s \in TransactionStatus,
           NEW ref \in BOOLEAN, NEW raw \in BOOLEAN, SaveColumns(o, s, ref, raw)
    PROVE  /\ txns' \in [OrderIds -> Transaction \cup {NoTransaction}] /\ OpensStep
           /\ \A n \in OrderIds \ {o} : txns'[n] = txns[n]
           /\ o \in Opens' /\ txns'[o].idempotency_key = txns[o].idempotency_key
<1> DEFINE t == [txns[o] EXCEPT !.status = s, !.gateway_ref_id = ref, !.raw_response = raw]
<1>1. o \in OrderIds /\ txns[o] \in Transaction
  BY PlacedOrders
<1>2. t \in Transaction /\ t.idempotency_key = txns[o].idempotency_key
  BY <1>1 DEF Transaction
<1>3. txns' = [txns EXCEPT ![o] = t]
  BY DEF SaveColumns
<1> HIDE DEF t
<1> QED
  BY <1>1, <1>2, <1>3, RecordAssumption DEF PayTypeOK, OpensStep, Opens

(* Moving a cart of the user of an order: to COMPLETED only with the money. *)
LEMMA MoveCartStep ==
    ASSUME PayTypeOK, NEW o \in Placed, NEW s \in {"ACTIVE", "COMPLETED"},
           MoveCart(orders[o].user, s), s = "COMPLETED" => HasMoney(o)
    PROVE  /\ status' \in [CartIds -> CartStatus] /\ fresh' \subseteq CartIds
           /\ CompletedStep
<1>1. status \in [CartIds -> CartStatus] /\ fresh \subseteq CartIds
  BY DEF PayTypeOK, TypeOK
<1>2. \A c \in CheckoutCarts(orders[o].user) : c \in CartIds /\ c[1] = orders[o].user
  BY DEF CheckoutCarts
<1> QED
  BY <1>1, <1>2 DEF MoveCart, CompletedStep, CartStatus

(* What a step leaves alone takes no part in it.                           *)
LEMMA UnchangedParts ==
    /\ UNCHANGED gateway => GatewayGrows
    /\ UNCHANGED orders => OrdersStep
    /\ UNCHANGED txns => OpensStep
    /\ UNCHANGED status => CompletedStep
    /\ UNCHANGED task => TaskStep
    /\ UNCHANGED req => CheckoutStepsOfUsers
  BY DEF GatewayGrows, OrdersStep, OpensStep, CompletedStep, TaskStep, CheckoutStepsOfUsers,
         Placed, Opens, HasMoney

-----------------------------------------------------------------------------
(* The steps, one lemma for each part of the system.                       *)

(* Carts that a step leaves alone keep their types.                        *)
LEMMA CartsUnchanged == PayTypeOK /\ UNCHANGED vars => TypeOK' /\ UNCHANGED <<status, req>>
  BY DEF PayTypeOK, TypeOK, vars

(* A request, a job or the passing of time at the carts.                   *)
LEMMA CartStepSound == MInv /\ CartStep => Sound
<1> SUFFICES ASSUME MInv, CartStep PROVE Sound
  OBVIOUS
<1>1. TypeOK /\ [Next]_vars /\ UNCHANGED payVars
  BY DEF MInv, PayTypeOK, CartStep, Next
<1>2. TypeOK' /\ CompletedStep /\ CheckoutStepsOfUsers
  BY <1>1, NextKeeps, NextCompletes, NextOfUsers DEF Kept
<1> QED
  BY <1>1, <1>2, UnchangedParts DEF payVars, MInv, PayTypeOK, Sound, MoneyStep

(* The look-up of the key of a checkout.                                   *)
LEMMA CheckoutLookupSound ==
    ASSUME MInv, NEW p \in Procs, NEW k \in Keys, CheckoutLookup(p, k)
    PROVE  Sound
<1>1. key' \in [Procs -> Keys \cup {NoKey}]
  BY DEF CheckoutLookup, MInv, PayTypeOK
<1> QED
  BY <1>1, CartsUnchanged, UnchangedParts DEF CheckoutLookup, MInv, PayTypeOK, Sound, MoneyStep

(* The first reads of a checkout.                                          *)
LEMMA CheckoutStartSound ==
    ASSUME MInv, NEW p \in Procs, NEW u \in Users, CheckoutStart(p, u)
    PROVE  Sound
<1>1. TypeOK /\ CheckoutBegin(p, u)
  BY DEF MInv, PayTypeOK, CheckoutStart
<1>2. \A c \in CartIds : [op |-> "checkout", cart |-> c, rows |-> RowsOf(c)] \in Request
  BY <1>1, QueriesReturnRows DEF Request, CartRequest
<1>3. TypeOK' /\ UNCHANGED status
  BY <1>1, <1>2, StartType DEF CheckoutBegin, ReadOnly, ActiveCarts
<1>4. CheckoutStepsOfUsers
  BY <1>1, CheckoutBeginOfUser
<1> QED
  BY <1>3, <1>4, UnchangedParts DEF CheckoutStart, payVars, MInv, PayTypeOK, Sound, MoneyStep

(* A checkout that is refused or fails.                                    *)
LEMMA CheckoutRollbackSound ==
    ASSUME MInv, NEW p \in Procs, CheckoutRollback(p)
    PROVE  Sound
<1>1. TypeOK /\ Done(p) /\ UNCHANGED <<stock, reserved, status, fresh, items, issued>>
  BY DEF MInv, PayTypeOK, CheckoutRollback, ReadOnly
<1>2. TypeOK'
  BY <1>1, DoneType DEF TypeOK
<1>3. CheckoutStepsOfUsers
  BY <1>1, NoNewCheckout DEF Done
<1>4. key' \in [Procs -> Keys \cup {NoKey}]
  BY DEF CheckoutRollback, MInv, PayTypeOK
<1> QED
  BY <1>1, <1>2, <1>3, <1>4, UnchangedParts
     DEF CheckoutRollback, MInv, PayTypeOK, Sound, MoneyStep

(* The transaction of the checkout, with its order.                        *)
LEMMA CheckoutOrderSound ==
    ASSUME MInv, NEW p \in Procs, NEW w \in Workers, CheckoutOrder(p, w)
    PROVE  Sound
<1> DEFINE rows == req[p].rows
           of(v) == {i \in Live(rows) : rows[i].variant = v}
           quantity == [v \in Variants |-> IF of(v) = {} THEN 0
                                           ELSE rows[CHOOSE i \in of(v) : TRUE].qty]
           order == [user |-> req[p].cart[1], quantity |-> quantity, payment_status |-> "PENDING"]
<1>1. TypeOK /\ Checkout(p) /\ req[p] \in Request /\ req[p].op = "checkout"
  BY DEF MInv, PayTypeOK, TypeOK, CheckoutOrder, Checkout
<1>2. TypeOK' /\ CompletedStep /\ CheckoutStepsOfUsers
  <2>1. [Next]_vars
    BY <1>1 DEF Next, Finish, Write
  <2> QED
    BY <1>1, <2>1, NextKeeps, NextCompletes, NextOfUsers DEF Kept
<1>3. order \in Order
  <2>1. rows \in Rows /\ req[p].cart[1] \in Users
    BY <1>1, RequestKind DEF MInv, CheckoutsOfUsers, CartRequest
  <2>2. ASSUME NEW v \in Variants, of(v) # {} PROVE rows[CHOOSE i \in of(v) : TRUE].qty \in Nat
    <3>1. (CHOOSE i \in of(v) : TRUE) \in of(v)
      BY <2>2
    <3>2. \A i \in of(v) : rows[i].qty \in Nat
      BY <2>1 DEF Live, Rows, Row
    <3> QED
      BY <3>1, <3>2
  <2>3. quantity \in [Variants -> Nat]
    <3> HIDE DEF of
    <3> QED
      BY <2>2
  <2> HIDE DEF quantity
  <2> QED
    BY <2>1, <2>3 DEF Order, PaymentStatus
<1>4. PICK o \in OrderIds \ Placed : /\ orders' = [orders EXCEPT ![o] = order]
                                     /\ Take(w, [NewTask("save", o) EXCEPT !.key = key[p]])
  BY DEF CheckoutOrder
<1>5. orders' \in [OrderIds -> Order \cup {NoOrder}] /\ OrdersStep /\ o \in Placed'
  <2>1. order.payment_status = "PENDING"
    OBVIOUS
  <2> HIDE DEF order
  <2> QED
    BY <1>3, <1>4, <2>1, RecordAssumption DEF MInv, PayTypeOK, OrdersStep, Placed
<1>6. task' \in [Workers -> Task \cup {Idle}] /\ TaskStep
  <2> DEFINE t == [NewTask("save", o) EXCEPT !.key = key[p]]
  <2>0. NewTask("save", o) \in Task /\ NewTask("save", o).op = "save" /\ NewTask("save", o).order = o
    BY NewTaskType
  <2>1. t \in Task /\ t.op = "save" /\ t.order = o
    <3> DEFINE n == NewTask("save", o)
    <3>1. key[p] \in Keys \cup {NoKey}
      BY DEF MInv, PayTypeOK
    <3> HIDE DEF n
    <3> QED
      BY <2>0, <3>1 DEF Task, n
  <2>2. task' = [task EXCEPT ![w] = t] /\ Take(w, t)
    BY <1>4 DEF Take
  <2> HIDE DEF t
  <2> QED
    BY <1>5, <2>1, <2>2, OneTask, TasksAreTasks DEF MInv, Claims, NeedsTransaction
<1>7. key' \in [Procs -> Keys \cup {NoKey}] /\ UNCHANGED <<txns, gateway>>
  BY DEF CheckoutOrder, MInv, PayTypeOK
<1> QED
  BY <1>2, <1>5, <1>6, <1>7, UnchangedParts DEF MInv, PayTypeOK, Sound, MoneyStep

(* A busy worker works at a placed order; from the initiation on the       *)
(* order has a transaction.                                                *)
LEMMA BusyOrder ==
    ASSUME MInv, NEW w \in Workers, task[w] # Idle
    PROVE  /\ task[w] \in Task /\ task[w].order \in OrderIds /\ task[w].order \in Placed
           /\ Claims(task[w]) => HasMoney(task[w].order)
           /\ task[w].op \in NeedsTransaction => task[w].order \in Opens
  BY BusyTask DEF MInv, TasksSure, SureTask, Placed

(* What a busy worker has read.                                            *)
LEMMA BusyColumns ==
    ASSUME MInv, NEW w \in Workers, task[w] # Idle
    PROVE  /\ task[w].gateway_ref_id \in BOOLEAN /\ task[w].raw_response \in BOOLEAN
           /\ task[w].status \in TransactionStatus
           /\ task[w].op \in {"failTransactions", "failOrder"} => task[w].payment = "PENDING"
           /\ task[w].op = "settleCart" =>
                task[w].cart \in CartIds /\ task[w].cart[1] = orders[task[w].order].user
<1>1. task[w] \in Task /\ SureTask(task[w])
  BY BusyTask DEF MInv, TasksSure
<1>2. task[w].gateway_ref_id \in BOOLEAN /\ task[w].raw_response \in BOOLEAN
  BY <1>1 DEF Task
<1>3. task[w].status \in TransactionStatus
  BY <1>1 DEF Task
<1> QED
  BY <1>1, <1>2, <1>3 DEF SureTask

(* The transaction record of a new order, or no record for a used key.     *)
LEMMA SaveTransactionSound ==
    ASSUME MInv, NEW w \in Workers, SaveTransaction(w)
    PROVE  Sound
<1> DEFINE o == task[w].order
<1>1. task[w] # Idle
  BY DEF SaveTransaction, Doing
<1>2. task[w] \in Task /\ o \in OrderIds /\ o \in Placed
  BY <1>1, BusyOrder
<1>3. /\ TypeOK' /\ UNCHANGED <<status, req, orders, gateway, key>>
      /\ GatewayGrows /\ OrdersStep
  BY CartsUnchanged, UnchangedParts DEF SaveTransaction, MInv
<1>4. CASE UNCHANGED txns /\ End(w)
  BY <1>3, <1>4, EndStep, UnchangedParts DEF MInv, PayTypeOK, Sound, MoneyStep
<1>5. CASE ~(UNCHANGED txns /\ End(w))
  <2>1. PICK provider \in Providers :
           txns' = [txns EXCEPT ![o] = [status |-> "PENDING", provider |-> provider,
                                        idempotency_key |-> task[w].key,
                                        gateway_ref_id |-> FALSE, raw_response |-> FALSE]]
    BY <1>5 DEF SaveTransaction
  <2>2. [status |-> "PENDING", provider |-> provider, idempotency_key |-> task[w].key,
         gateway_ref_id |-> FALSE, raw_response |-> FALSE] \in Transaction
    BY <1>2 DEF Task, Transaction, TransactionStatus
  <2>3. txns' \in [OrderIds -> Transaction \cup {NoTransaction}] /\ OpensStep /\ o \in Opens'
    BY <1>2, <2>1, <2>2, RecordAssumption DEF MInv, PayTypeOK, OpensStep, Opens
  <2>4. Continue(w, "initiate")
    BY <1>5 DEF SaveTransaction
  <2>5. task' \in [Workers -> Task \cup {Idle}] /\ TaskStep
    BY <1>1, <1>3, <2>3, <2>4, ContinueStep
  <2> QED
    BY <1>3, <2>3, <2>5, UnchangedParts DEF MInv, PayTypeOK, Sound, MoneyStep
<1> QED
  BY <1>4, <1>5

(* The provider opens the payment; the response is saved.                  *)
LEMMA InitiationSound ==
    ASSUME MInv, NEW w \in Workers, InitiatePayment(w) \/ SaveResponse(w)
    PROVE  Sound
<1> DEFINE o == task[w].order
<1>1. task[w] # Idle /\ task[w].op \in NeedsTransaction
  <2>1. task[w].op \in {"initiate", "respond"}
    BY DEF InitiatePayment, SaveResponse, Doing
  <2> QED
    BY <2>1 DEF NeedsTransaction
<1>2. task[w] \in Task /\ o \in OrderIds /\ o \in Opens
  BY <1>1, BusyOrder
<1>3. TypeOK' /\ UNCHANGED <<status, req, orders, key>> /\ OrdersStep
  BY CartsUnchanged, UnchangedParts DEF InitiatePayment, SaveResponse, MInv
<1>4. CASE InitiatePayment(w)
  <2>1. gateway' \in [OrderIds -> SUBSET {"OPEN", "SUCCESS", "FAILED"}] /\ GatewayGrows
    BY <1>2, <1>4 DEF InitiatePayment, MInv, PayTypeOK, GatewayGrows
  <2>2. UNCHANGED txns /\ OpensStep /\ o \in Opens'
    BY <1>2, <1>4, UnchangedParts DEF InitiatePayment, Opens
  <2>3. task' \in [Workers -> Task \cup {Idle}] /\ TaskStep
    BY <1>1, <1>3, <1>4, <2>1, <2>2, ContinueStep DEF InitiatePayment
  <2> QED
    BY <1>3, <2>1, <2>2, <2>3, UnchangedParts DEF MInv, PayTypeOK, Sound, MoneyStep
<1>5. CASE SaveResponse(w)
  <2>1. SaveColumns(o, "PENDING", TRUE, TRUE)
    BY <1>5 DEF SaveResponse
  <2>3. txns' \in [OrderIds -> Transaction \cup {NoTransaction}] /\ OpensStep
    BY <1>2, <2>1, SaveColumnsStep DEF MInv, TransactionStatus
  <2>4. task' \in [Workers -> Task \cup {Idle}] /\ TaskStep
    BY <1>5, EndStep DEF SaveResponse, MInv
  <2> QED
    BY <1>3, <1>5, <2>3, <2>4, UnchangedParts
       DEF SaveResponse, MInv, PayTypeOK, Sound, MoneyStep
<1> QED
  BY <1>4, <1>5

(* What happens at the provider is never taken back.                       *)
LEMMA ProviderSound ==
    ASSUME MInv, NEW o \in OrderIds, PaymentSucceeds(o) \/ PaymentFails(o)
    PROVE  Sound
<1>1. TypeOK' /\ UNCHANGED <<status, req, orders, txns, key, task>>
  BY CartsUnchanged DEF PaymentSucceeds, PaymentFails, MInv
<1>2. gateway' \in [OrderIds -> SUBSET {"OPEN", "SUCCESS", "FAILED"}] /\ GatewayGrows
  BY DEF PaymentSucceeds, PaymentFails, MInv, PayTypeOK, GatewayGrows
<1> QED
  BY <1>1, <1>2, UnchangedParts DEF MInv, PayTypeOK, Sound, MoneyStep

-----------------------------------------------------------------------------
(* A webhook carries what has happened at the provider.                    *)
LEMMA WebhookBeginSound ==
    ASSUME MInv, NEW w \in Workers, NEW o \in OrderIds, NEW s \in {"SUCCESS", "FAILED"},
           WebhookBegin(w, o, s)
    PROVE  Sound
<1> DEFINE n == EntityTask("webhook", o)
           t == [n EXCEPT !.payment = orders[o].payment_status, !.status = s]
<1>1. /\ o \in Opens /\ o \in Placed /\ s \in gateway[o] /\ Take(w, t)
      /\ UNCHANGED <<vars, orders, txns, gateway, key>>
  BY DEF WebhookBegin, MInv, OpensPlaced
<1>2. t \in Task /\ t.order = o /\ t.status = s /\ t.op = "webhook"
  <2>1. orders[o].payment_status \in PaymentStatus
    BY <1>1, PlacedOrders DEF MInv, Order
  <2>2. n \in Task /\ n.order = o /\ n.op = "webhook"
    BY <1>1, EntityTaskType DEF MInv
  <2> HIDE DEF n
  <2> QED
    BY <2>1, <2>2 DEF Task, TransactionStatus
<1> HIDE DEF n
<1>3. task' \in [Workers -> Task \cup {Idle}] /\ TaskStep
  <2>1. o \in Opens' /\ o \in Placed' /\ (Claims(t) => "SUCCESS" \in gateway'[o])
    BY <1>1, <1>2 DEF Opens, Placed, Claims
  <2>2. task' = [task EXCEPT ![w] = t]
    BY <1>1 DEF Take
  <2> HIDE DEF t
  <2> QED
    BY <1>1, <1>2, <2>1, <2>2, OneTask, TasksAreTasks DEF MInv
<1> QED
  BY <1>1, <1>3, CartsUnchanged, UnchangedParts DEF MInv, PayTypeOK, Sound, MoneyStep

(* Taking an order out of the stock leaves the counters integers.          *)
LEMMA DeductType ==
    ASSUME PayTypeOK, NEW o \in Placed, Deduct(o)
    PROVE  stock' \in [Variants -> Int] /\ reserved' \in [Variants -> Int]
<1>1. orders[o].quantity \in [Variants -> Nat]
  BY PlacedOrders DEF Order
<1> QED
  BY <1>1 DEF Deduct, PayTypeOK, TypeOK

(* A webhook of a payment that succeeded.                                  *)
LEMMA WebhookSuccessSound ==
    ASSUME MInv, NEW w \in Workers, WebhookSuccess(w)
    PROVE  Sound
<1> DEFINE o == task[w].order
<1>1. task[w] # Idle
  BY DEF WebhookSuccess, Doing
<1>2. /\ o \in Opens /\ o \in Placed /\ HasMoney(o)
      /\ task[w].gateway_ref_id \in BOOLEAN
  BY <1>1, BusyOrder, BusyColumns DEF WebhookSuccess, Doing, NeedsTransaction, Claims
<1>3. txns' \in [OrderIds -> Transaction \cup {NoTransaction}] /\ OpensStep
  BY <1>2, SaveColumnsStep DEF WebhookSuccess, MInv, TransactionStatus
<1>4. task' \in [Workers -> Task \cup {Idle}] /\ TaskStep
  BY EndStep DEF WebhookSuccess, MInv
<1>5. /\ orders' \in [OrderIds -> Order \cup {NoOrder}] /\ OrdersStep
      /\ stock' \in [Variants -> Int] /\ reserved' \in [Variants -> Int]
      /\ status' \in [CartIds -> CartStatus] /\ fresh' \subseteq CartIds
      /\ CompletedStep
  <2>1. CASE task[w].payment = "PAID"
    BY <2>1, UnchangedParts DEF WebhookSuccess, MInv, PayTypeOK, TypeOK
  <2>2. CASE task[w].payment # "PAID"
    BY <1>2, <2>2, SetPaymentStep, DeductType, MoveCartStep
       DEF WebhookSuccess, MInv, PaymentStatus
  <2> QED
    BY <2>1, <2>2
<1> QED
  BY <1>3, <1>4, <1>5, UnchangedParts
     DEF WebhookSuccess, MInv, PayTypeOK, TypeOK, Sound, MoneyStep

(* A webhook of a payment that failed.                                     *)
LEMMA WebhookFailedSound ==
    ASSUME MInv, NEW w \in Workers, WebhookFailed(w)
    PROVE  Sound
<1> DEFINE o == task[w].order
<1>1. task[w] # Idle
  BY DEF WebhookFailed, Doing
<1>2. o \in Opens /\ o \in Placed /\ task[w].gateway_ref_id \in BOOLEAN
  BY <1>1, BusyOrder, BusyColumns DEF WebhookFailed, Doing, NeedsTransaction
<1>3. txns' \in [OrderIds -> Transaction \cup {NoTransaction}] /\ OpensStep
  BY <1>2, SaveColumnsStep DEF WebhookFailed, MInv, TransactionStatus
<1>4. task' \in [Workers -> Task \cup {Idle}] /\ TaskStep
  BY EndStep DEF WebhookFailed, MInv
<1>5. /\ status' \in [CartIds -> CartStatus] /\ fresh' \subseteq CartIds
      /\ CompletedStep
  BY <1>2, MoveCartStep DEF WebhookFailed, MInv
<1> QED
  BY <1>3, <1>4, <1>5, UnchangedParts
     DEF WebhookFailed, MInv, PayTypeOK, TypeOK, Sound, MoneyStep

-----------------------------------------------------------------------------
(* The timeout job takes up a placed order, without a claim.               *)
LEMMA TimeoutBeginSound ==
    ASSUME MInv, NEW w \in Workers, NEW o \in OrderIds, TimeoutBegin(w, o)
    PROVE  Sound
<1> DEFINE op == IF o \in Opens /\ txns[o].status = "PENDING"
                 THEN "failTransactions" ELSE "failOrder"
           n == IF o \in Opens /\ txns[o].status = "PENDING"
                THEN EntityTask("failTransactions", o) ELSE NewTask("failOrder", o)
           t == [n EXCEPT !.left = Ordered(o)]
<1>1. o \in Placed /\ Take(w, t) /\ UNCHANGED <<vars, orders, txns, gateway, key>>
  BY DEF TimeoutBegin
<1>2. op \in {"failTransactions", "failOrder"} /\ (op = "failTransactions" => o \in Opens)
  OBVIOUS
<1>3. t \in Task /\ t.order = o /\ t.op = op /\ t.payment = "PENDING"
  <2>1. n \in Task /\ n.order = o /\ n.op = op /\ n.payment = "PENDING"
    BY NewTaskType, EntityTaskType DEF MInv
  <2>2. Ordered(o) \in SUBSET Variants
    BY DEF Ordered
  <2> HIDE DEF n, op
  <2> QED
    BY <2>1, <2>2 DEF Task
<1> HIDE DEF op, n
<1>4. task' \in [Workers -> Task \cup {Idle}] /\ TaskStep
  <2>1. o \in Placed' /\ (o \in Opens => o \in Opens') /\ ~Claims(t)
    BY <1>1, <1>2, <1>3 DEF Opens, Placed, Claims
  <2>2. task' = [task EXCEPT ![w] = t]
    BY <1>1 DEF Take
  <2> HIDE DEF t
  <2> QED
    BY <1>1, <1>2, <1>3, <2>1, <2>2, OneTask, TasksAreTasks DEF MInv, NeedsTransaction
<1> QED
  BY <1>1, <1>4, CartsUnchanged, UnchangedParts DEF MInv, PayTypeOK, Sound, MoneyStep

(* The timeout job gives an order up.                                      *)
LEMMA TimeoutFailsSound ==
    ASSUME MInv, NEW w \in Workers, FailTransactions(w) \/ FailOrder(w)
    PROVE  Sound
<1> DEFINE o == task[w].order
<1>1. task[w] # Idle
  BY DEF FailTransactions, FailOrder, Doing
<1>2. /\ o \in Placed /\ (task[w].op = "failTransactions" => o \in Opens)
      /\ task[w].gateway_ref_id \in BOOLEAN /\ task[w].raw_response \in BOOLEAN
      /\ task[w].op = "failTransactions" => task[w].payment = "PENDING"
  BY <1>1, BusyOrder, BusyColumns DEF NeedsTransaction
<1>3. TypeOK' /\ UNCHANGED <<status, req, gateway, key>> /\ GatewayGrows
  BY CartsUnchanged, UnchangedParts DEF FailTransactions, FailOrder, MInv
<1>4. /\ txns' \in [OrderIds -> Transaction \cup {NoTransaction}] /\ OpensStep
      /\ orders' \in [OrderIds -> Order \cup {NoOrder}] /\ OrdersStep
  <2>1. CASE FailTransactions(w)
    BY <1>2, <2>1, SaveColumnsStep, UnchangedParts
       DEF FailTransactions, Doing, MInv, PayTypeOK, TransactionStatus
  <2>2. CASE FailOrder(w)
    BY <1>2, <2>2, SetPaymentStep, UnchangedParts DEF FailOrder, MInv, PayTypeOK, PaymentStatus
  <2> QED
    BY <2>1, <2>2
<1>5. task' \in [Workers -> Task \cup {Idle}] /\ TaskStep
  BY <1>1, <1>2, <1>3, <1>4, ContinueStep DEF FailTransactions, FailOrder, Doing
<1> QED
  BY <1>3, <1>4, <1>5, UnchangedParts DEF MInv, PayTypeOK, Sound, MoneyStep

(* The timeout job releases an item of an order.                           *)
LEMMA ReleaseOrderItemSound ==
    ASSUME MInv, NEW w \in Workers, NEW v \in Variants, ReleaseOrderItem(w, v)
    PROVE  Sound
<1> DEFINE t == [task[w] EXCEPT !.left = @ \ {v}]
<1>1. task[w] # Idle
  BY DEF ReleaseOrderItem, Doing
<1>2. task[w] \in Task /\ task[w].order \in Placed /\ task[w].op = "release"
  BY <1>1, BusyOrder DEF ReleaseOrderItem, Doing
<1>3. reserved' \in [Variants -> Int]
  <2>1. orders[task[w].order].quantity \in [Variants -> Nat]
    BY <1>2, PlacedOrders DEF MInv, Order
  <2> QED
    BY <2>1 DEF ReleaseOrderItem, MInv, PayTypeOK, TypeOK
<1>4. task' \in [Workers -> Task \cup {Idle}] /\ TaskStep
  <2>1. CASE End(w)
    BY <2>1, EndStep DEF MInv
  <2>2. CASE ~End(w)
    <3>1. t \in Task /\ t.order = task[w].order /\ t.op = "release"
      BY <1>2 DEF Task
    <3>2. task' = [task EXCEPT ![w] = t]
      BY <2>2 DEF ReleaseOrderItem
    <3>3. t.order \in Placed' /\ ~Claims(t) /\ t.op \notin NeedsTransaction
      BY <1>2, <3>1 DEF ReleaseOrderItem, Placed, Claims, NeedsTransaction
    <3> HIDE DEF t
    <3> QED
      BY <3>1, <3>2, <3>3, OneTask DEF MInv, PayTypeOK
  <2> QED
    BY <2>1, <2>2
<1> QED
  BY <1>3, <1>4, UnchangedParts DEF ReleaseOrderItem, MInv, PayTypeOK, TypeOK, Sound, MoneyStep

-----------------------------------------------------------------------------
(* The reconciliation job takes up a transaction, without a claim.         *)
LEMMA ReconcileBeginSound ==
    ASSUME MInv, NEW w \in Workers, NEW o \in OrderIds, ReconcileBegin(w, o)
    PROVE  Sound
<1> DEFINE n == EntityTask("ask", o)
           t == [n EXCEPT !.payment = orders[o].payment_status]
<1>1. /\ o \in Opens /\ o \in Placed /\ Take(w, t)
      /\ UNCHANGED <<vars, orders, txns, gateway, key>>
  BY DEF ReconcileBegin, MInv, OpensPlaced
<1>2. t \in Task /\ t.order = o /\ t.op = "ask"
  <2>1. orders[o].payment_status \in PaymentStatus
    BY <1>1, PlacedOrders DEF MInv, Order
  <2>2. n \in Task /\ n.order = o /\ n.op = "ask"
    BY <1>1, EntityTaskType DEF MInv
  <2> HIDE DEF n
  <2> QED
    BY <2>1, <2>2 DEF Task
<1> HIDE DEF n
<1>3. task' \in [Workers -> Task \cup {Idle}] /\ TaskStep
  <2>1. o \in Opens' /\ o \in Placed' /\ ~Claims(t)
    BY <1>1, <1>2 DEF Opens, Placed, Claims
  <2>2. task' = [task EXCEPT ![w] = t]
    BY <1>1 DEF Take
  <2> HIDE DEF t
  <2> QED
    BY <1>1, <1>2, <2>1, <2>2, OneTask, TasksAreTasks DEF MInv
<1> QED
  BY <1>1, <1>3, CartsUnchanged, UnchangedParts DEF MInv, PayTypeOK, Sound, MoneyStep

(* What the provider reports as a success is one.                          *)
LEMMA GetPaymentStatusSound ==
    ASSUME MInv, NEW w \in Workers, GetPaymentStatus(w)
    PROVE  Sound
<1> DEFINE o == task[w].order
           s == Reported(task[w])
           t == [task[w] EXCEPT !.op = "settle", !.status = s]
<1>1. task[w] # Idle
  BY DEF GetPaymentStatus, Doing
<1>2. task[w] \in Task /\ o \in OrderIds /\ o \in Placed /\ o \in Opens
  BY <1>1, BusyOrder DEF GetPaymentStatus, Doing, NeedsTransaction
<1>3. UNCHANGED <<vars, orders, txns, gateway, key>>
  BY DEF GetPaymentStatus
<1>4. s \in TransactionStatus /\ (s = "SUCCESS" => "SUCCESS" \in gateway[o])
  BY DEF Reported, TransactionStatus
<1>5. task' \in [Workers -> Task \cup {Idle}] /\ TaskStep
  <2>1. CASE End(w)
    BY <2>1, EndStep DEF MInv
  <2>2. CASE ~End(w)
    <3>1. task' = [task EXCEPT ![w] = t]
      BY <2>2 DEF GetPaymentStatus
    <3> HIDE DEF s
    <3>2. t \in Task /\ t.order = o /\ t.status = s /\ t.op = "settle"
      BY <1>2, <1>4 DEF Task
    <3>3. o \in Opens' /\ o \in Placed' /\ (Claims(t) => "SUCCESS" \in gateway'[o])
      BY <1>2, <1>3, <1>4, <3>2 DEF Opens, Placed, Claims
    <3> HIDE DEF t
    <3> QED
      BY <3>1, <3>2, <3>3, OneTask DEF MInv, PayTypeOK
  <2> QED
    BY <2>1, <2>2
<1> QED
  BY <1>3, <1>5, CartsUnchanged, UnchangedParts DEF MInv, PayTypeOK, Sound, MoneyStep

(* The reconciliation saves the transaction; a success goes on to its order. *)
LEMMA SettleTransactionSound ==
    ASSUME MInv, NEW w \in Workers, SettleTransaction(w)
    PROVE  Sound
<1> DEFINE o == task[w].order
<1>1. task[w] # Idle
  BY DEF SettleTransaction, Doing
<1>2. /\ o \in Opens /\ task[w].status \in TransactionStatus
      /\ task[w].gateway_ref_id \in BOOLEAN
      /\ task[w].status = "SUCCESS" => HasMoney(o)
  BY <1>1, BusyOrder, BusyColumns DEF SettleTransaction, Doing, NeedsTransaction, Claims
<1>3. /\ TypeOK' /\ UNCHANGED <<status, req, orders, gateway, key>>
      /\ GatewayGrows /\ OrdersStep
  BY CartsUnchanged, UnchangedParts DEF SettleTransaction, MInv
<1>4. txns' \in [OrderIds -> Transaction \cup {NoTransaction}] /\ OpensStep
  BY <1>2, SaveColumnsStep DEF SettleTransaction, MInv
<1>5. task' \in [Workers -> Task \cup {Idle}] /\ TaskStep
  <2>1. CASE End(w)
    BY <2>1, EndStep DEF MInv
  <2>2. CASE ~End(w)
    BY <1>1, <1>2, <1>3, <1>4, <2>2, ContinueStep DEF SettleTransaction
  <2> QED
    BY <2>1, <2>2
<1> QED
  BY <1>3, <1>4, <1>5, UnchangedParts DEF MInv, PayTypeOK, Sound, MoneyStep

(* The reconciliation marks the order paid.                                *)
LEMMA SettleOrderSound ==
    ASSUME MInv, NEW w \in Workers, SettleOrder(w)
    PROVE  Sound
<1> DEFINE o == task[w].order
<1>1. task[w] # Idle
  BY DEF SettleOrder, Doing
<1>2. o \in Placed /\ HasMoney(o)
  BY <1>1, BusyOrder DEF SettleOrder, Doing, Claims
<1>3. TypeOK' /\ UNCHANGED <<status, req, txns, gateway, key>> /\ GatewayGrows /\ OpensStep
  BY CartsUnchanged, UnchangedParts DEF SettleOrder, MInv
<1>4. orders' \in [OrderIds -> Order \cup {NoOrder}] /\ OrdersStep
  BY <1>2, SetPaymentStep DEF SettleOrder, MInv, PaymentStatus
<1>5. task' \in [Workers -> Task \cup {Idle}] /\ TaskStep
  BY <1>1, <1>2, <1>3, <1>4, ContinueStep DEF SettleOrder
<1> QED
  BY <1>3, <1>4, <1>5, UnchangedParts DEF MInv, PayTypeOK, Sound, MoneyStep

(* The reconciliation finds a cart of the user of its order.               *)
LEMMA FindCartSound ==
    ASSUME MInv, NEW w \in Workers, FindCart(w)
    PROVE  Sound
<1> DEFINE o == task[w].order
<1>1. task[w] # Idle /\ Claims(task[w])
  <2>1. task[w].op = "findCart"
    BY DEF FindCart, Doing
  <2> QED
    BY <2>1 DEF Claims
<1>2. task[w] \in Task /\ o \in OrderIds /\ o \in Placed /\ HasMoney(o)
  BY <1>1, BusyOrder
<1>3. UNCHANGED <<vars, orders, txns, gateway, key>>
  BY DEF FindCart
<1>4. task' \in [Workers -> Task \cup {Idle}] /\ TaskStep
  <2>1. CASE End(w)
    BY <2>1, EndStep DEF MInv
  <2>2. CASE ~End(w)
    <3>1. PICK c \in CheckoutCarts(orders[o].user) :
             task' = [task EXCEPT ![w] = [task[w] EXCEPT !.op = "settleCart", !.cart = c]]
      BY <2>2 DEF FindCart
    <3> DEFINE t == [task[w] EXCEPT !.op = "settleCart", !.cart = c]
    <3>2. c \in CartIds /\ c[1] = orders[o].user
      BY DEF CheckoutCarts
    <3>3. t \in Task /\ t.order = o /\ t.op = "settleCart" /\ t.cart = c
      BY <1>2, <3>2 DEF Task
    <3>4. o \in Placed' /\ "SUCCESS" \in gateway'[o] /\ orders'[o].user = orders[o].user
      BY <1>2, <1>3 DEF Placed, HasMoney
    <3>5. task' = [task EXCEPT ![w] = t]
      BY <3>1
    <3> HIDE DEF t
    <3> QED
      BY <3>2, <3>3, <3>4, <3>5, OneTask DEF MInv, PayTypeOK, NeedsTransaction
  <2> QED
    BY <2>1, <2>2
<1> QED
  BY <1>3, <1>4, CartsUnchanged, UnchangedParts DEF MInv, PayTypeOK, Sound, MoneyStep

(* The reconciliation completes the cart it found.                         *)
LEMMA SettleCartSound ==
    ASSUME MInv, NEW w \in Workers, SettleCart(w)
    PROVE  Sound
<1> DEFINE o == task[w].order
           c == task[w].cart
<1>1. task[w] # Idle
  BY DEF SettleCart, Doing
<1>2. o \in Placed /\ HasMoney(o) /\ c \in CartIds /\ c[1] = orders[o].user
  BY <1>1, BusyOrder, BusyColumns DEF SettleCart, Doing, Claims
<1>3. status' \in [CartIds -> CartStatus] /\ fresh' \subseteq CartIds /\ CompletedStep
  BY <1>2 DEF SettleCart, MInv, PayTypeOK, TypeOK, CompletedStep, CartStatus
<1>4. task' \in [Workers -> Task \cup {Idle}] /\ TaskStep
  BY EndStep DEF SettleCart, MInv
<1> QED
  BY <1>3, <1>4, UnchangedParts DEF SettleCart, MInv, PayTypeOK, TypeOK, Sound, MoneyStep

(* A worker may end anywhere.                                              *)
LEMMA AbortSound ==
    ASSUME MInv, NEW w \in Workers, Abort(w)
    PROVE  Sound
<1>1. task' \in [Workers -> Task \cup {Idle}] /\ TaskStep
  BY EndStep DEF Abort, MInv
<1> QED
  BY <1>1, CartsUnchanged, UnchangedParts DEF Abort, MInv, PayTypeOK, Sound, MoneyStep

(* Every step keeps the invariant.                                         *)
LEMMA PayNextSound == MInv /\ [PayNext]_allVars => Sound
<1> SUFFICES ASSUME MInv, [PayNext]_allVars PROVE Sound
  OBVIOUS
<1>1. CASE CartStep
  BY <1>1, CartStepSound
<1>2. ASSUME NEW p \in Procs,
             \/ \E k \in Keys : CheckoutLookup(p, k)
             \/ \E u \in Users : CheckoutStart(p, u)
             \/ CheckoutRollback(p)
      PROVE  Sound
  BY <1>2, CheckoutLookupSound, CheckoutStartSound, CheckoutRollbackSound
<1>3. ASSUME NEW w \in Workers, CheckoutStep(w) PROVE Sound
  BY <1>3, CheckoutOrderSound, SaveTransactionSound, InitiationSound DEF CheckoutStep
<1>4. ASSUME NEW w \in Workers, WebhookStep(w) PROVE Sound
  BY <1>4, WebhookBeginSound, WebhookSuccessSound, WebhookFailedSound DEF WebhookStep
<1>5. ASSUME NEW w \in Workers, TimeoutStep(w) PROVE Sound
  BY <1>5, TimeoutBeginSound, TimeoutFailsSound, ReleaseOrderItemSound DEF TimeoutStep
<1>6. ASSUME NEW w \in Workers, ReconcileStep(w) PROVE Sound
  BY <1>6, ReconcileBeginSound, GetPaymentStatusSound, SettleTransactionSound, SettleOrderSound,
     FindCartSound, SettleCartSound DEF ReconcileStep
<1>7. ASSUME NEW w \in Workers, Abort(w) PROVE Sound
  BY <1>7, AbortSound
<1>8. CASE \E o \in OrderIds : PaymentSucceeds(o) \/ PaymentFails(o)
  BY <1>8, ProviderSound
<1>9. CASE UNCHANGED allVars
  BY <1>9, CartsUnchanged, UnchangedParts DEF allVars, payVars, MInv, PayTypeOK, Sound, MoneyStep
<1> QED
  BY <1>1, <1>2, <1>3, <1>4, <1>5, <1>6, <1>7, <1>8, <1>9 DEF PayNext

(* At the start nothing is ordered.                                        *)
LEMMA PayInitMInv == PayInit => MInv
<1> SUFFICES ASSUME PayInit PROVE MInv
  OBVIOUS
<1>1. PayTypeOK
  BY InitType DEF PayInit, PayTypeOK
<1>2. Placed = {} /\ Opens = {}
  BY DEF PayInit, Placed, Opens
<1> QED
  BY <1>1, <1>2 DEF PayInit, Init, MInv, OpensPlaced, TasksSure, SureTask, CheckoutsOfUsers,
                    PaidHasMoney, CompletedHasMoney

(* The invariant holds in every state of every run.                        *)
LEMMA MoneyInvariant == PaySpec => []MInv
<1>1. MInv /\ [PayNext]_allVars => MInv'
  BY PayNextSound, SoundKeepsMInv
<1> QED
  BY <1>1, PayInitMInv, PTL DEF PaySpec

(* Orders, transactions, tasks and carts are well typed in every state.    *)
THEOREM PayTyping == PaySpec => []PayTypeOK
<1>1. MInv => PayTypeOK
  BY DEF MInv
<1> QED
  BY <1>1, MoneyInvariant, PTL

(* No run marks an order paid without money at the provider, however       *)
(* webhooks, timeouts, reconciliations and failed calls overlap: the word  *)
(* of the provider is carried by the worker that marks the order, and is   *)
(* never taken back.                                                       *)
THEOREM PaidOrdersHaveMoney == PaySpec => []PaidHasMoney
<1>1. MInv => PaidHasMoney
  BY DEF MInv
<1> QED
  BY <1>1, MoneyInvariant, PTL

(* No cart is completed unless a payment of its user succeeded: webhook    *)
(* and reconciliation complete whichever CHECKOUT cart of the user they    *)
(* find, and only after a success.                                         *)
THEOREM CompletedCartsHaveMoney == PaySpec => []CompletedHasMoney
<1>1. MInv => CompletedHasMoney
  BY DEF MInv
<1> QED
  BY <1>1, MoneyInvariant, PTL

-----------------------------------------------------------------------------
(* The single active cart, with the webhook that makes a cart active again. *)

(* No step inserts or revives a cart beside an active one.                 *)
LEMMA PayNextStatus ==
    ASSUME MInv, SeenCartsExist, [PayNext]_allVars
    PROVE  StatusStep /\ SeenStep
<1> TypeOK /\ status \in [CartIds -> CartStatus]
  BY DEF MInv, PayTypeOK, TypeOK
<1>1. ASSUME [Next]_vars PROVE StatusStep /\ SeenStep
  BY <1>1, NextStatus, NextSees
<1>2. ASSUME UNCHANGED req PROVE SeenStep
  BY <1>2 DEF SeenStep
<1>3. ASSUME UNCHANGED <<status, req>> PROVE StatusStep /\ SeenStep
  BY <1>2, <1>3 DEF StatusStep
<1>4. CASE CartStep
  BY <1>1, <1>4 DEF CartStep, Next
<1>5. ASSUME NEW p \in Procs, NEW u \in Users, CheckoutStart(p, u)
      PROVE  StatusStep /\ SeenStep
  <2>1. UNCHANGED status
    BY <1>5 DEF CheckoutStart, CheckoutBegin, ReadOnly
  <2>2. SeenStep
    BY <1>5, StartSees DEF CheckoutStart, CheckoutBegin, Seeing
  <2> QED
    BY <2>1, <2>2 DEF StatusStep
<1>6. ASSUME NEW w \in Workers, CheckoutStep(w) PROVE StatusStep /\ SeenStep
  <2>1. CASE \E p \in Procs : CheckoutOrder(p, w)
    BY <1>1, <2>1 DEF CheckoutOrder, Finish, Write, Next
  <2>2. CASE SaveTransaction(w) \/ InitiatePayment(w) \/ SaveResponse(w)
    BY <1>3, <2>2 DEF SaveTransaction, InitiatePayment, SaveResponse, vars
  <2> QED
    BY <1>6, <2>1, <2>2 DEF CheckoutStep
<1>7. ASSUME NEW u, MoveCart(u, "COMPLETED") PROVE StatusStep
  BY <1>7 DEF MoveCart, CheckoutCarts, StatusStep
<1>8. ASSUME NEW u, MoveCart(u, "ACTIVE"), CheckoutCarts(u) # {} => ActiveCarts(u) = {}
      PROVE  StatusStep
  BY <1>8 DEF MoveCart, CheckoutCarts, ActiveCarts, StatusStep
<1>9. ASSUME NEW w \in Workers, WebhookStep(w) PROVE StatusStep /\ SeenStep
  <2>1. CASE \E o \in OrderIds, s \in {"SUCCESS", "FAILED"} : WebhookBegin(w, o, s)
    BY <1>3, <2>1 DEF WebhookBegin, vars
  <2>2. CASE WebhookSuccess(w)
    BY <1>2, <1>3, <1>7, <2>2 DEF WebhookSuccess
  <2>3. CASE WebhookFailed(w)
    BY <1>2, <1>8, <2>3 DEF WebhookFailed
  <2> QED
    BY <1>9, <2>1, <2>2, <2>3 DEF WebhookStep
<1>10. ASSUME NEW w \in Workers, TimeoutStep(w) PROVE UNCHANGED <<status, req>>
  BY <1>10 DEF TimeoutStep, TimeoutBegin, FailTransactions, FailOrder, ReleaseOrderItem, vars
<1>11. ASSUME NEW w \in Workers, ReconcileStep(w) PROVE StatusStep /\ SeenStep
  <2>1. CASE SettleCart(w)
    BY <1>2, <2>1 DEF SettleCart, StatusStep
  <2>2. CASE ~SettleCart(w)
    BY <1>3, <1>11, <2>2
       DEF ReconcileStep, ReconcileBegin, GetPaymentStatus, SettleTransaction, SettleOrder,
           FindCart, vars
  <2> QED
    BY <2>1, <2>2
<1>12. CASE \/ \E w \in Workers : Abort(w)
            \/ \E o \in OrderIds : PaymentSucceeds(o) \/ PaymentFails(o)
            \/ UNCHANGED allVars
  BY <1>3, <1>12 DEF Abort, PaymentSucceeds, PaymentFails, allVars, vars
<1>13. ASSUME NEW p \in Procs, NEW k \in Keys, CheckoutLookup(p, k) PROVE StatusStep /\ SeenStep
  BY <1>3, <1>13 DEF CheckoutLookup, vars
<1>14. ASSUME NEW p \in Procs, CheckoutRollback(p) PROVE StatusStep /\ SeenStep
  <2>1. UNCHANGED status /\ Done(p)
    BY <1>14 DEF CheckoutRollback, ReadOnly
  <2> QED
    BY <2>1, DoneSees DEF StatusStep
<1> QED
  BY <1>3, <1>4, <1>5, <1>6, <1>9, <1>10, <1>11, <1>12, <1>13, <1>14 DEF PayNext

(* No owner ever has two active carts, although a failed payment makes the *)
(* cart of its checkout active again while the user may have a new one.    *)
THEOREM FailedPaymentsKeepOneActiveCart == PaySpec => []OneActiveCart
<1>1. PayInit => CInv
  BY InitType DEF PayInit, Init, CInv, SeenCartsExist, OneActiveCart, ActiveCarts
<1>2. CInv /\ MInv /\ MInv' /\ [PayNext]_allVars => CInv'
  BY PayNextStatus, StatusStepKeepsCInv DEF CInv, MInv, PayTypeOK
<1>3. CInv => OneActiveCart
  BY DEF CInv
<1> QED
  BY <1>1, <1>2, <1>3, MoneyInvariant, PTL DEF PaySpec

-----------------------------------------------------------------------------
(* Idempotency keys.                                                       *)

(* A step leaves every transaction its key, or opens one under a key that  *)
(* no transaction has.                                                     *)
KeyStep ==
    \E o \in OrderIds :
        /\ \A n \in OrderIds \ {o} : txns'[n] = txns[n]
        /\ \/ txns'[o] = txns[o]
           \/ o \in Opens /\ o \in Opens' /\ txns'[o].idempotency_key = txns[o].idempotency_key
           \/ WithKey(txns'[o].idempotency_key) = {}

(* A transaction that is saved again keeps its key.                        *)
LEMMA SavedAgainKeyStep ==
    ASSUME MInv, NEW o \in Opens, NEW s \in TransactionStatus,
           NEW ref \in BOOLEAN, NEW raw \in BOOLEAN, SaveColumns(o, s, ref, raw)
    PROVE  KeyStep
  BY SaveColumnsStep DEF MInv, KeyStep, Opens

(* A step keeps every key to one transaction.                              *)
LEMMA KeyStepKeeps == KeyUsedOnce /\ (UNCHANGED txns \/ KeyStep) => KeyUsedOnce'
<1> SUFFICES ASSUME KeyUsedOnce, KeyStep PROVE KeyUsedOnce'
  BY DEF KeyUsedOnce, WithKey, Opens
<1>1. PICK o \in OrderIds :
        /\ \A n \in OrderIds \ {o} : txns'[n] = txns[n]
        /\ \/ txns'[o] = txns[o]
           \/ o \in Opens /\ o \in Opens' /\ txns'[o].idempotency_key = txns[o].idempotency_key
           \/ WithKey(txns'[o].idempotency_key) = {}
  BY DEF KeyStep
<1> QED
  BY <1>1 DEF KeyUsedOnce, WithKey, Opens

(* Every step is one.                                                      *)
LEMMA PayNextKeys ==
    ASSUME MInv, [PayNext]_allVars
    PROVE  UNCHANGED txns \/ KeyStep
<1>1. ASSUME NEW w \in Workers, SaveTransaction(w) PROVE UNCHANGED txns \/ KeyStep
  <2>1. task[w] \in Task /\ task[w].order \in OrderIds
    BY <1>1, BusyOrder DEF SaveTransaction, Doing
  <2> DEFINE o == task[w].order
  <2>2. CASE WithKey(task[w].key) # {}
    BY <1>1, <2>2 DEF SaveTransaction
  <2>3. CASE WithKey(task[w].key) = {}
    <3>1. PICK provider \in Providers :
             txns' = [txns EXCEPT ![o] = [status |-> "PENDING", provider |-> provider,
                                          idempotency_key |-> task[w].key,
                                          gateway_ref_id |-> FALSE, raw_response |-> FALSE]]
      BY <1>1, <2>3 DEF SaveTransaction
    <3>2. txns'[o].idempotency_key = task[w].key /\ \A n \in OrderIds \ {o} : txns'[n] = txns[n]
      BY <2>1, <3>1 DEF MInv, PayTypeOK
    <3> QED
      BY <2>1, <2>3, <3>2 DEF KeyStep
  <2> QED
    BY <2>2, <2>3
<1>2. ASSUME NEW w \in Workers, SaveResponse(w) PROVE KeyStep
  <2>1. task[w].order \in Opens
    BY <1>2, BusyOrder DEF SaveResponse, Doing, NeedsTransaction
  <2> QED
    BY <1>2, <2>1, SavedAgainKeyStep DEF SaveResponse, TransactionStatus
<1>3. ASSUME NEW w \in Workers,
             WebhookSuccess(w) \/ WebhookFailed(w) \/ FailTransactions(w) \/ SettleTransaction(w)
      PROVE  KeyStep
  <2>1. task[w] # Idle /\ task[w].op \in NeedsTransaction
    <3>1. task[w].op \in {"webhook", "failTransactions", "settle"}
      BY <1>3 DEF WebhookSuccess, WebhookFailed, FailTransactions, SettleTransaction, Doing
    <3> QED
      BY <3>1 DEF NeedsTransaction
  <2>2. /\ task[w].order \in Opens /\ task[w].status \in TransactionStatus
        /\ task[w].gateway_ref_id \in BOOLEAN /\ task[w].raw_response \in BOOLEAN
    BY <2>1, BusyOrder, BusyColumns
  <2> QED
    BY <1>3, <2>2, SavedAgainKeyStep
       DEF WebhookSuccess, WebhookFailed, FailTransactions, SettleTransaction, TransactionStatus
<1>4. CASE CartStep \/ UNCHANGED allVars
  BY <1>4 DEF CartStep, payVars, allVars
<1>5. ASSUME NEW p \in Procs,
             \/ \E k \in Keys : CheckoutLookup(p, k)
             \/ \E u \in Users : CheckoutStart(p, u)
             \/ CheckoutRollback(p)
      PROVE  UNCHANGED txns
  BY <1>5 DEF CheckoutLookup, CheckoutStart, CheckoutRollback, payVars
<1>6. ASSUME NEW w \in Workers, CheckoutStep(w) PROVE UNCHANGED txns \/ KeyStep
  BY <1>1, <1>2, <1>6 DEF CheckoutStep, CheckoutOrder, InitiatePayment
<1>7. ASSUME NEW w \in Workers, WebhookStep(w) PROVE UNCHANGED txns \/ KeyStep
  BY <1>3, <1>7 DEF WebhookStep, WebhookBegin
<1>8. ASSUME NEW w \in Workers, TimeoutStep(w) PROVE UNCHANGED txns \/ KeyStep
  BY <1>3, <1>8 DEF TimeoutStep, TimeoutBegin, FailOrder, ReleaseOrderItem
<1>9. ASSUME NEW w \in Workers, ReconcileStep(w) PROVE UNCHANGED txns \/ KeyStep
  BY <1>3, <1>9 DEF ReconcileStep, ReconcileBegin, GetPaymentStatus, SettleOrder, FindCart,
                    SettleCart
<1>10. CASE \/ \E w \in Workers : Abort(w)
            \/ \E o \in OrderIds : PaymentSucceeds(o) \/ PaymentFails(o)
  BY <1>10 DEF Abort, PaymentSucceeds, PaymentFails
<1> QED
  BY <1>4, <1>5, <1>6, <1>7, <1>8, <1>9, <1>10 DEF PayNext

(* An idempotency key never has two transactions, however many checkouts   *)
(* carry it at once: the look-up at the start does not see the others, the *)
(* unique index at the save does.                                          *)
THEOREM KeysBuyOneTransaction == PaySpec => []KeyUsedOnce
<1>1. PayInit => KeyUsedOnce
  BY DEF PayInit, KeyUsedOnce, WithKey, Opens
<1>2. KeyUsedOnce /\ MInv /\ [PayNext]_allVars => KeyUsedOnce'
  BY PayNextKeys, KeyStepKeeps
<1> QED
  BY <1>1, <1>2, MoneyInvariant, PTL DEF PaySpec

-----------------------------------------------------------------------------
(* The stock and the paid orders.                                          *)

(* What each order has taken of a variant: nothing before it is paid.      *)
Taken(os, v) ==
    [o \in OrderIds |-> IF os[o] # NoOrder /\ os[o].payment_status = "PAID"
                        THEN os[o].quantity[v] ELSE 0]

(* Stock leaves with the orders that become paid, and with no other.       *)
StockStep ==
    \A v \in Variants :
        stock'[v] + Total(Taken(orders', v)) = stock[v] + Total(Taken(orders, v))

(* What is sold is what the orders have taken.                             *)
LEMMA SoldIsTaken == \A v : Sold(v) = Total(Taken(orders, v)) /\ Sold(v)' = Total(Taken(orders', v))
<1>1. ASSUME NEW os, NEW v
      PROVE  Total([o \in {n \in {m \in OrderIds : os[m] # NoOrder} : os[n].payment_status = "PAID"}
                       |-> os[o].quantity[v]]) = Total(Taken(os, v))
  <2> DEFINE E == {n \in {m \in OrderIds : os[m] # NoOrder} : os[n].payment_status = "PAID"}
             sold == [o \in E |-> os[o].quantity[v]]
             all == Taken(os, v)
  <2>1. E \in SUBSET OrderIds /\ \A o \in OrderIds \ E : all[o] = 0
    BY DEF Taken
  <2>2. \A o \in E : all[o] = sold[o]
    BY DEF Taken
  <2>3. sold = [o \in E |-> sold[o]] /\ all = [o \in OrderIds |-> all[o]]
    BY DEF Taken
  <2> HIDE DEF E, sold, all
  <2>4. Total(sold) = Total(all)
    BY <2>1, <2>2, <2>3, TotalOfPart
  <2> QED
    BY <2>4 DEF E, sold, all
<1> QED
  BY <1>1 DEF Sold, Placed

(* There are finitely many orders, and each has taken a number of copies.  *)
LEMMA TakenType ==
    ASSUME NEW os \in [OrderIds -> Order \cup {NoOrder}], NEW v \in Variants
    PROVE  /\ IsFiniteSet(OrderIds) /\ Taken(os, v) \in [OrderIds -> Nat]
           /\ Total(Taken(os, v)) \in Nat
<1>1. IsFiniteSet(OrderIds)
  <2>1. 1 \in Int /\ MaxOrders \in Int
    BY OrderAssumption
  <2> QED
    BY <2>1, FS_Interval DEF OrderIds
<1>2. Taken(os, v) \in [OrderIds -> Nat]
  BY DEF Taken, Order
<1> QED
  BY <1>1, <1>2, TotalIsNat

(* A step that writes neither stock nor orders.                            *)
LEMMA NothingSold ==
    ASSUME UNCHANGED <<stock, orders>>
    PROVE  StockStep
  BY DEF StockStep

(* An order that was not paid, before or after, has taken nothing.         *)
LEMMA UnpaidTakesNothing ==
    ASSUME MInv, NEW o \in OrderIds, UNCHANGED stock,
           \A n \in OrderIds \ {o} : orders'[n] = orders[n],
           orders[o] # NoOrder => orders[o].payment_status # "PAID",
           orders'[o] # NoOrder => orders'[o].payment_status # "PAID"
    PROVE  StockStep
<1>1. \A v \in Variants : Taken(orders', v) = Taken(orders, v)
  BY DEF Taken
<1> QED
  BY <1>1 DEF StockStep

(* The transaction of a checkout: its order is new, and PENDING.           *)
LEMMA CheckoutOrderSells ==
    ASSUME MInv, NEW p \in Procs, NEW w \in Workers, CheckoutOrder(p, w)
    PROVE  StockStep
<1> DEFINE of(v) == {i \in Live(req[p].rows) : req[p].rows[i].variant = v}
           order == [user |-> req[p].cart[1],
                     quantity |-> [v \in Variants |-> IF of(v) = {} THEN 0
                                     ELSE req[p].rows[CHOOSE i \in of(v) : TRUE].qty],
                     payment_status |-> "PENDING"]
<1>1. order.payment_status = "PENDING"
  OBVIOUS
<1>2. PICK o \in OrderIds \ Placed : orders' = [orders EXCEPT ![o] = order]
  BY DEF CheckoutOrder
<1> HIDE DEF of, order
<1>3. UNCHANGED stock
  BY DEF CheckoutOrder, Checkout
<1>4. orders'[o].payment_status = "PENDING" /\ \A n \in OrderIds \ {o} : orders'[n] = orders[n]
  BY <1>1, <1>2 DEF MInv, PayTypeOK
<1> QED
  BY <1>2, <1>3, <1>4, UnpaidTakesNothing DEF Placed

(* The webhook of a success deducts the order, unless it is paid already.  *)
LEMMA WebhookSuccessSells ==
    ASSUME MInv, NEW w \in Workers, WebhookSuccess(w), ~OrderOvertaken(w)
    PROVE  StockStep
<1> DEFINE o == task[w].order
<1>1. task[w] # Idle /\ task[w].op = "webhook"
  BY DEF WebhookSuccess, Doing
<1>2. /\ o \in OrderIds /\ o \in Placed /\ orders[o] \in Order
      /\ orders \in [OrderIds -> Order \cup {NoOrder}]
      /\ stock \in [Variants -> Int]
  BY <1>1, BusyOrder, PlacedOrders DEF MInv, PayTypeOK, TypeOK
<1>3. task[w].payment = orders[o].payment_status
  BY <1>1 DEF OrderOvertaken
<1>4. CASE task[w].payment = "PAID"
  BY <1>4, NothingSold DEF WebhookSuccess
<1>5. CASE task[w].payment # "PAID"
  <2>1. SetPayment(o, "PAID") /\ Deduct(o)
    BY <1>5 DEF WebhookSuccess
  <2>2. /\ orders' = [orders EXCEPT ![o] = [orders[o] EXCEPT !.payment_status = "PAID"]]
        /\ orders' \in [OrderIds -> Order \cup {NoOrder}]
    <3>1. HasMoney(o) /\ PayTypeOK /\ "PAID" \in PaymentStatus
      BY <1>1, BusyOrder DEF WebhookSuccess, Claims, MInv, PaymentStatus
    <3>2. orders' \in [OrderIds -> Order \cup {NoOrder}]
      BY <1>2, <2>1, <3>1, SetPaymentStep
    <3> QED
      BY <2>1, <3>2 DEF SetPayment
  <2>3. /\ \A n \in OrderIds \ {o} : orders'[n] = orders[n]
        /\ orders'[o].payment_status = "PAID" /\ orders'[o].quantity = orders[o].quantity
        /\ orders'[o] # NoOrder
    <3> DEFINE paid == [orders[o] EXCEPT !.payment_status = "PAID"]
    <3>1. paid.payment_status = "PAID" /\ paid.quantity = orders[o].quantity /\ paid \in Order
      BY <1>2 DEF Order, PaymentStatus
    <3>2. orders' = [orders EXCEPT ![o] = paid]
      BY <2>2
    <3> HIDE DEF paid
    <3>3. orders'[o] = paid /\ \A n \in OrderIds \ {o} : orders'[n] = orders[n]
      BY <1>2, <3>2
    <3> QED
      BY <3>1, <3>3, RecordAssumption
  <2>4. ASSUME NEW v \in Variants
        PROVE  stock'[v] + Total(Taken(orders', v)) = stock[v] + Total(Taken(orders, v))
    <3>1. stock'[v] = stock[v] - orders[o].quantity[v]
      BY <2>1 DEF Deduct
    <3>2. Taken(orders, v)[o] = 0 /\ Taken(orders', v)[o] = orders[o].quantity[v]
      BY <1>2, <1>3, <1>5, <2>3 DEF Taken
    <3>3. \A n \in OrderIds \ {o} : Taken(orders', v)[n] = Taken(orders, v)[n]
      BY <2>3 DEF Taken
    <3>4. /\ IsFiniteSet(OrderIds)
          /\ Taken(orders, v) \in [OrderIds -> Nat] /\ Taken(orders', v) \in [OrderIds -> Nat]
          /\ Total(Taken(orders, v)) \in Nat /\ Total(Taken(orders', v)) \in Nat
      BY <1>2, <2>2, TakenType
    <3>5. Total(Taken(orders', v)) - Taken(orders', v)[o] = Total(Taken(orders, v)) - Taken(orders, v)[o]
      BY <1>2, <3>3, <3>4, TotalChanges
    <3>6. orders[o].quantity[v] \in Nat /\ stock[v] \in Int
      BY <1>2 DEF Order
    <3> QED
      BY <3>1, <3>2, <3>4, <3>5, <3>6
  <2> QED
    BY <2>4 DEF StockStep
<1> QED
  BY <1>4, <1>5

(* The timeout fails an order that is still PENDING, as it read it.        *)
LEMMA FailOrderSells ==
    ASSUME MInv, NEW w \in Workers, FailOrder(w), ~OrderOvertaken(w)
    PROVE  StockStep
<1> DEFINE o == task[w].order
<1>1. task[w] # Idle /\ task[w].op = "failOrder"
  BY DEF FailOrder, Doing
<1>2. o \in OrderIds /\ orders[o] \in Order /\ task[w].payment = "PENDING"
  BY <1>1, BusyOrder, BusyColumns, PlacedOrders DEF MInv
<1>3. orders[o].payment_status # "PAID"
  BY <1>1, <1>2 DEF OrderOvertaken
<1>4. UNCHANGED stock
  BY DEF FailOrder, vars
<1>5. orders'[o].payment_status = "FAILED" /\ \A n \in OrderIds \ {o} : orders'[n] = orders[n]
  BY <1>2 DEF FailOrder, SetPayment, MInv, PayTypeOK, Order
<1> QED
  BY <1>2, <1>3, <1>4, <1>5, UnpaidTakesNothing

(* Every step sells what it pays for, but for the two causes.              *)
LEMMA PayNextSells ==
    ASSUME MInv, [PayNext]_allVars
    PROVE  \/ StockStep
           \/ \E w \in Workers : \/ OrderOvertaken(w) /\ (WebhookSuccess(w) \/ FailOrder(w))
                                 \/ SettleOrder(w)
<1>1. ASSUME UNCHANGED <<stock, orders>> PROVE StockStep
  BY <1>1, NothingSold
<1>2. CASE CartStep
  <2>1. TypeOK /\ [Next]_vars
    BY <1>2 DEF MInv, PayTypeOK, CartStep, Next
  <2>2. UNCHANGED stock
    BY <2>1, NextKeeps DEF Kept
  <2> QED
    BY <1>1, <1>2, <2>2 DEF CartStep, payVars
<1>3. ASSUME NEW p \in Procs,
             \/ \E k \in Keys : CheckoutLookup(p, k)
             \/ \E u \in Users : CheckoutStart(p, u)
             \/ CheckoutRollback(p)
      PROVE  UNCHANGED <<stock, orders>>
  BY <1>3 DEF CheckoutLookup, CheckoutStart, CheckoutRollback, CheckoutBegin, ReadOnly, payVars, vars
<1>4. ASSUME NEW w \in Workers, CheckoutStep(w) PROVE StockStep
  BY <1>1, <1>4, CheckoutOrderSells
     DEF CheckoutStep, SaveTransaction, InitiatePayment, SaveResponse, vars
<1>5. ASSUME NEW w \in Workers, WebhookStep(w) PROVE StockStep \/ WebhookSuccess(w)
  BY <1>1, <1>5 DEF WebhookStep, WebhookBegin, WebhookFailed, vars
<1>6. ASSUME NEW w \in Workers, TimeoutStep(w) PROVE StockStep \/ FailOrder(w)
  BY <1>1, <1>6 DEF TimeoutStep, TimeoutBegin, FailTransactions, ReleaseOrderItem, vars
<1>7. ASSUME NEW w \in Workers, ReconcileStep(w) PROVE StockStep \/ SettleOrder(w)
  BY <1>1, <1>7 DEF ReconcileStep, ReconcileBegin, GetPaymentStatus, SettleTransaction, FindCart,
                    SettleCart, vars
<1>8. CASE \/ \E w \in Workers : Abort(w)
           \/ \E o \in OrderIds : PaymentSucceeds(o) \/ PaymentFails(o)
           \/ UNCHANGED allVars
  BY <1>1, <1>8 DEF Abort, PaymentSucceeds, PaymentFails, allVars, payVars, vars
<1> QED
  BY <1>1, <1>2, <1>3, <1>4, <1>5, <1>6, <1>7, <1>8, WebhookSuccessSells, FailOrderSells
     DEF PayNext

(* StockFollowsSales of every run: whatever overlaps, is late, repeated or *)
(* fails half-way, stock and sales part only where reconciliation pays an  *)
(* order, or where a webhook or the timeout writes over a payment that     *)
(* came after its read.                                                    *)
THEOREM OnlyOvertakenPaymentsPartStockFromSales == PaySpec => StockFollowsSales
<1> DEFINE Step == \/ \A v \in Variants : stock'[v] + Sold(v)' = stock[v] + Sold(v)
                   \/ \E w \in Workers : \/ OrderOvertaken(w) /\ (WebhookSuccess(w) \/ FailOrder(w))
                                         \/ SettleOrder(w)
<1>1. MInv /\ [PayNext]_allVars => [Step]_allVars
  <2>1. StockStep => \A v \in Variants : stock'[v] + Sold(v)' = stock[v] + Sold(v)
    BY SoldIsTaken DEF StockStep
  <2> QED
    BY <2>1, PayNextSells
<1> QED
  BY <1>1, MoneyInvariant, PTL DEF PaySpec, StockFollowsSales

=============================================================================
