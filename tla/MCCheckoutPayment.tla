------------------------- MODULE MCCheckoutPayment -------------------------
(* Instances of CheckoutPayment for TLC.                                    *)
EXTENDS CheckoutPayment, TLC

CONSTANTS u1, u2, paper, pdf, p1, p2, i1, i2, i3, w1, w2, k1

OneCopy == [v \in Variants |-> IF v \in Physical THEN 1 ELSE 0]
TwoCopies == [v \in Variants |-> IF v \in Physical THEN 2 ELSE 0]

PayingHandlers == {"getCart", "add", "timeout", "reconcile"}
AddingHandlers == {"add", "timeout", "reconcile"}
WebhookHandlers == {"add", "timeout"}

Symmetry == Permutations(Procs) \cup Permutations(ItemIds) \cup Permutations(Workers)
=============================================================================
