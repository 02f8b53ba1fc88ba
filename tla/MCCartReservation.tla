------------------------- MODULE MCCartReservation -------------------------
(* Instances of CartReservation for TLC.  Workloads select handlers; one    *)
(* physical variant with two copies, digital ones beside it for guests.     *)
EXTENDS CartReservation, TLC

CONSTANTS u1, u2, s1, paper, pdf, mp3, p1, p2, p3, i1, i2, i3

TwoCopies == [v \in Variants |-> IF v \in Physical THEN 2 ELSE 0]

(* A cart has one row at most: clearing it is removing that row.            *)
OneRowHandlers == {"getCart", "add", "guestAdd", "update", "remove", "merge", "checkout",
                   "release", "purge", "expire"}
GuestHandlers == {"guestAdd", "merge", "release", "purge", "expire"}
ExpiringHandlers == {"add", "guestAdd", "clear", "checkout", "release", "expire"}

Symmetry == Permutations(Procs) \cup Permutations(ItemIds)
=============================================================================
