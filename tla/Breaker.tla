------------------------------- MODULE Breaker -------------------------------
(***************************************************************************)
(* What callers of a circuit breaker rely on: an open one lets no call     *)
(* through while it is hot, it opens only by a failure, and from open it   *)
(* closes only by way of half open and a success.                          *)
(***************************************************************************)
CONSTANT Calls      \* calls of the protected function

VARIABLES
    gate,           \* what a new call meets
    hot,            \* it has opened and not cooled down
    passing         \* the calls that were let through and have not ended

Init == gate = "CLOSED" /\ hot = FALSE /\ passing = {}

(* A call is let through; the one that finds an open breaker cooled down   *)
(* leaves it half open.                                                    *)
Pass(c) ==
    /\ gate = "OPEN" => ~hot
    /\ c \notin passing
    /\ passing' = passing \cup {c}
    /\ gate' = IF gate = "OPEN" THEN "HALF_OPEN" ELSE gate
    /\ UNCHANGED hot

Succeed(c) ==
    /\ c \in passing
    /\ passing' = passing \ {c}
    /\ gate' \in IF gate = "HALF_OPEN" THEN {"HALF_OPEN", "CLOSED"} ELSE {gate}
    /\ UNCHANGED hot

Fail(c) ==
    /\ c \in passing
    /\ passing' = passing \ {c}
    /\ \/ UNCHANGED <<gate, hot>>
       \/ gate' = "OPEN" /\ hot' = TRUE

Cool == hot /\ hot' = FALSE /\ UNCHANGED <<gate, passing>>

(* The process ends and starts again.                                      *)
Restart == gate' = "CLOSED" /\ hot' = FALSE /\ passing' = {}

Next == (\E c \in Calls : Pass(c) \/ Succeed(c) \/ Fail(c)) \/ Cool \/ Restart

Spec == Init /\ [][Next]_<<gate, hot, passing>>

=============================================================================
