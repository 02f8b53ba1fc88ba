--------------------------- MODULE CircuitBreaker ---------------------------
(***************************************************************************)
(* CircuitBreaker of libs/common.  Calls run at the same time: a call that *)
(* was let through may end long after the state has changed.  Time is only *)
(* whether nextAttempt has been reached.                                   *)
(***************************************************************************)
EXTENDS Integers, FiniteSets

CONSTANTS
    Calls,              \* calls of execute in flight at the same time
    FailureThreshold,   \* failures in a row that open the breaker
    SuccessThreshold    \* successes that close it when it is half open

ASSUME ThresholdAssumption ==
    FailureThreshold \in Nat \ {0} /\ SuccessThreshold \in Nat \ {0}

VARIABLES
    state,          \* CircuitState
    failureCount,   \* failures since the last success; more than the
                    \* threshold is as good as the threshold
    successCount,   \* successes while half open
    cooled,         \* Date.now() has reached nextAttempt
    running         \* calls of the function that have not ended

breaker == <<state, failureCount, successCount, cooled, running>>

BreakerTypeOK ==
    /\ state \in {"CLOSED", "OPEN", "HALF_OPEN"}
    /\ failureCount \in 0..FailureThreshold
    /\ successCount \in 0..SuccessThreshold
    /\ cooled \in BOOLEAN
    /\ running \subseteq Calls

BreakerInit ==
    /\ state = "CLOSED" /\ failureCount = 0 /\ successCount = 0
    /\ cooled = TRUE /\ running = {}

Refused == state = "OPEN" /\ ~cooled

(* execute, up to the call of the function.                                *)
(* MUTANT: a call that is refused is made all the same.                    *)
ExecuteAnyway(c) ==
    /\ c \notin running
    /\ running' = running \cup {c}
    /\ UNCHANGED <<state, failureCount, successCount, cooled>>
Execute(c) ==
    /\ ~Refused /\ c \notin running
    /\ state' = IF state = "OPEN" THEN "HALF_OPEN" ELSE state
    /\ running' = running \cup {c}
    /\ UNCHANGED <<failureCount, successCount, cooled>>

(* The function has returned, however long ago the call began.             *)
OnSuccess(c) ==
    /\ c \in running
    /\ running' = running \ {c}
    /\ failureCount' = 0
    /\ IF state # "HALF_OPEN" THEN UNCHANGED <<state, successCount>>
       ELSE IF successCount + 1 < SuccessThreshold
       THEN successCount' = successCount + 1 /\ UNCHANGED state
       ELSE successCount' = 0 /\ state' = "CLOSED"
    /\ UNCHANGED cooled

(* MUTANT: a failure does not end the row of successes.                    *)
OnFailureKeepingSuccesses(c) ==
    /\ c \in running
    /\ running' = running \ {c}
    /\ failureCount' = IF failureCount < FailureThreshold THEN failureCount + 1 ELSE failureCount
    /\ IF failureCount + 1 >= FailureThreshold
       THEN state' = "OPEN" /\ cooled' = FALSE
       ELSE UNCHANGED <<state, cooled>>
    /\ UNCHANGED successCount
(* The function throws, or the timeout of the breaker wins the race.       *)
OnFailure(c) ==
    /\ c \in running
    /\ running' = running \ {c}
    /\ failureCount' = IF failureCount < FailureThreshold THEN failureCount + 1 ELSE failureCount
    /\ successCount' = 0
    /\ IF failureCount + 1 >= FailureThreshold
       THEN state' = "OPEN" /\ cooled' = FALSE
       ELSE UNCHANGED <<state, cooled>>

CoolDown ==
    /\ state = "OPEN" /\ ~cooled
    /\ cooled' = TRUE
    /\ UNCHANGED <<state, failureCount, successCount, running>>

(* A new process.  reset() has no caller.                                  *)
BreakerRestart ==
    /\ state' = "CLOSED" /\ failureCount' = 0 /\ successCount' = 0
    /\ cooled' = TRUE /\ running' = {}

BreakerNext ==
    \/ \E c \in Calls : Execute(c) \/ OnSuccess(c) \/ OnFailure(c)
    \/ CoolDown \/ BreakerRestart

BreakerSpec == BreakerInit /\ [][BreakerNext]_breaker

-----------------------------------------------------------------------------
(* The counts fit the state, whatever calls end late: below the failure    *)
(* threshold while closed, and no success is carried over from one half    *)
(* open phase into the next.                                               *)
CountsFitState ==
    /\ state = "CLOSED" => failureCount < FailureThreshold
    /\ successCount < SuccessThreshold
    /\ state # "HALF_OPEN" => successCount = 0

(* The breaker is what its callers rely on: no call gets through while it  *)
(* is open and hot, whatever calls end late.                               *)
Abstract == INSTANCE Breaker WITH gate <- state, hot <- ~cooled, passing <- running
ImplementsBreaker == Abstract!Spec

=============================================================================
