------------------------- MODULE MailDelivery_proofs -------------------------
(***************************************************************************)
(* Proofs about CircuitBreaker and MailDelivery.  What holds of the        *)
(* breaker alone is carried over to the mails by showing that every step   *)
(* of the delivery is a step of the breaker or leaves it unchanged.        *)
(***************************************************************************)
EXTENDS MailDelivery, TLAPS

(* A call that ends late, in whatever state, keeps the counts in their     *)
(* ranges.                                                                 *)
THEOREM BreakerTypeCorrect == BreakerSpec => []BreakerTypeOK
<1>1. BreakerInit => BreakerTypeOK
  BY ThresholdAssumption DEF BreakerInit, BreakerTypeOK
<1>2. BreakerTypeOK /\ [BreakerNext]_breaker => BreakerTypeOK'
  <2> SUFFICES ASSUME BreakerTypeOK, [BreakerNext]_breaker PROVE BreakerTypeOK'
    OBVIOUS
  <2> USE ThresholdAssumption DEF BreakerTypeOK
  <2>1. ASSUME NEW c \in Calls, Execute(c) PROVE BreakerTypeOK'
    BY <2>1 DEF Execute
  <2>2. ASSUME NEW c \in Calls, OnSuccess(c) PROVE BreakerTypeOK'
    BY <2>2 DEF OnSuccess
  <2>3. ASSUME NEW c \in Calls, OnFailure(c) PROVE BreakerTypeOK'
    <3>1. failureCount' \in 0..FailureThreshold /\ successCount' \in 0..SuccessThreshold
      BY <2>3 DEF OnFailure
    <3>2. state' \in {"CLOSED", "OPEN", "HALF_OPEN"} /\ cooled' \in BOOLEAN
      BY <2>3 DEF OnFailure
    <3>3. running' \subseteq Calls
      BY <2>3 DEF OnFailure
    <3> QED
      BY <3>1, <3>2, <3>3
  <2>4. CASE CoolDown
    BY <2>4 DEF CoolDown
  <2>5. CASE BreakerRestart
    BY <2>5 DEF BreakerRestart
  <2>6. CASE UNCHANGED breaker
    BY <2>6 DEF breaker
  <2> QED
    BY <2>1, <2>2, <2>3, <2>4, <2>5, <2>6 DEF BreakerNext
<1> QED
  BY <1>1, <1>2, PTL DEF BreakerSpec

(* The counts fit the state although a call may end long after the state   *)
(* it began in: failures stay below the threshold while closed, and no     *)
(* success is carried into the next half open phase.                       *)
THEOREM BreakerCounts == BreakerSpec => []CountsFitState
<1>1. BreakerInit => CountsFitState
  BY ThresholdAssumption DEF BreakerInit, CountsFitState
<1>2. BreakerTypeOK /\ CountsFitState /\ [BreakerNext]_breaker => CountsFitState'
  <2> SUFFICES ASSUME BreakerTypeOK, CountsFitState, [BreakerNext]_breaker
               PROVE CountsFitState'
    OBVIOUS
  <2> USE ThresholdAssumption DEF BreakerTypeOK, CountsFitState
  <2>1. ASSUME NEW c \in Calls, Execute(c) PROVE CountsFitState'
    BY <2>1 DEF Execute
  <2>2. ASSUME NEW c \in Calls, OnSuccess(c) PROVE CountsFitState'
    BY <2>2 DEF OnSuccess
  <2>3. ASSUME NEW c \in Calls, OnFailure(c) PROVE CountsFitState'
    BY <2>3 DEF OnFailure
  <2>4. CASE CoolDown
    BY <2>4 DEF CoolDown
  <2>5. CASE BreakerRestart
    BY <2>5 DEF BreakerRestart
  <2>6. CASE UNCHANGED breaker
    BY <2>6 DEF breaker
  <2> QED
    BY <2>1, <2>2, <2>3, <2>4, <2>5, <2>6 DEF BreakerNext
<1> QED
  BY <1>1, <1>2, BreakerTypeCorrect, PTL DEF BreakerSpec

-----------------------------------------------------------------------------
(* The counting breaker implements the breaker its callers rely on, with   *)
(* "hot" for an open breaker whose next attempt has not been reached.      *)
THEOREM BreakerRefines == BreakerSpec => ImplementsBreaker
<1>1. BreakerInit => Abstract!Init
  BY DEF BreakerInit, Abstract!Init
<1>2. BreakerTypeOK /\ [BreakerNext]_breaker
        => [Abstract!Next]_<<state, ~cooled, running>>
  <2> SUFFICES ASSUME BreakerTypeOK, [BreakerNext]_breaker
               PROVE Abstract!Next \/ UNCHANGED <<state, ~cooled, running>>
    OBVIOUS
  <2>1. ASSUME NEW c \in Calls, Execute(c) PROVE Abstract!Pass(c)
    BY <2>1 DEF Execute, Refused, Abstract!Pass
  <2>2. ASSUME NEW c \in Calls, OnSuccess(c) PROVE Abstract!Succeed(c)
    BY <2>2 DEF OnSuccess, Abstract!Succeed
  <2>3. ASSUME NEW c \in Calls, OnFailure(c) PROVE Abstract!Fail(c)
    BY <2>3 DEF OnFailure, Abstract!Fail
  <2>4. ASSUME CoolDown PROVE Abstract!Cool
    BY <2>4 DEF CoolDown, Abstract!Cool
  <2>5. ASSUME BreakerRestart PROVE Abstract!Restart
    BY <2>5 DEF BreakerRestart, Abstract!Restart
  <2>6. ASSUME UNCHANGED breaker PROVE UNCHANGED <<state, ~cooled, running>>
    BY <2>6 DEF breaker
  <2> QED
    BY <2>1, <2>2, <2>3, <2>4, <2>5, <2>6 DEF BreakerNext, Abstract!Next
<1> QED
  BY <1>1, <1>2, BreakerTypeCorrect, PTL DEF BreakerSpec, ImplementsBreaker, Abstract!Spec

-----------------------------------------------------------------------------
(* Every step of the delivery is a step of the breaker or does not touch   *)
(* it.                                                                     *)
MailStep == MailNext \/ MailRestart \/ \E m \in Mails : Queue(m)

(* A step of the delivery is one of the breaker, or leaves it alone.       *)
LEMMA MailStepsBreaker == [MailStep]_<<delivery, breaker>> => [BreakerNext]_breaker
<1> SUFFICES ASSUME [MailStep]_<<delivery, breaker>> PROVE BreakerNext \/ UNCHANGED breaker
  OBVIOUS
<1>1. ASSUME NEW c \in Calls, NEW m \in Mails, Deliver(c, m) PROVE UNCHANGED breaker
  BY <1>1 DEF Deliver
<1>2. ASSUME NEW c \in Calls, Attempt(c) PROVE BreakerNext \/ UNCHANGED breaker
  BY <1>2 DEF Attempt, BreakerNext
<1>3. ASSUME NEW c \in Calls, SendOK(c) PROVE BreakerNext
  BY <1>3 DEF SendOK, BreakerNext
<1>4. ASSUME NEW c \in Calls, SendFails(c) PROVE BreakerNext
  BY <1>4 DEF SendFails, BreakerNext
<1>5. ASSUME Reconnect PROVE UNCHANGED breaker
  BY <1>5 DEF Reconnect
<1>6. ASSUME Cools PROVE BreakerNext
  BY <1>6 DEF Cools, BreakerNext
<1>7. ASSUME MailRestart PROVE BreakerNext
  BY <1>7 DEF MailRestart, BreakerNext
<1>8. ASSUME NEW m \in Mails, Queue(m) PROVE UNCHANGED breaker
  BY <1>8 DEF Queue
<1>9. ASSUME NEW m \in Mails, AcceptLate(m) PROVE UNCHANGED breaker
  BY <1>9 DEF AcceptLate
<1> QED
  BY <1>1, <1>2, <1>3, <1>4, <1>5, <1>6, <1>7, <1>8, <1>9 DEF MailStep, MailNext

(* Hence a behaviour of the delivery is one of the breaker.                *)
LEMMA MailUsesBreaker == MailSpec => BreakerSpec
BY MailStepsBreaker, PTL DEF MailSpec, DeliveryInit, BreakerSpec, MailStep

(* The handlers of mails, their retries and restarts use the breaker so    *)
(* that it does for them what its callers rely on.                         *)
THEOREM MailImplementsBreaker == MailSpec => ImplementsBreaker
BY MailUsesBreaker, BreakerRefines, PTL

(* So its counts fit its state, whatever attempts end late.                *)
THEOREM MailCounts == MailSpec => []CountsFitState
BY MailUsesBreaker, BreakerCounts, PTL

-----------------------------------------------------------------------------

(* After a failure a handler waits for its next attempt or is done.        *)
LEMMA AfterFailureType ==
    ASSUME NEW w \in Worker
    PROVE  AfterFailure(w) \in Worker \cup {Idle}
<1>1. CASE w.tries + 1 < MaxAttempts
  <2>1. w.tries + 1 \in 0..MaxAttempts - 1
    BY <1>1, MailAssumption DEF Worker
  <2>2. AfterFailure(w) = [at |-> "waiting", mail |-> w.mail, tries |-> w.tries + 1, live |-> w.live]
    BY <1>1 DEF AfterFailure, Worker
  <2> QED
    BY <2>1, <2>2 DEF Worker
<1>2. CASE ~(w.tries + 1 < MaxAttempts)
  BY <1>2 DEF AfterFailure
<1> QED
  BY <1>1, <1>2

(* A handler that is not idle has a message.                               *)
LEMMA BusyWorker ==
    ASSUME MailTypeOK, NEW c \in Calls, worker[c].at # "idle"
    PROVE  worker[c] \in Worker
BY DEF MailTypeOK, Idle

(* Handlers, messages and connections stay in their ranges: no more than   *)
(* MaxAttempts attempts, whatever fails.                                   *)
THEOREM MailTypeCorrect == MailSpec => []MailTypeOK
<1> DEFINE MailPart == /\ mail \in [Mails -> {"none", "queued", "delivered", "acked"}]
                       /\ worker \in [Calls -> Worker \cup {Idle}]
                       /\ sent \subseteq Mails /\ exchanges \subseteq Mails
                       /\ reconnects \in 0..MaxReconnects
<1>1. DeliveryInit => MailPart
  BY MailAssumption DEF DeliveryInit, MailInit
<1>2. MailTypeOK /\ [MailStep]_<<delivery, breaker>> => MailPart'
  <2> SUFFICES ASSUME MailTypeOK, [MailStep]_<<delivery, breaker>> PROVE MailPart'
    OBVIOUS
  <2> USE MailAssumption DEF MailTypeOK
  <2>1. ASSUME NEW c \in Calls, NEW m \in Mails, Deliver(c, m) PROVE MailPart'
    BY <2>1 DEF Deliver, Worker
  <2>2. ASSUME NEW c \in Calls, Attempt(c) PROVE MailPart'
    <3>1. worker[c] \in Worker
      BY <2>2, BusyWorker DEF Attempt
    <3>2. AfterFailure(worker[c]) \in Worker \cup {Idle}
      BY <3>1, AfterFailureType
    <3>3. [worker[c] EXCEPT !.at = "calling"] \in Worker
      BY <3>1 DEF Worker
    <3>4. worker' \in [Calls -> Worker \cup {Idle}]
      BY <2>2, <3>2, <3>3 DEF Attempt
    <3> QED
      BY <2>2, <3>4 DEF Attempt
  <2>3. ASSUME NEW c \in Calls, SendOK(c) PROVE MailPart'
    <3>1. worker[c].mail \in Mails
      BY <2>3, BusyWorker DEF SendOK, Worker
    <3>2. /\ worker' \in [Calls -> Worker \cup {Idle}]
          /\ sent' \subseteq Mails /\ exchanges' \subseteq Mails
      BY <2>3, <3>1 DEF SendOK
    <3>3. mail' \in [Mails -> {"none", "queued", "delivered", "acked"}]
      BY <2>3, <3>1 DEF SendOK, Ack
    <3> QED
      BY <2>3, <3>2, <3>3 DEF SendOK
  <2>4. ASSUME NEW c \in Calls, SendFails(c) PROVE MailPart'
    <3>1. worker[c] \in Worker
      BY <2>4, BusyWorker DEF SendFails
    <3>2. worker[c].mail \in Mails /\ AfterFailure(worker[c]) \in Worker \cup {Idle}
      BY <3>1, AfterFailureType DEF Worker
    <3>3. worker' \in [Calls -> Worker \cup {Idle}]
      BY <2>4, <3>2 DEF SendFails
    <3>4. sent' \subseteq Mails /\ exchanges' \subseteq Mails
      BY <2>4, <3>2 DEF SendFails
    <3> QED
      BY <2>4, <3>3, <3>4 DEF SendFails
  <2>5. ASSUME Reconnect PROVE MailPart'
    <3>1. ASSUME NEW c \in Calls PROVE CutOff(worker[c]) \in Worker \cup {Idle}
      <4>1. CASE worker[c] \in Worker
        BY <4>1 DEF Worker, CutOff
      <4>2. CASE worker[c] = Idle
        <5>1. CutOff(Idle) = Idle
          BY DEF CutOff, Idle
        <5> QED
          BY <4>2, <5>1
      <4> QED
        BY <4>1, <4>2
    <3>2. worker' = [c \in Calls |-> CutOff(worker[c])]
      BY <2>5 DEF Reconnect
    <3>3. worker' \in [Calls -> Worker \cup {Idle}]
      BY <3>1, <3>2, Zenon
    <3>4. mail' \in [Mails -> {"none", "queued", "delivered", "acked"}]
      BY <2>5 DEF Reconnect, Requeued
    <3>5. sent' \subseteq Mails /\ exchanges' \subseteq Mails /\ reconnects' \in 0..MaxReconnects
      BY <2>5 DEF Reconnect
    <3> QED
      BY <3>3, <3>4, <3>5
  <2>6. CASE Cools
    BY <2>6 DEF Cools, delivery
  <2>7. CASE MailRestart
    BY <2>7 DEF MailRestart, Requeued
  <2>8. ASSUME NEW m \in Mails, Queue(m) PROVE MailPart'
    BY <2>8 DEF Queue
  <2>10. ASSUME NEW m \in Mails, AcceptLate(m) PROVE MailPart'
    BY <2>10 DEF AcceptLate
  <2>9. CASE UNCHANGED <<delivery, breaker>>
    BY <2>9 DEF delivery
  <2> QED
    BY <2>1, <2>2, <2>3, <2>4, <2>5, <2>6, <2>7, <2>8, <2>9, <2>10 DEF MailStep, MailNext
<1>3. MailTypeOK <=> MailPart /\ BreakerTypeOK
  BY DEF MailTypeOK
<1> HIDE DEF MailPart
<1> QED
  BY <1>1, <1>2, <1>3, MailUsesBreaker, BreakerTypeCorrect, PTL DEF MailSpec, MailStep

-----------------------------------------------------------------------------
(* A message is acknowledged only after its mail is out.                   *)
THEOREM MailNotLost == MailSpec => []NoLostMail
<1>1. DeliveryInit => NoLostMail
  BY DEF DeliveryInit, MailInit, NoLostMail
<1>2. MailTypeOK /\ NoLostMail /\ [MailStep]_<<delivery, breaker>> => NoLostMail'
  <2> SUFFICES ASSUME MailTypeOK, NoLostMail, [MailStep]_<<delivery, breaker>>,
                      NEW m \in Mails, mail'[m] = "acked"
               PROVE  m \in sent'
    BY DEF NoLostMail
  <2> USE DEF MailTypeOK, NoLostMail
  <2>1. ASSUME NEW c \in Calls, NEW n \in Mails, Deliver(c, n) PROVE m \in sent'
    BY <2>1 DEF Deliver
  <2>2. ASSUME NEW c \in Calls, Attempt(c) PROVE m \in sent'
    BY <2>2 DEF Attempt
  <2>3. ASSUME NEW c \in Calls, SendOK(c) PROVE m \in sent'
    <3>1. worker[c].mail \in Mails
      BY <2>3, BusyWorker DEF SendOK, Worker
    <3> QED
      BY <2>3, <3>1 DEF SendOK, Ack
  <2>4. ASSUME NEW c \in Calls, SendFails(c) PROVE m \in sent'
    BY <2>4 DEF SendFails
  <2>5. ASSUME Reconnect \/ MailRestart PROVE m \in sent'
    BY <2>5 DEF Reconnect, MailRestart, Requeued
  <2>6. ASSUME Cools \/ UNCHANGED <<delivery, breaker>> PROVE m \in sent'
    BY <2>6 DEF Cools, delivery
  <2>7. ASSUME NEW n \in Mails, Queue(n) PROVE m \in sent'
    BY <2>7 DEF Queue
  <2>8. ASSUME NEW n \in Mails, AcceptLate(n) PROVE m \in sent'
    BY <2>8 DEF AcceptLate
  <2> QED
    BY <2>1, <2>2, <2>3, <2>4, <2>5, <2>6, <2>7, <2>8 DEF MailStep, MailNext
<1> QED
  BY <1>1, <1>2, MailTypeCorrect, PTL DEF MailSpec, MailStep

-----------------------------------------------------------------------------

(* A failure starts no call, and keeps the message and the connection.     *)
LEMMA AfterFailureKeeps ==
    ASSUME NEW w \in Worker
    PROVE  /\ AfterFailure(w).at # "calling"
           /\ AfterFailure(w).live => w.live /\ AfterFailure(w).mail = w.mail
BY DEF AfterFailure, Worker, Idle

(* One handler at most can answer for a message, and it is then out with   *)
(* it; the breaker counts just the calls that handlers wait for.           *)
THEOREM OneHandlerAnswers == MailSpec => []OneAnswers
<1>1. DeliveryInit => OneAnswers
  BY DEF DeliveryInit, MailInit, BreakerInit, OneAnswers, Idle
<1>2. MailTypeOK /\ OneAnswers /\ [MailStep]_<<delivery, breaker>> => OneAnswers'
  <2> SUFFICES ASSUME MailTypeOK, OneAnswers, [MailStep]_<<delivery, breaker>>
               PROVE  OneAnswers'
    OBVIOUS
  <2> USE DEF MailTypeOK, OneAnswers
  <2>1. ASSUME NEW c \in Calls, NEW m \in Mails, Deliver(c, m) PROVE OneAnswers'
    BY <2>1 DEF Deliver, breaker
  <2>2. ASSUME NEW c \in Calls, Attempt(c) PROVE OneAnswers'
    <3>1. worker[c] \in Worker
      BY <2>2, BusyWorker DEF Attempt
    <3>2. CASE Refused /\ worker' = [worker EXCEPT ![c] = AfterFailure(worker[c])] /\ UNCHANGED breaker
      BY <2>2, <3>1, <3>2, AfterFailureKeeps DEF Attempt, breaker
    <3>3. CASE Execute(c) /\ worker' = [worker EXCEPT ![c].at = "calling"]
      BY <2>2, <3>1, <3>3 DEF Attempt, Execute, Worker
    <3> QED
      BY <2>2, <3>2, <3>3 DEF Attempt
  <2>3. ASSUME NEW c \in Calls, SendOK(c) PROVE OneAnswers'
    <3>1. worker[c] \in Worker
      BY <2>3, BusyWorker DEF SendOK
    <3> QED
      BY <2>3, <3>1 DEF SendOK, Ack, OnSuccess, Idle, Worker
  <2>4. ASSUME NEW c \in Calls, SendFails(c) PROVE OneAnswers'
    <3>1. worker[c] \in Worker
      BY <2>4, BusyWorker DEF SendFails
    <3> QED
      BY <2>4, <3>1, AfterFailureKeeps DEF SendFails, OnFailure
  <2>5. CASE Reconnect
    <3>1. ASSUME NEW c \in Calls
          PROVE  worker'[c].at = worker[c].at /\ worker'[c].live = FALSE
      <4>1. CASE worker[c] \in Worker
        BY <2>5, <4>1 DEF Reconnect, Worker, CutOff
      <4>2. CASE worker[c] = Idle
        BY <2>5, <4>2 DEF Reconnect, Idle, CutOff
      <4> QED
        BY <4>1, <4>2
    <3>2. running' = running
      BY <2>5 DEF Reconnect, breaker
    <3> QED
      BY <3>1, <3>2
  <2>6. CASE MailRestart
    BY <2>6 DEF MailRestart, BreakerRestart, Idle
  <2>7. ASSUME Cools \/ UNCHANGED <<delivery, breaker>> PROVE OneAnswers'
    BY <2>7 DEF Cools, CoolDown, delivery, breaker
  <2>8. ASSUME NEW m \in Mails, Queue(m) PROVE OneAnswers'
    BY <2>8 DEF Queue, breaker
  <2>9. ASSUME NEW m \in Mails, AcceptLate(m) PROVE OneAnswers'
    BY <2>9 DEF AcceptLate, breaker
  <2> QED
    BY <2>1, <2>2, <2>3, <2>4, <2>5, <2>6, <2>7, <2>8, <2>9 DEF MailStep, MailNext
<1> QED
  BY <1>1, <1>2, MailTypeCorrect, PTL DEF MailSpec, MailStep

=============================================================================
