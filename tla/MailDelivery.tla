---------------------------- MODULE MailDelivery ----------------------------
(***************************************************************************)
(* The verification mails: the durable queue of the broker, the handlers   *)
(* of EmailConsumer, which run at the same time, and the attempts of       *)
(* MailService.  Retry is around Timeout is around the circuit breaker.    *)
(* The timers of Timeout and of the breaker are equally long, and that of  *)
(* the breaker is set first: its call ends before the attempt does.  What  *)
(* may outlive an attempt is the exchange with the SMTP server.            *)
(* The broker gives a message out again when the connection it was         *)
(* delivered on ends; an answer on the old connection is not heard.        *)
(***************************************************************************)
EXTENDS CircuitBreaker

CONSTANTS
    Mails,              \* verification mails, by their code
    NoMail,
    MaxAttempts,        \* maxAttempts of Retry
    MaxReconnects       \* bound: connections lost during the run

ASSUME MailAssumption ==
    NoMail \notin Mails /\ MaxAttempts \in Nat \ {0} /\ MaxReconnects \in Nat

VARIABLES
    mail,               \* Mails -> where the message is
    worker,             \* Calls -> a run of handleEmailVerification
    sent,               \* mails the SMTP server has accepted
    exchanges,          \* mails it may still accept from an attempt that failed
    reconnects          \* connections lost so far

delivery == <<mail, worker, sent, exchanges, reconnects>>

Idle == [at |-> "idle", mail |-> NoMail, tries |-> 0, live |-> FALSE]

Worker == [at : {"waiting", "calling"}, mail : Mails, tries : 0..MaxAttempts - 1, live : BOOLEAN]

MailTypeOK ==
    /\ mail \in [Mails -> {"none", "queued", "delivered", "acked"}]
    /\ worker \in [Calls -> Worker \cup {Idle}]
    /\ sent \subseteq Mails /\ exchanges \subseteq Mails
    /\ reconnects \in 0..MaxReconnects
    /\ BreakerTypeOK

MailInit ==
    /\ mail = [m \in Mails |-> "none"]
    /\ worker = [c \in Calls |-> Idle]
    /\ sent = {} /\ exchanges = {} /\ reconnects = 0

(* No prefetch limit: every queued message starts a handler.               *)
Deliver(c, m) ==
    /\ mail[m] = "queued" /\ worker[c].at = "idle"
    /\ mail' = [mail EXCEPT ![m] = "delivered"]
    /\ worker' = [worker EXCEPT ![c] = [at |-> "waiting", mail |-> m, tries |-> 0, live |-> TRUE]]
    /\ UNCHANGED <<sent, exchanges, reconnects>> /\ UNCHANGED breaker

(* MUTANT: one attempt too many.                                           *)
AfterFailureOnceMore(w) ==
    IF w.tries + 1 <= MaxAttempts
    THEN [w EXCEPT !.at = "waiting", !.tries = w.tries + 1]
    ELSE Idle
(* Retry after an attempt that threw: again, or the exception leaves the   *)
(* handler and the message stays unacknowledged.                           *)
AfterFailure(w) ==
    IF w.tries + 1 < MaxAttempts
    THEN [w EXCEPT !.at = "waiting", !.tries = w.tries + 1]
    ELSE Idle

Attempt(c) ==
    /\ worker[c].at = "waiting"
    /\ \/ /\ Refused
          /\ worker' = [worker EXCEPT ![c] = AfterFailure(worker[c])]
          /\ UNCHANGED breaker
       \/ /\ Execute(c)
          /\ worker' = [worker EXCEPT ![c].at = "calling"]
    /\ UNCHANGED <<mail, sent, exchanges, reconnects>>

(* An acknowledgement on a connection that has ended does nothing.         *)
Ack(w) == mail' = IF w.live THEN [mail EXCEPT ![w.mail] = "acked"] ELSE mail

SendOK(c) ==
    /\ worker[c].at = "calling"
    /\ sent' = sent \cup {worker[c].mail}
    /\ OnSuccess(c) /\ Ack(worker[c])
    /\ worker' = [worker EXCEPT ![c] = Idle]
    /\ UNCHANGED <<exchanges, reconnects>>

(* MUTANT: a message is acknowledged in a finally block.                   *)
SendFailsAcked(c) ==
    /\ worker[c].at = "calling"
    /\ exchanges' \in {exchanges, exchanges \cup {worker[c].mail}}
    /\ OnFailure(c)
    /\ worker' = [worker EXCEPT ![c] = AfterFailure(worker[c])]
    /\ IF AfterFailure(worker[c]) = Idle THEN Ack(worker[c]) ELSE UNCHANGED mail
    /\ UNCHANGED <<sent, reconnects>>
(* MUTANT: Retry tries for ever.                                           *)
SendFailsForever(c) ==
    /\ worker[c].at = "calling"
    /\ exchanges' \in {exchanges, exchanges \cup {worker[c].mail}}
    /\ OnFailure(c)
    /\ worker' = [worker EXCEPT ![c].at = "waiting"]
    /\ UNCHANGED <<mail, sent, reconnects>>
(* sendMail throws, or has not answered in time; the server may accept the *)
(* mail all the same.  Breaker and Timeout wait equally long, and the      *)
(* breaker's timer is started first: a call ends with its attempt.         *)
SendFails(c) ==
    /\ worker[c].at = "calling"
    /\ exchanges' \in {exchanges, exchanges \cup {worker[c].mail}}
    /\ OnFailure(c)
    /\ worker' = [worker EXCEPT ![c] = AfterFailure(worker[c])]
    /\ UNCHANGED <<mail, sent, reconnects>>

AcceptLate(m) ==
    /\ m \in exchanges
    /\ exchanges' = exchanges \ {m} /\ sent' = sent \cup {m}
    /\ UNCHANGED <<mail, worker, reconnects>> /\ UNCHANGED breaker

CutOff(w) == [at |-> w.at, mail |-> w.mail, tries |-> w.tries, live |-> FALSE]
Requeued == [m \in Mails |-> IF mail[m] = "delivered" THEN "queued" ELSE mail[m]]

(* MUTANT: the old connection is still answered on.                        *)
ReconnectLive ==
    /\ reconnects < MaxReconnects
    /\ reconnects' = reconnects + 1
    /\ mail' = Requeued
    /\ UNCHANGED <<worker, sent, exchanges>> /\ UNCHANGED breaker
(* The connection to the broker is lost and made again; handlers go on.    *)
Reconnect ==
    /\ reconnects < MaxReconnects
    /\ reconnects' = reconnects + 1
    /\ mail' = Requeued
    /\ worker' = [c \in Calls |-> CutOff(worker[c])]
    /\ UNCHANGED <<sent, exchanges>> /\ UNCHANGED breaker

(* The process ends and starts again.                                      *)
MailRestart ==
    /\ reconnects < MaxReconnects
    /\ reconnects' = reconnects + 1
    /\ mail' = Requeued
    /\ worker' = [c \in Calls |-> Idle]
    /\ BreakerRestart
    /\ exchanges' = {}
    /\ UNCHANGED sent

Cools == CoolDown /\ UNCHANGED delivery

(* What the rest of the system does to the queue: a message comes.         *)
Queue(m) ==
    /\ mail[m] = "none"
    /\ mail' = [mail EXCEPT ![m] = "queued"]
    /\ UNCHANGED <<worker, sent, exchanges, reconnects>> /\ UNCHANGED breaker

MailNext ==
    \/ \E c \in Calls, m \in Mails : Deliver(c, m)
    \/ \E c \in Calls : Attempt(c) \/ SendOK(c) \/ SendFails(c)
    \/ \E m \in Mails : AcceptLate(m)
    \/ Reconnect \/ Cools

DeliveryInit == MailInit /\ BreakerInit

MailSpec ==
    /\ DeliveryInit
    /\ [][MailNext \/ MailRestart \/ \E m \in Mails : Queue(m)]_<<delivery, breaker>>

(* The broker delivers, and a handler that has a message goes on: attempts *)
(* end within their timeout, and retries are timers.                       *)
MailFairness ==
    /\ \A m \in Mails : WF_<<delivery, breaker>>(\E c \in Calls : Deliver(c, m))
    /\ \A c \in Calls : WF_<<delivery, breaker>>(Attempt(c) \/ SendOK(c) \/ SendFails(c))
FairMailSpec == MailSpec /\ MailFairness

-----------------------------------------------------------------------------
(* A message is taken off the queue for good only when its mail is out,    *)
(* whatever attempts fail, time out, or are repeated on a new connection.  *)
NoLostMail == \A m \in Mails : mail[m] = "acked" => m \in sent

(* The calls that the breaker counts are the ones that handlers wait for,  *)
(* and at most one handler can answer for a message.                       *)
OneAnswers ==
    /\ \A c \in Calls : (c \in running) = (worker[c].at = "calling")
    /\ \A c \in Calls : worker[c].live => mail[worker[c].mail] = "delivered"
    /\ \A c, d \in Calls :
        worker[c].live /\ worker[d].live /\ worker[c].mail = worker[d].mail => c = d

(* Every message of the queue is handled to an end: sent and acknowledged, *)
(* or given up after MaxAttempts.                                          *)
HandledOut(m) == mail[m] \in {"none", "acked"} \/
                 (mail[m] = "delivered" /\ \A c \in Calls : worker[c].mail # m)
MailsHandled == \A m \in Mails : (mail[m] = "queued") ~> HandledOut(m)

=============================================================================
