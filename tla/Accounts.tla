------------------------------ MODULE Accounts ------------------------------
(***************************************************************************)
(* Registration, its verification, and codes for passwordless sign-in:     *)
(* AuthService, OtpService, CreateUserProvider and UpdateUserProvider over *)
(* the tables users and email_verifications, and the event that asks for a *)
(* mail.  Nothing here is in a transaction: each query is a step, and a    *)
(* process that ends leaves what it has written.  A row of users is known  *)
(* by its e-mail address and a code by the number of its row, in the order *)
(* of createdAt; passwords, names and tokens are left out.                 *)
(***************************************************************************)
EXTENDS MailDelivery

CONSTANTS
    Users,          \* e-mail addresses
    Procs,          \* requests in flight at the same time
    NoUser

ASSUME AccountsAssumption == Mails \subseteq Nat \ {0} /\ NoMail = 0 /\ NoUser \notin Users

VARIABLES
    user,           \* Users -> "none" or the status of the row
    otp,            \* Mails -> row of email_verifications
    req             \* Procs -> the request a process answers

account == <<user, otp, req>>

NoOtp == [user |-> NoUser, purpose |-> "none", used |-> FALSE, expired |-> FALSE]
NoReq == [at |-> "idle", user |-> NoUser, purpose |-> "none", code |-> 0]

AccountsTypeOK ==
    /\ user \in [Users -> {"none", "PENDING", "ACTIVE"}]
    /\ otp \in [Mails -> [user : Users \cup {NoUser}, purpose : {"none", "REGISTRATION", "LOGIN"},
                          used : BOOLEAN, expired : BOOLEAN]]
    /\ req \in [Procs -> [at : {"idle", "insert", "save", "emit", "miss", "use", "activate"},
                          user : Users \cup {NoUser}, code : Mails \cup {0},
                          purpose : {"none", "REGISTRATION", "LOGIN"}]]
    /\ MailTypeOK

AccountsInit ==
    /\ user = [u \in Users |-> "none"]
    /\ otp = [m \in Mails |-> NoOtp]
    /\ req = [p \in Procs |-> NoReq]
    /\ BreakerInit /\ MailInit

Answer(p) == req' = [req EXCEPT ![p] = NoReq]
Goto(p, place) == req' = [req EXCEPT ![p].at = place]
Others == UNCHANGED delivery /\ UNCHANGED breaker

(* register: no row has the address; the hash is computed before the       *)
(* insert.  A row that is found is the answer 409.                         *)
Register(p, u) ==
    /\ req[p].at = "idle" /\ user[u] = "none"
    /\ req' = [req EXCEPT ![p] = [at |-> "insert", user |-> u, purpose |-> "REGISTRATION", code |-> 0]]
    /\ UNCHANGED <<user, otp>> /\ Others

(* MUTANT: createUser saves over the row it finds.                         *)
CreateUserOver(p) ==
    /\ req[p].at = "insert"
    /\ user' = [user EXCEPT ![req[p].user] = "PENDING"]
    /\ Goto(p, "save")
    /\ UNCHANGED otp /\ Others
(* createUser: looks again, inserts; the unique index answers a race.      *)
CreateUser(p) ==
    /\ req[p].at = "insert"
    /\ IF user[req[p].user] = "none"
       THEN user' = [user EXCEPT ![req[p].user] = "PENDING"] /\ Goto(p, "save")
       ELSE UNCHANGED user /\ Answer(p)
    /\ UNCHANGED otp /\ Others

(* POST /users: a row without a code, so no way to become ACTIVE.          *)
PostUser(p, u) ==
    /\ req[p].at = "idle" /\ user[u] = "none"
    /\ user' = [user EXCEPT ![u] = "PENDING"]
    /\ UNCHANGED <<otp, req>> /\ Others

RequestLoginOtp(p, u) ==
    /\ req[p].at = "idle" /\ user[u] = "ACTIVE"
    /\ req' = [req EXCEPT ![p] = [at |-> "save", user |-> u, purpose |-> "LOGIN", code |-> 0]]
    /\ UNCHANGED <<user, otp>> /\ Others

(* generateAndSaveOtp; Mails bounds the rows.                              *)
GenerateAndSaveOtp(p) ==
    /\ req[p].at = "save"
    /\ \E m \in Mails :
        /\ otp[m] = NoOtp /\ \A k \in Mails : k < m => otp[k] # NoOtp
        /\ otp' = [otp EXCEPT ![m] = [user |-> req[p].user, purpose |-> req[p].purpose,
                                      used |-> FALSE, expired |-> FALSE]]
        /\ req' = [req EXCEPT ![p] = [@ EXCEPT !.at = "emit", !.code = m]]
    /\ UNCHANGED user /\ Others

(* emit is not awaited: the answer does not tell whether the broker has    *)
(* the message.                                                            *)
Emit(p) ==
    /\ req[p].at = "emit"
    /\ (Queue(req[p].code) \/ Others)
    /\ Answer(p)
    /\ UNCHANGED <<user, otp>>

(* The unused codes that verifyOtp looks up, by address and purpose.       *)
(* MUTANT: the newest unused code of anybody.                              *)
UnusedOfAnybody(u) == {m \in Mails : otp[m].purpose = "REGISTRATION" /\ ~otp[m].used}
Unused(u) == {m \in Mails : otp[m].user = u /\ otp[m].purpose = "REGISTRATION" /\ ~otp[m].used}

(* verifyRegistration, up to the comparison of the hashes.  What the       *)
(* client types is a code it was mailed, or not a code at all (0): that    *)
(* none is guessed is assumed, the code counts attempts and sets no limit. *)
VerifyRegistration(p, u, typed) ==
    /\ req[p].at = "idle" /\ user[u] # "none"
    /\ \E newest \in Unused(u) :
        /\ \A k \in Unused(u) : k <= newest
        /\ ~otp[newest].expired
        /\ req' = [req EXCEPT ![p] = [at |-> IF typed = newest THEN "use" ELSE "miss",
                                      user |-> u, purpose |-> "REGISTRATION", code |-> newest]]
    /\ UNCHANGED <<user, otp>> /\ Others

(* save writes the row as it was read, with one attempt more or used.      *)
SaveAttempt(p) ==
    /\ req[p].at = "miss"
    /\ otp' = [otp EXCEPT ![req[p].code].used = FALSE]
    /\ Answer(p)
    /\ UNCHANGED user /\ Others
SaveUsed(p) ==
    /\ req[p].at = "use"
    /\ otp' = [otp EXCEPT ![req[p].code].used = TRUE]
    /\ Goto(p, "activate")
    /\ UNCHANGED user /\ Others
ActivateUser(p) ==
    /\ req[p].at = "activate"
    /\ user' = [user EXCEPT ![req[p].user] = "ACTIVE"]
    /\ Answer(p)
    /\ UNCHANGED otp /\ Others

(* 15 minutes are over.                                                    *)
Expire(m) ==
    /\ otp[m] # NoOtp /\ ~otp[m].expired
    /\ otp' = [otp EXCEPT ![m].expired = TRUE]
    /\ UNCHANGED <<user, req>> /\ Others

Restart ==
    /\ MailRestart
    /\ req' = [p \in Procs |-> NoReq]
    /\ UNCHANGED <<user, otp>>

Next ==
    \/ \E p \in Procs, u \in Users :
        \/ Register(p, u) \/ PostUser(p, u) \/ RequestLoginOtp(p, u)
        \/ \E typed \in sent \cup {0} : VerifyRegistration(p, u, typed)
    \/ \E p \in Procs :
        \/ CreateUser(p) \/ GenerateAndSaveOtp(p) \/ Emit(p)
        \/ SaveAttempt(p) \/ SaveUsed(p) \/ ActivateUser(p)
    \/ \E m \in Mails : Expire(m)
    \/ MailNext /\ UNCHANGED account
    \/ Restart

vars == <<user, otp, req, delivery, breaker>>

Spec == AccountsInit /\ [][Next]_vars

-----------------------------------------------------------------------------
(* An account becomes ACTIVE only for who reads its mail: a registration   *)
(* code of this very address has been sent.                                *)
ActiveWasMailed ==
    \A u \in Users : user[u] = "ACTIVE" =>
        \E m \in sent : otp[m].user = u /\ otp[m].purpose = "REGISTRATION"

(* Requests that register an address at the same time make one account:    *)
(* one registration code in all, and none for a row made by POST /users.   *)
Codes(u) == {m \in Mails : otp[m].user = u /\ otp[m].purpose = "REGISTRATION"}
Coming(u) == {p \in Procs : /\ req[p].at = "save" /\ req[p].user = u
                            /\ req[p].purpose = "REGISTRATION"}
OneRegistration ==
    \A u \in Users :
        /\ \A m, n \in Codes(u) : m = n
        /\ \A p, q \in Coming(u) : p = q
        /\ Codes(u) = {} \/ Coming(u) = {}
        /\ user[u] = "none" => Codes(u) = {} /\ Coming(u) = {}

=============================================================================
