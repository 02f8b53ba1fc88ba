--------------------------- MODULE Accounts_proofs ---------------------------
(***************************************************************************)
(* Proofs about Accounts.  Requests change users and codes, the delivery   *)
(* changes mails; a request touches the delivery only by queueing the      *)
(* code it has just saved, so Accounts implements MailDelivery and what is *)
(* proved there holds here.                                                *)
(***************************************************************************)
EXTENDS Accounts, MailDelivery_proofs

(* What the places of a request say of what it holds.                      *)
Code == [user : Users \cup {NoUser}, purpose : {"none", "REGISTRATION", "LOGIN"},
         used : BOOLEAN, expired : BOOLEAN]
Place == [at : {"idle", "insert", "save", "emit", "miss", "use", "activate"},
          user : Users \cup {NoUser}, code : Mails \cup {0},
          purpose : {"none", "REGISTRATION", "LOGIN"}]
TablesOK ==
    /\ user \in [Users -> {"none", "PENDING", "ACTIVE"}]
    /\ otp \in [Mails -> Code]
    /\ req \in [Procs -> Place]
RequestsOK ==
    \A p \in Procs :
        /\ req[p].at # "idle" => req[p].user \in Users
        /\ req[p].at \in {"emit", "miss", "use", "activate"} => req[p].code \in Mails
Mailed(u) == \E m \in sent : m \in Mails /\ otp[m].user = u /\ otp[m].purpose = "REGISTRATION"
TypedWasMailed == \A p \in Procs : req[p].at \in {"use", "activate"} => Mailed(req[p].user)

(* At the start there are no accounts, codes or requests.                  *)
LEMMA TablesInit == AccountsInit => TablesOK /\ RequestsOK
BY AccountsAssumption DEF AccountsInit, TablesOK, RequestsOK, NoOtp, NoReq, Code, Place

(* A code that is used or expires is a code.                               *)
LEMMA CodeFields ==
    ASSUME NEW c \in Code, NEW b \in BOOLEAN
    PROVE  /\ [c EXCEPT !.used = b] \in Code
           /\ [c EXCEPT !.expired = b] \in Code
<1>1. /\ [c EXCEPT !.used = b] =
            [user |-> c.user, purpose |-> c.purpose, used |-> b, expired |-> c.expired]
      /\ [c EXCEPT !.expired = b] =
            [user |-> c.user, purpose |-> c.purpose, used |-> c.used, expired |-> b]
  BY DEF Code
<1> QED
  BY <1>1 DEF Code

(* So is the table with it.                                                *)
LEMMA OtpFields ==
    ASSUME TablesOK, NEW m \in Mails
    PROVE  /\ [otp EXCEPT ![m].used = TRUE] \in [Mails -> Code]
           /\ [otp EXCEPT ![m].used = FALSE] \in [Mails -> Code]
           /\ [otp EXCEPT ![m].expired = TRUE] \in [Mails -> Code]
BY CodeFields DEF TablesOK

(* Every step keeps the tables and the requests typed.                     *)
LEMMA TablesStep == TablesOK /\ RequestsOK /\ [Next]_vars => TablesOK' /\ RequestsOK'
<1> SUFFICES ASSUME TablesOK, RequestsOK, [Next]_vars PROVE TablesOK' /\ RequestsOK'
  OBVIOUS
<1> USE AccountsAssumption DEF TablesOK, RequestsOK, Code, Place
<1>1. ASSUME NEW p \in Procs, NEW u \in Users, Register(p, u) PROVE TablesOK' /\ RequestsOK'
  BY <1>1 DEF Register
<1>2. ASSUME NEW p \in Procs, NEW u \in Users, PostUser(p, u) PROVE TablesOK' /\ RequestsOK'
  BY <1>2 DEF PostUser
<1>3. ASSUME NEW p \in Procs, NEW u \in Users, RequestLoginOtp(p, u)
      PROVE  TablesOK' /\ RequestsOK'
  BY <1>3 DEF RequestLoginOtp
<1>4. ASSUME NEW p \in Procs, NEW u \in Users, NEW typed, VerifyRegistration(p, u, typed)
      PROVE  TablesOK' /\ RequestsOK'
  BY <1>4 DEF VerifyRegistration, Unused
<1>5. ASSUME NEW p \in Procs, CreateUser(p) PROVE TablesOK' /\ RequestsOK'
  BY <1>5 DEF CreateUser, Goto, Answer, NoReq
<1>6. ASSUME NEW p \in Procs, GenerateAndSaveOtp(p) PROVE TablesOK' /\ RequestsOK'
  <2>1. PICK m \in Mails :
          /\ otp' = [otp EXCEPT ![m] = [user |-> req[p].user, purpose |-> req[p].purpose,
                                        used |-> FALSE, expired |-> FALSE]]
          /\ req' = [req EXCEPT ![p] = [@ EXCEPT !.at = "emit", !.code = m]]
    BY <1>6 DEF GenerateAndSaveOtp
  <2>2. otp' \in [Mails -> Code]
    BY <2>1
  <2>3. [req[p] EXCEPT !.at = "emit", !.code = m] \in Place
    OBVIOUS
  <2>5. req' \in [Procs -> Place]
    BY <2>1, <2>3
  <2>4. RequestsOK'
    BY <1>6, <2>1 DEF GenerateAndSaveOtp
  <2> QED
    BY <1>6, <2>2, <2>5, <2>4 DEF GenerateAndSaveOtp
<1>7. ASSUME NEW p \in Procs, Emit(p) PROVE TablesOK' /\ RequestsOK'
  BY <1>7 DEF Emit, Answer, NoReq
<1>8. ASSUME NEW p \in Procs, SaveAttempt(p) PROVE TablesOK' /\ RequestsOK'
  <2>2. otp' \in [Mails -> Code]
    BY <1>8, OtpFields DEF SaveAttempt
  <2> QED
    BY <1>8, <2>2 DEF SaveAttempt, Answer, NoReq
<1>9. ASSUME NEW p \in Procs, SaveUsed(p) PROVE TablesOK' /\ RequestsOK'
  <2>2. otp' \in [Mails -> Code]
    BY <1>9, OtpFields DEF SaveUsed
  <2> QED
    BY <1>9, <2>2 DEF SaveUsed, Goto
<1>10. ASSUME NEW p \in Procs, ActivateUser(p) PROVE TablesOK' /\ RequestsOK'
  BY <1>10 DEF ActivateUser, Answer, NoReq
<1>11. ASSUME NEW m \in Mails, Expire(m) PROVE TablesOK' /\ RequestsOK'
  <2>2. otp' \in [Mails -> Code]
    BY <1>11, OtpFields DEF Expire
  <2> QED
    BY <1>11, <2>2 DEF Expire
<1>12. ASSUME (MailNext /\ UNCHANGED account) \/ UNCHANGED vars PROVE TablesOK' /\ RequestsOK'
  BY <1>12 DEF account, vars
<1>13. ASSUME Restart PROVE TablesOK' /\ RequestsOK'
  BY <1>13 DEF Restart, NoReq
<1> QED
  BY <1>1, <1>2, <1>3, <1>4, <1>5, <1>6, <1>7, <1>8, <1>9, <1>10, <1>11, <1>12, <1>13 DEF Next

(* They are typed in every state.                                          *)
LEMMA TablesCorrect == Spec => [](TablesOK /\ RequestsOK)
BY TablesInit, TablesStep, PTL DEF Spec

-----------------------------------------------------------------------------

(* A step of the accounts is one of the delivery of mails, or leaves it    *)
(* alone.                                                                  *)
LEMMA AccountsStepsDelivery ==
    RequestsOK /\ [Next]_vars => [MailStep]_<<delivery, breaker>>
<1> SUFFICES ASSUME RequestsOK, [Next]_vars PROVE MailStep \/ UNCHANGED <<delivery, breaker>>
  OBVIOUS
<1>1. ASSUME NEW p \in Procs, NEW u \in Users, Register(p, u) \/ PostUser(p, u) \/ RequestLoginOtp(p, u)
      PROVE  Others
  BY <1>1 DEF Register, PostUser, RequestLoginOtp
<1>2. ASSUME NEW p \in Procs, NEW u \in Users, NEW typed, VerifyRegistration(p, u, typed)
      PROVE  Others
  BY <1>2 DEF VerifyRegistration
<1>3. ASSUME NEW p \in Procs, CreateUser(p) \/ GenerateAndSaveOtp(p) \/ SaveAttempt(p)
                              \/ SaveUsed(p) \/ ActivateUser(p)
      PROVE  Others
  BY <1>3 DEF CreateUser, GenerateAndSaveOtp, SaveAttempt, SaveUsed, ActivateUser
<1>4. ASSUME NEW p \in Procs, Emit(p) PROVE MailStep \/ Others
  BY <1>4 DEF Emit, RequestsOK, MailStep
<1>5. ASSUME NEW m \in Mails, Expire(m) PROVE Others
  BY <1>5 DEF Expire
<1>6. ASSUME Restart \/ MailNext PROVE MailStep
  BY <1>6 DEF Restart, MailStep
<1>7. ASSUME UNCHANGED vars PROVE Others
  BY <1>7 DEF vars, Others
<1> QED
  BY <1>1, <1>2, <1>3, <1>4, <1>5, <1>6, <1>7 DEF Next, Others

(* The requests of accounts use the delivery of mails as it is specified:  *)
(* a code is queued once, and nothing else of the delivery is touched.     *)
THEOREM AccountsUseDelivery == Spec => MailSpec
<1>1. AccountsInit => DeliveryInit
  BY DEF AccountsInit, DeliveryInit
<1> QED
  BY <1>1, AccountsStepsDelivery, TablesCorrect, PTL DEF Spec, MailSpec, MailStep

(* Accounts, codes, requests and the delivery stay in their ranges.        *)
THEOREM AccountsTypeCorrect == Spec => []AccountsTypeOK
<1>1. AccountsTypeOK <=> TablesOK /\ MailTypeOK
  BY DEF AccountsTypeOK, TablesOK, Code, Place
<1> QED
  BY <1>1, TablesCorrect, AccountsUseDelivery, MailTypeCorrect, PTL

-----------------------------------------------------------------------------
(* What a code was issued for does not change, and a mail that is out      *)
(* stays out.                                                              *)
LEMMA SentGrows == ASSUME [MailStep]_<<delivery, breaker>> PROVE sent \subseteq sent'
<1>1. ASSUME NEW c \in Calls, NEW m \in Mails, Deliver(c, m) PROVE sent \subseteq sent'
  BY <1>1 DEF Deliver
<1>2. ASSUME NEW c \in Calls, Attempt(c) \/ SendOK(c) \/ SendFails(c) PROVE sent \subseteq sent'
  BY <1>2 DEF Attempt, SendOK, SendFails
<1>3. ASSUME Reconnect \/ MailRestart PROVE sent \subseteq sent'
  BY <1>3 DEF Reconnect, MailRestart
<1>4. ASSUME Cools \/ UNCHANGED <<delivery, breaker>> PROVE sent \subseteq sent'
  BY <1>4 DEF Cools, delivery
<1>5. ASSUME NEW m \in Mails, Queue(m) PROVE sent \subseteq sent'
  BY <1>5 DEF Queue
<1>6. ASSUME NEW m \in Mails, AcceptLate(m) PROVE sent \subseteq sent'
  BY <1>6 DEF AcceptLate
<1> QED
  BY <1>1, <1>2, <1>3, <1>4, <1>5, <1>6 DEF MailStep, MailNext

(* A code keeps its address and its purpose.                               *)
LEMMA CodesKeep ==
    ASSUME TablesOK, RequestsOK, [Next]_vars, NEW m \in Mails, otp[m].user \in Users
    PROVE  otp'[m].user = otp[m].user /\ otp'[m].purpose = otp[m].purpose
<1> USE DEF TablesOK, RequestsOK
<1>1. ASSUME NEW p \in Procs, NEW u \in Users, Register(p, u) \/ PostUser(p, u) \/ RequestLoginOtp(p, u)
      PROVE  otp' = otp
  BY <1>1 DEF Register, PostUser, RequestLoginOtp
<1>2. ASSUME NEW p \in Procs, NEW u \in Users, NEW typed, VerifyRegistration(p, u, typed)
      PROVE  otp' = otp
  BY <1>2 DEF VerifyRegistration
<1>3. ASSUME NEW p \in Procs, CreateUser(p) \/ Emit(p) \/ ActivateUser(p) PROVE otp' = otp
  BY <1>3 DEF CreateUser, Emit, ActivateUser
<1>4. ASSUME NEW p \in Procs, GenerateAndSaveOtp(p)
      PROVE  otp'[m].user = otp[m].user /\ otp'[m].purpose = otp[m].purpose
  BY <1>4, AccountsAssumption DEF GenerateAndSaveOtp, NoOtp
<1>5. ASSUME NEW p \in Procs, SaveAttempt(p) \/ SaveUsed(p)
      PROVE  otp'[m].user = otp[m].user /\ otp'[m].purpose = otp[m].purpose
  BY <1>5 DEF SaveAttempt, SaveUsed, Code
<1>6. ASSUME NEW n \in Mails, Expire(n)
      PROVE  otp'[m].user = otp[m].user /\ otp'[m].purpose = otp[m].purpose
  BY <1>6 DEF Expire, Code
<1>7. ASSUME Restart \/ UNCHANGED account \/ UNCHANGED vars PROVE otp' = otp
  BY <1>7 DEF Restart, account, vars
<1> QED
  BY <1>1, <1>2, <1>3, <1>4, <1>5, <1>6, <1>7 DEF Next

(* An address that was mailed its code stays so.                           *)
LEMMA MailedStays ==
    ASSUME TablesOK, RequestsOK, [Next]_vars, NEW u \in Users, Mailed(u)
    PROVE  Mailed(u)'
<1>1. PICK m \in sent : m \in Mails /\ otp[m].user = u /\ otp[m].purpose = "REGISTRATION"
  BY DEF Mailed
<1>2. otp'[m].user = u /\ otp'[m].purpose = "REGISTRATION"
  BY <1>1, CodesKeep
<1>3. m \in sent'
  BY <1>1, SentGrows, AccountsStepsDelivery
<1> QED
  BY <1>1, <1>2, <1>3 DEF Mailed

(* Who presents a registration code has it from the mail.                  *)
LEMMA TypedStep ==
    ASSUME TablesOK, RequestsOK, TypedWasMailed, [Next]_vars
    PROVE  TypedWasMailed'
<1> DEFINE Presents(q, u) == req[q].at \in {"use", "activate"} /\ req[q].user = u
<1>1. SUFFICES ASSUME NEW q \in Procs, NEW u \in Users,
                      req'[q].at \in {"use", "activate"}, req'[q].user = u
               PROVE  Mailed(u)'
  BY TablesStep DEF TypedWasMailed, RequestsOK, Mailed
<1>2. SUFFICES Mailed(u)
  BY MailedStays
<1>3. SUFFICES ASSUME ~Presents(q, u) PROVE Mailed(u)
  BY DEF TypedWasMailed
<1> USE DEF TablesOK
<1>4. ASSUME NEW p \in Procs, NEW v \in Users, Register(p, v) \/ PostUser(p, v) \/ RequestLoginOtp(p, v)
      PROVE  FALSE
  BY <1>1, <1>3, <1>4 DEF Register, PostUser, RequestLoginOtp
<1>5. ASSUME NEW p \in Procs, NEW v \in Users, NEW typed \in sent \cup {0},
             VerifyRegistration(p, v, typed)
      PROVE  Mailed(u)
  <2>1. PICK newest \in Unused(v) :
          req' = [req EXCEPT ![p] = [at |-> IF typed = newest THEN "use" ELSE "miss",
                                    user |-> v, purpose |-> "REGISTRATION", code |-> newest]]
    BY <1>5 DEF VerifyRegistration
  <2>2. p = q /\ v = u /\ typed = newest
    BY <1>1, <1>3, <2>1
  <2> QED
    BY <2>1, <2>2, AccountsAssumption DEF Unused, Mailed
<1>6. ASSUME NEW p \in Procs, CreateUser(p) \/ Emit(p) \/ ActivateUser(p) \/ SaveAttempt(p)
      PROVE  FALSE
  BY <1>1, <1>3, <1>6 DEF CreateUser, Emit, ActivateUser, SaveAttempt, Goto, Answer, NoReq, Place
<1>7. ASSUME NEW p \in Procs, GenerateAndSaveOtp(p) PROVE FALSE
  BY <1>1, <1>3, <1>7 DEF GenerateAndSaveOtp, Place
<1>8. ASSUME NEW p \in Procs, SaveUsed(p) PROVE FALSE
  BY <1>1, <1>3, <1>8 DEF SaveUsed, Goto, Place
<1>9. ASSUME NEW m \in Mails, Expire(m) PROVE FALSE
  BY <1>1, <1>3, <1>9 DEF Expire
<1>10. ASSUME Restart \/ UNCHANGED account \/ UNCHANGED vars PROVE FALSE
  BY <1>1, <1>3, <1>10 DEF Restart, account, vars, NoReq
<1> QED
  BY <1>4, <1>5, <1>6, <1>7, <1>8, <1>9, <1>10 DEF Next

(* An account becomes active only by a registration code of its own        *)
(* address that was mailed.                                                *)
THEOREM ActiveAccountsWereMailed == Spec => []ActiveWasMailed
<1> DEFINE Inv == TypedWasMailed /\ \A u \in Users : user[u] = "ACTIVE" => Mailed(u)
<1>1. AccountsInit => Inv
  BY DEF AccountsInit, TypedWasMailed, NoReq
<1>2. TablesOK /\ RequestsOK /\ Inv /\ [Next]_vars => Inv'
  <2> SUFFICES ASSUME TablesOK, RequestsOK, Inv, [Next]_vars PROVE Inv'
    OBVIOUS
  <2>1. TypedWasMailed'
    BY TypedStep
  <2>2. ASSUME NEW u \in Users, user'[u] = "ACTIVE" PROVE Mailed(u)'
    <3>1. SUFFICES ASSUME user[u] # "ACTIVE" PROVE Mailed(u)
      BY MailedStays
    <3> USE DEF TablesOK
    <3>2. ASSUME NEW p \in Procs, NEW v \in Users, PostUser(p, v) PROVE FALSE
      BY <2>2, <3>1, <3>2 DEF PostUser
    <3>3. ASSUME NEW p \in Procs, CreateUser(p) PROVE FALSE
      BY <2>2, <3>1, <3>3 DEF CreateUser
    <3>4. ASSUME NEW p \in Procs, ActivateUser(p) PROVE Mailed(u)
      BY <2>2, <3>1, <3>4 DEF ActivateUser, TypedWasMailed
    <3>5. ASSUME user' = user PROVE FALSE
      BY <2>2, <3>1, <3>5
    <3>6. ASSUME NEW p \in Procs, NEW v \in Users, Register(p, v) \/ RequestLoginOtp(p, v)
          PROVE  user' = user
      BY <3>6 DEF Register, RequestLoginOtp
    <3>7. ASSUME NEW p \in Procs, NEW v \in Users, NEW typed, VerifyRegistration(p, v, typed)
          PROVE  user' = user
      BY <3>7 DEF VerifyRegistration
    <3>8. ASSUME NEW p \in Procs,
                 GenerateAndSaveOtp(p) \/ Emit(p) \/ SaveAttempt(p) \/ SaveUsed(p)
          PROVE  user' = user
      BY <3>8 DEF GenerateAndSaveOtp, Emit, SaveAttempt, SaveUsed
    <3>9. ASSUME NEW m \in Mails, Expire(m) PROVE user' = user
      BY <3>9 DEF Expire
    <3>10. ASSUME Restart \/ UNCHANGED account \/ UNCHANGED vars PROVE user' = user
      BY <3>10 DEF Restart, account, vars
    <3> QED
      BY <3>2, <3>3, <3>4, <3>5, <3>6, <3>7, <3>8, <3>9, <3>10 DEF Next
  <2> QED
    BY <2>1, <2>2 DEF Mailed
<1>3. Inv => ActiveWasMailed
  BY DEF ActiveWasMailed, Mailed
<1> HIDE DEF Inv
<1> QED
  BY <1>1, <1>2, <1>3, TablesCorrect, PTL DEF Spec

-----------------------------------------------------------------------------
OneFor(u) ==
    /\ \A m, n \in Codes(u) : m = n
    /\ \A p, q \in Coming(u) : p = q
    /\ Codes(u) = {} \/ Coming(u) = {}
    /\ user[u] = "none" => Codes(u) = {} /\ Coming(u) = {}

(* Most steps issue no registration code and let no request come to it.    *)
LEMMA OneForKept ==
    ASSUME NEW u \in Users, OneFor(u),
           Codes(u)' = Codes(u), Coming(u)' \subseteq Coming(u),
           user'[u] = "none" => user[u] = "none"
    PROVE  OneFor(u)'
BY DEF OneFor

(* Only the request that created the account writes its registration code. *)
LEMMA OneForStep ==
    ASSUME TablesOK, RequestsOK, [Next]_vars, NEW u \in Users, OneFor(u)
    PROVE  OneFor(u)'
<1> DEFINE Kept == /\ Codes(u)' = Codes(u) /\ Coming(u)' \subseteq Coming(u)
                   /\ user'[u] = "none" => user[u] = "none"
<1> USE AccountsAssumption DEF TablesOK
<1>1. ASSUME NEW p \in Procs, NEW v \in Users, Register(p, v) PROVE Kept
  BY <1>1 DEF Register, Codes, Coming
<1>2. ASSUME NEW p \in Procs, NEW v \in Users, PostUser(p, v) PROVE Kept
  BY <1>2 DEF PostUser, Codes, Coming
<1>3. ASSUME NEW p \in Procs, NEW v \in Users, RequestLoginOtp(p, v) PROVE Kept
  BY <1>3 DEF RequestLoginOtp, Codes, Coming
<1>4. ASSUME NEW p \in Procs, NEW v \in Users, NEW typed, VerifyRegistration(p, v, typed)
      PROVE  Kept
  BY <1>4 DEF VerifyRegistration, Codes, Coming
<1>5. ASSUME NEW p \in Procs, CreateUser(p) PROVE OneFor(u)'
  <2>1. CASE user[req[p].user] = "none" /\ req[p].user = u
    <3>1. Codes(u) = {} /\ Coming(u) = {}
      BY <2>1 DEF OneFor
    <3>2. Codes(u)' = {}
      BY <1>5, <3>1 DEF CreateUser, Codes
    <3>3. Coming(u)' \subseteq {p}
      BY <1>5, <2>1, <3>1 DEF CreateUser, Goto, Coming, Place
    <3>4. user'[u] = "PENDING"
      BY <1>5, <2>1 DEF CreateUser
    <3> QED
      BY <3>2, <3>3, <3>4 DEF OneFor
  <2>2. CASE ~(user[req[p].user] = "none" /\ req[p].user = u)
    <3>1. Codes(u)' = Codes(u)
      BY <1>5 DEF CreateUser, Codes
    <3>2. Coming(u)' \subseteq Coming(u)
      BY <1>5, <2>2 DEF CreateUser, Goto, Answer, NoReq, Coming, Place
    <3>3. user'[u] = user[u]
      BY <1>5, <2>2 DEF CreateUser, RequestsOK
    <3> QED
      BY <3>1, <3>2, <3>3, OneForKept
  <2> QED
    BY <2>1, <2>2
<1>6. ASSUME NEW p \in Procs, GenerateAndSaveOtp(p) PROVE OneFor(u)'
  <2>1. PICK m \in Mails :
          /\ otp[m] = NoOtp
          /\ otp' = [otp EXCEPT ![m] = [user |-> req[p].user, purpose |-> req[p].purpose,
                                        used |-> FALSE, expired |-> FALSE]]
          /\ req' = [req EXCEPT ![p] = [@ EXCEPT !.at = "emit", !.code = m]]
    BY <1>6 DEF GenerateAndSaveOtp
  <2>2. Coming(u)' \subseteq Coming(u) \ {p} /\ user' = user
    BY <1>6, <2>1 DEF GenerateAndSaveOtp, Coming, Place
  <2>3. CASE p \in Coming(u)
    <3>1. Codes(u) = {} /\ Coming(u) = {p} /\ user[u] # "none"
      BY <2>3 DEF OneFor
    <3>2. Codes(u)' \subseteq {m}
      BY <2>1, <3>1 DEF Codes
    <3> QED
      BY <2>2, <3>1, <3>2 DEF OneFor
  <2>4. CASE p \notin Coming(u)
    <3>1. ~(req[p].user = u /\ req[p].purpose = "REGISTRATION")
      BY <1>6, <2>4 DEF GenerateAndSaveOtp, Coming
    <3>2. Codes(u)' = Codes(u)
      BY <2>1, <3>1 DEF Codes, NoOtp
    <3> QED
      BY <2>2, <3>2, OneForKept
  <2> QED
    BY <2>3, <2>4
<1>7. ASSUME NEW p \in Procs, Emit(p) PROVE Kept
  BY <1>7 DEF Emit, Answer, NoReq, Codes, Coming
<1>8. ASSUME NEW p \in Procs, SaveAttempt(p) PROVE Kept
  BY <1>8 DEF SaveAttempt, Answer, NoReq, Codes, Coming, Code
<1>9. ASSUME NEW p \in Procs, SaveUsed(p) PROVE Kept
  BY <1>9 DEF SaveUsed, Goto, Codes, Coming, Code, Place
<1>10. ASSUME NEW p \in Procs, ActivateUser(p) PROVE Kept
  BY <1>10 DEF ActivateUser, Answer, NoReq, Codes, Coming
<1>11. ASSUME NEW m \in Mails, Expire(m) PROVE Kept
  BY <1>11 DEF Expire, Codes, Coming, Code
<1>12. ASSUME UNCHANGED account \/ UNCHANGED vars PROVE Kept
  BY <1>12 DEF account, vars, Codes, Coming
<1>13. ASSUME Restart PROVE Kept
  BY <1>13 DEF Restart, NoReq, Codes, Coming
<1> HIDE DEF Kept
<1>14. ASSUME Kept PROVE OneFor(u)'
  BY <1>14, OneForKept DEF Kept
<1> QED
  BY <1>1, <1>2, <1>3, <1>4, <1>5, <1>6, <1>7, <1>8, <1>9, <1>10, <1>11, <1>12, <1>13, <1>14 DEF Next

(* However requests for one address interleave, its account gets one       *)
(* registration code, and only by the request that made the account.       *)
THEOREM OneRegistrationEach == Spec => []OneRegistration
<1>1. AccountsInit => OneRegistration
  BY DEF AccountsInit, OneRegistration, Codes, Coming, NoOtp, NoReq
<1>2. TablesOK /\ RequestsOK /\ OneRegistration /\ [Next]_vars => OneRegistration'
  <2> SUFFICES ASSUME TablesOK, RequestsOK, OneRegistration, [Next]_vars, NEW u \in Users
               PROVE  OneFor(u)'
    BY DEF OneRegistration, OneFor
  <2>1. OneFor(u)
    BY DEF OneRegistration, OneFor
  <2> QED
    BY <2>1, OneForStep
<1> QED
  BY <1>1, <1>2, TablesCorrect, PTL DEF Spec

=============================================================================
